--------------------------- MODULE CoordinatorProofs ---------------------------
(***************************************************************************)
(* Theorems about Coordinator, for any workers, destinations and bounds.   *)
(***************************************************************************)
EXTENDS Coordinator, FiniteSetTheorems, TLAPS

-----------------------------------------------------------------------------
(* What the operators on replies, requests and the lease table return.     *)

LEMMA AnswerType ==
    ASSUME NEW type \in {"HelloAck", "LeaseGrant", "LeaseRenewed", "LeaseDenied",
                         "DecisionAck", "HeartbeatAck"},
           NEW e \in Nat, NEW l \in Nat,
           NEW reason \in {"None", "LeaseMissing", "EpochMismatch", "BootMismatch",
                           "LeaseExpired", "ReorderedEvidence"}
    PROVE  Answer(type, e, l, reason) \in Reply
BY DEF Answer, Reply

LEMMA RefusalType ==
    ASSUME NEW r
    PROVE  Refusal(r) \in {"LeaseMissing", "EpochMismatch", "BootMismatch",
                           "LeaseExpired", "ReorderedEvidence"}
BY DEF Refusal

LEMMA FinishType ==
    ASSUME TypeOK, NEW r \in inbox, NEW m \in Reply, Finish(r, m)
    PROVE  /\ inbox' \subseteq Request
           /\ reply' \in [Workers -> Reply]
           /\ UNCHANGED <<up, starts, now, client, nextBoot>>
<1>1. r \in Request
  BY DEF TypeOK
<1>2. inbox' = inbox \ {r}
  BY DEF Finish
<1>3. reply' \in [Workers -> Reply]
  BY <1>1 DEF Finish, TypeOK, Request
<1>4. QED
  BY <1>2, <1>3 DEF Finish, TypeOK

LEMMA FrameType ==
    ASSUME TypeOK, NEW w \in Workers,
           NEW type \in {"Hello", "LeaseRequest", "LeaseRenew", "DecisionPublish",
                         "Heartbeat"},
           NEW l \in Nat, NEW e \in Nat, NEW n \in Nat
    PROVE  Frame(w, type, l, e, n) \in Request
BY DEF Frame, Request, TypeOK, Client

LEMMA OrphanedType ==
    ASSUME TypeOK, NEW w \in Workers
    PROVE  Orphaned(w) \subseteq Request
BY DEF Orphaned, Request, TypeOK

LEMMA RevokingType ==
    ASSUME TypeOK, NEW S
    PROVE  /\ Revoking(S) \in [1..(nextLease - 1) -> Lease]
           /\ \A l \in DOMAIN leases :
                /\ Revoking(S)[l].destination = leases[l].destination
                /\ Revoking(S)[l].epoch = leases[l].epoch
                /\ Revoking(S)[l].revoked = (leases[l].revoked \/ l \in S)
BY DEF Revoking, TypeOK, Lease

LEMMA NewLeaseType ==
    ASSUME TypeOK, NEW r \in inbox, NEW e \in Nat
    PROVE  NewLease(r, e) \in Lease
BY WorkersAssumption, EpochAssumption DEF NewLease, Lease, TypeOK, Request

LEMMA AddingType ==
    ASSUME NEW n \in Nat \ {0}, NEW table \in [1..(n - 1) -> Lease], NEW rec \in Lease
    PROVE  Adding(table, n, rec) \in [1..((n + 1) - 1) -> Lease]
<1>1. 1..((n + 1) - 1) = (1..(n - 1)) \cup {n}
  OBVIOUS
<1>2. QED
  BY <1>1 DEF Adding

-----------------------------------------------------------------------------
(* Type correctness: one lemma for the handlers, one for the workers.      *)

LEMMA InitType == Init => TypeOK
<1> SUFFICES ASSUME Init PROVE TypeOK
  OBVIOUS
<1>1. Cardinality(Workers) \in Nat
  BY WorkersAssumption, FS_CardinalityType
<1>2. client \in [Workers -> Client]
  <2>1. PICK boots \in [Workers -> 1..Cardinality(Workers)] :
          client = [w \in Workers |-> FreshClient(boots[w])]
    BY DEF Init
  <2>2. QED
    BY <1>1, <2>1 DEF FreshClient, Client
<1>3. reply \in [Workers -> Reply]
  BY DEF Init, NoReply, Reply
<1>4. leases \in [1..(nextLease - 1) -> Lease]
  BY DEF Init, EmptyTable
<1>5. /\ starts = 0 /\ epoch = 0 /\ ledger = 0 /\ now = 0 /\ nextLease = 1
      /\ nextBoot \in Nat /\ up \in BOOLEAN
  <2>1. Cardinality(Workers) + 1 \in Nat
    BY <1>1
  <2>2. QED
    BY <2>1, Zenon DEF Init
<1>6. inbox \subseteq Request /\ issued \subseteq Issue /\ accepted \subseteq Acceptance
  BY DEF Init
<1>7. QED
  BY <1>2, <1>3, <1>4, <1>5, <1>6 DEF TypeOK

LEMMA HandleType ==
    ASSUME TypeOK, NEW r \in inbox, Handle(r)
    PROVE  TypeOK'
<1>0. /\ r \in Request /\ r.worker \in Workers /\ r.boot \in Nat
      /\ r.lease \in Nat /\ r.sequence \in Nat /\ r.type # "None"
      /\ epoch \in Nat /\ epoch + 1 \in Nat /\ nextLease \in Nat \ {0}
      /\ starts \in Nat /\ now + LeaseDuration \in Nat
  BY EpochAssumption DEF TypeOK, Request
<1>00. \A e \in Nat : [epoch |-> e, by |-> starts] \in Issue
  BY <1>0 DEF Issue
<1>1. CASE HandleHello(r)
  <2>1. Answer("HelloAck", epoch, 0, "None") \in Reply
    BY <1>0, AnswerType
  <2>2. QED
    BY <1>1, <2>1, FinishType DEF HandleHello, TypeOK
<1>2. CASE RegrantLease(r)
  <2>1. PICK l \in Own(r), met \in SUBSET Rivals(r) :
          /\ leases' = [Revoking(met) EXCEPT
                          ![l].epoch = epoch, ![l].expires = now + LeaseDuration]
          /\ Finish(r, Answer("LeaseGrant", epoch, l, "None"))
    BY <1>2 DEF RegrantLease
  <2>2. l \in DOMAIN leases /\ l \in 1..(nextLease - 1) /\ l \in Nat
    BY DEF Own, LiveFor, TypeOK
  <2>3. leases' \in [1..(nextLease - 1) -> Lease]
    <3>1. Revoking(met) \in [1..(nextLease - 1) -> Lease]
      BY RevokingType
    <3>2. QED
      BY <1>0, <2>1, <2>2, <3>1 DEF Lease
  <2>4. Answer("LeaseGrant", epoch, l, "None") \in Reply
    BY <1>0, <2>2, AnswerType
  <2>5. inbox' \subseteq Request /\ reply' \in [Workers -> Reply]
        /\ UNCHANGED <<up, starts, now, client, nextBoot>>
    BY <2>1, <2>4, FinishType
  <2>6. QED
    BY <1>0, <1>00, <1>2, <2>3, <2>5 DEF RegrantLease, TypeOK
<1>3. CASE GrantFreeLease(r)
  <2>1. Answer("LeaseGrant", epoch, nextLease, "None") \in Reply
    BY <1>0, AnswerType
  <2>2. inbox' \subseteq Request /\ reply' \in [Workers -> Reply]
        /\ UNCHANGED <<up, starts, now, client, nextBoot>>
    BY <1>3, <2>1, FinishType DEF GrantFreeLease
  <2>3. leases' \in [1..(nextLease' - 1) -> Lease]
    BY <1>0, <1>3, NewLeaseType, AddingType DEF GrantFreeLease, TypeOK
  <2>4. QED
    BY <1>0, <1>00, <1>3, <2>2, <2>3 DEF GrantFreeLease, TypeOK
<1>4. CASE SupersedeLease(r)
  <2>1. Answer("LeaseGrant", epoch + 1, nextLease, "None") \in Reply
    BY <1>0, AnswerType
  <2>2. inbox' \subseteq Request /\ reply' \in [Workers -> Reply]
        /\ UNCHANGED <<up, starts, now, client, nextBoot>>
    BY <1>4, <2>1, FinishType DEF SupersedeLease
  <2>3. leases' \in [1..(nextLease' - 1) -> Lease]
    BY <1>0, <1>4, NewLeaseType, AddingType, RevokingType DEF SupersedeLease
  <2>4. QED
    BY <1>0, <1>00, <1>4, <2>2, <2>3 DEF SupersedeLease, TypeOK
<1>5. CASE SupersedeUnstored(r)
  <2>1. [r EXCEPT !.type = "LeaseDenial"] \in Request
    BY <1>0 DEF Request
  <2>2. leases' \in [1..(nextLease - 1) -> Lease]
    BY <1>5, RevokingType DEF SupersedeUnstored
  <2>3. QED
    BY <1>0, <1>5, <2>1, <2>2 DEF SupersedeUnstored, TypeOK
<1>6. CASE HandleLeaseDenial(r)
  <2>1. Answer("LeaseDenied", epoch, 0, "None") \in Reply
    BY <1>0, AnswerType
  <2>2. QED
    BY <1>6, <2>1, FinishType DEF HandleLeaseDenial, TypeOK
<1>7. CASE RenewLease(r)
  <2>1. r.lease \in DOMAIN leases /\ leases[r.lease] \in Lease
        /\ leases[r.lease].epoch \in Nat
    BY <1>7 DEF RenewLease, Renewable, Live, TypeOK, Lease
  <2>2. Answer("LeaseRenewed", leases[r.lease].epoch, r.lease, "None") \in Reply
    BY <1>0, <2>1, AnswerType
  <2>3. inbox' \subseteq Request /\ reply' \in [Workers -> Reply]
        /\ UNCHANGED <<up, starts, now, client, nextBoot>>
    BY <1>7, <2>2, FinishType DEF RenewLease
  <2>4. leases' \in [1..(nextLease - 1) -> Lease]
    BY <1>0, <1>7, <2>1 DEF RenewLease, TypeOK, Lease
  <2>5. QED
    BY <1>0, <1>00, <1>7, <2>1, <2>3, <2>4 DEF RenewLease, TypeOK
<1>8. CASE DenyRenewal(r)
  <2>1. Answer("LeaseDenied", epoch, 0, "None") \in Reply
    BY <1>0, AnswerType
  <2>2. QED
    BY <1>8, <2>1, FinishType DEF DenyRenewal, TypeOK
<1>9. CASE RevokeStaleLease(r)
  <2>1. Answer("DecisionAck", epoch, 0, "EpochMismatch") \in Reply
    BY <1>0, AnswerType
  <2>2. inbox' \subseteq Request /\ reply' \in [Workers -> Reply]
        /\ UNCHANGED <<up, starts, now, client, nextBoot>>
    BY <1>9, <2>1, FinishType DEF RevokeStaleLease
  <2>3. leases' \in [1..(nextLease - 1) -> Lease]
    BY <1>9, RevokingType DEF RevokeStaleLease
  <2>4. QED
    BY <1>0, <1>9, <2>2, <2>3 DEF RevokeStaleLease, TypeOK
<1>10. CASE RefuseDecision(r)
  <2>1. Answer("DecisionAck", epoch, 0, Refusal(r)) \in Reply
    BY <1>0, AnswerType, RefusalType
  <2>2. QED
    BY <1>10, <2>1, FinishType DEF RefuseDecision, TypeOK
<1>11. CASE AcceptDecision(r)
  <2>1. r.lease \in DOMAIN leases /\ leases[r.lease] \in Lease
        /\ leases[r.lease].epoch \in Nat
        /\ leases[r.lease].destination \in Destinations
    BY <1>11 DEF AcceptDecision, Acceptable, Live, TypeOK, Lease
  <2>2. Answer("DecisionAck", epoch, 0, "None") \in Reply
    BY <1>0, AnswerType
  <2>3. inbox' \subseteq Request /\ reply' \in [Workers -> Reply]
        /\ UNCHANGED <<up, starts, now, client, nextBoot>>
    BY <1>11, <2>2, FinishType DEF AcceptDecision
  <2>4. leases' \in [1..(nextLease - 1) -> Lease]
    BY <1>0, <1>11, <2>1 DEF AcceptDecision, TypeOK, Lease
  <2>5. accepted' \subseteq Acceptance
    BY <1>0, <1>11, <2>1 DEF AcceptDecision, TypeOK, Acceptance
  <2>6. QED
    BY <1>0, <1>11, <2>3, <2>4, <2>5 DEF AcceptDecision, TypeOK
<1>12. CASE HandleHeartbeat(r)
  <2>1. Answer("HeartbeatAck", epoch, 0, "None") \in Reply
    BY <1>0, AnswerType
  <2>2. QED
    BY <1>12, <2>1, FinishType DEF HandleHeartbeat, TypeOK
<1>13. QED
  BY <1>1, <1>2, <1>3, <1>4, <1>5, <1>6, <1>7, <1>8, <1>9, <1>10, <1>11, <1>12
  DEF Handle

LEMMA ReceivedType ==
    ASSUME NEW c \in Client, NEW m \in Reply
    PROVE  Received(c, m) \in Client
BY Zenon DEF Received, Client, Reply

LEMMA WorkerStepType ==
    ASSUME TypeOK, NEW w \in Workers, WorkerStep(w)
    PROVE  TypeOK'
<1>0. /\ client[w] \in Client /\ client[w].lease \in Nat /\ client[w].epoch \in Nat
      /\ client[w].sequence \in Nat /\ client[w].sequence + 1 \in Nat /\ 0 \in Nat
      /\ NoReply \in Reply
  BY DEF TypeOK, Client, NoReply, Reply
<1>1. CASE Connect(w)
  <2>1. Frame(w, "Hello", 0, 0, 0) \in Request
    BY <1>0, FrameType
  <2>2. QED
    BY <1>0, <1>1, <2>1 DEF Connect, Send, TypeOK, Client, coordinatorVars
<1>2. CASE AcquireLease(w)
  <2>1. Frame(w, "LeaseRequest", 0, 0, 0) \in Request
    BY <1>0, FrameType
  <2>2. QED
    BY <1>0, <1>2, <2>1 DEF AcquireLease, Send, TypeOK, Client, coordinatorVars
<1>3. CASE AskRenewal(w)
  <2>1. Frame(w, "LeaseRenew", client[w].lease, client[w].epoch, 0) \in Request
    BY <1>0, FrameType
  <2>2. QED
    BY <1>0, <1>3, <2>1 DEF AskRenewal, Send, TypeOK, Client, coordinatorVars
<1>4. CASE Publish(w)
  <2>1. Frame(w, "DecisionPublish", client[w].lease, client[w].epoch,
              client[w].sequence + 1) \in Request
    BY <1>0, FrameType
  <2>2. QED
    BY <1>0, <1>4, <2>1 DEF Publish, Send, TypeOK, Client, coordinatorVars
<1>5. CASE SendHeartbeat(w)
  <2>1. Frame(w, "Heartbeat", 0, 0, 0) \in Request
    BY <1>0, FrameType
  <2>2. QED
    BY <1>0, <1>5, <2>1 DEF SendHeartbeat, Send, TypeOK, Client, coordinatorVars
<1>6. CASE Receive(w)
  <2>1. Received(client[w], reply[w]) \in Client
    BY <1>0, ReceivedType DEF TypeOK
  <2>2. QED
    BY <1>0, <1>6, <2>1 DEF Receive, TypeOK, Client, coordinatorVars
<1>7. CASE Disconnect(w)
  BY <1>0, <1>7, OrphanedType DEF Disconnect, Unlinked, Orphan, TypeOK, Client, coordinatorVars
<1>8. CASE Restart(w)
  <2>1. FreshClient(nextBoot) \in Client
    BY DEF FreshClient, Client, TypeOK
  <2>2. QED
    BY <1>0, <1>8, <2>1, OrphanedType DEF Restart, Orphan, TypeOK, coordinatorVars
<1>9. QED
  BY <1>1, <1>2, <1>3, <1>4, <1>5, <1>6, <1>7, <1>8 DEF WorkerStep

(* Every state of every behaviour of the model is well-typed: the lease    *)
(* table's ids are exactly those below next_lease_, whatever the handlers, *)
(* the crashes and the restarts do.                                        *)
THEOREM TypeCorrect == Spec => []TypeOK
<1>1. Init => TypeOK
  BY InitType
<1>2. TypeOK /\ [Next]_vars => TypeOK'
  <2> SUFFICES ASSUME TypeOK, [Next]_vars PROVE TypeOK'
    OBVIOUS
  <2>1. CASE Start
    BY <2>1, EpochAssumption DEF Start, ResumedEpoch, TypeOK
  <2>2. CASE Crash
    <3>1. NoReply \in Reply
      BY DEF NoReply, Reply
    <3>2. leases' \in [1..(nextLease' - 1) -> Lease]
      BY <2>2 DEF Crash, EmptyTable
    <3>3. client' \in [Workers -> Client]
      BY <2>2 DEF Crash, Unlinked, TypeOK, Client
    <3>4. reply' \in [Workers -> Reply]
      BY <2>2, <3>1 DEF Crash
    <3>5. /\ up' \in BOOLEAN /\ epoch' = 0 /\ nextLease' = 1
          /\ UNCHANGED <<starts, ledger, now, nextBoot, issued, accepted>>
      BY <2>2, Zenon DEF Crash
    <3>6. (inbox \subseteq Request)'
      BY <2>2 DEF Crash
    <3>7. /\ up' \in BOOLEAN /\ {starts', epoch', ledger', now'} \subseteq Nat
          /\ nextLease' \in Nat \ {0} /\ nextBoot' \in Nat
          /\ issued' \subseteq Issue /\ accepted' \subseteq Acceptance
      BY <3>5 DEF TypeOK
    <3>8. QED
      BY <3>2, <3>3, <3>4, <3>6, <3>7 DEF TypeOK
  <2>3. CASE Tick
    BY <2>3 DEF Tick, TypeOK, coordinatorVars
  <2>4. CASE AdvanceEpoch
    BY <2>4 DEF AdvanceEpoch, Stored, TypeOK
  <2>5. CASE RevokeAll
    BY <2>5, RevokingType DEF RevokeAll, TypeOK
  <2>6. CASE \E r \in inbox : Handle(r)
    BY <2>6, HandleType
  <2>7. CASE \E w \in Workers : WorkerStep(w)
    BY <2>7, WorkerStepType
  <2>8. CASE UNCHANGED vars
    BY <2>8 DEF vars, coordinatorVars, TypeOK
  <2>9. QED
    BY <2>1, <2>2, <2>3, <2>4, <2>5, <2>6, <2>7, <2>8 DEF Next
<1>3. QED
  BY <1>1, <1>2, PTL DEF Spec

-----------------------------------------------------------------------------
(* One live lease per destination.                                         *)

(* A step that keeps the ids and the destinations of the table and never   *)
(* takes a revocation back.                                                *)
OnlyRevokes ==
    /\ DOMAIN leases' = DOMAIN leases
    /\ \A l \in DOMAIN leases :
         /\ leases'[l].destination = leases[l].destination
         /\ leases[l].revoked => leases'[l].revoked

LEMMA RevokingKeepsNewest ==
    ASSUME OnlyNewestLeaseLives, OnlyRevokes
    PROVE  OnlyNewestLeaseLives'
BY DEF OnlyNewestLeaseLives, OnlyRevokes

LEMMA RevokingOnlyRevokes ==
    ASSUME TypeOK, NEW S, leases' = Revoking(S)
    PROVE  OnlyRevokes
<1>1. DOMAIN leases = 1..(nextLease - 1)
  BY DEF TypeOK
<1>2. QED
  BY <1>1, RevokingType DEF OnlyRevokes

(* Adding a lease for r's destination, all of whose leases are revoked.    *)
LEMMA AddingKeepsNewest ==
    ASSUME TypeOK, OnlyNewestLeaseLives, NEW r \in inbox, NEW e \in Nat,
           NEW table \in [1..(nextLease - 1) -> Lease],
           \A l \in DOMAIN leases :
               /\ table[l].destination = leases[l].destination
               /\ leases[l].revoked => table[l].revoked
               /\ leases[l].destination = DestinationOf[r.worker] => table[l].revoked,
           leases' = Adding(table, nextLease, NewLease(r, e))
    PROVE  OnlyNewestLeaseLives'
<1>1. DOMAIN leases = 1..(nextLease - 1) /\ nextLease \in Nat \ {0}
  BY DEF TypeOK
<1>2. DOMAIN leases' = DOMAIN leases \cup {nextLease}
  BY <1>1 DEF Adding
<1>3. /\ leases'[nextLease].destination = DestinationOf[r.worker]
      /\ \A l \in DOMAIN leases : leases'[l] = table[l]
  BY <1>1, <1>2 DEF Adding, NewLease
<1>4. SUFFICES ASSUME NEW l \in DOMAIN leases', NEW k \in DOMAIN leases',
                      leases'[l].destination = leases'[k].destination, k < l
               PROVE  leases'[k].revoked
  BY DEF OnlyNewestLeaseLives
<1>5. k \in DOMAIN leases
  BY <1>1, <1>2, <1>4
<1>6. CASE l = nextLease
  BY <1>3, <1>4, <1>5, <1>6
<1>7. CASE l \in DOMAIN leases
  <2>1. leases[l].destination = leases[k].destination
    BY <1>3, <1>4, <1>5, <1>7
  <2>2. leases[k].revoked
    BY <1>4, <1>5, <1>7, <2>1 DEF OnlyNewestLeaseLives
  <2>3. QED
    BY <1>3, <1>5, <2>2
<1>8. QED
  BY <1>2, <1>6, <1>7

LEMMA HandleKeepsNewest ==
    ASSUME TypeOK, OnlyNewestLeaseLives, NEW r \in inbox, Handle(r)
    PROVE  OnlyNewestLeaseLives'
<1>0. /\ epoch \in Nat /\ epoch + 1 \in Nat /\ DOMAIN leases = 1..(nextLease - 1)
      /\ leases \in [1..(nextLease - 1) -> Lease] /\ r.worker \in Workers
  BY DEF TypeOK, Request
<1>1. CASE UNCHANGED leases
  BY <1>1 DEF OnlyNewestLeaseLives
<1>2. CASE RegrantLease(r)
  <2>1. PICK l \in DOMAIN leases, met \in SUBSET Rivals(r) :
          leases' = [Revoking(met) EXCEPT
                       ![l].epoch = epoch, ![l].expires = now + LeaseDuration]
    BY <1>2 DEF RegrantLease, Own, LiveFor
  <2>2. OnlyRevokes
    <3> DEFINE R == Revoking(met)
    <3>1. /\ R \in [1..(nextLease - 1) -> Lease]
          /\ \A k \in DOMAIN leases :
               /\ R[k].destination = leases[k].destination
               /\ leases[k].revoked => R[k].revoked
      BY RevokingType
    <3>2. leases' = [R EXCEPT ![l].epoch = epoch, ![l].expires = now + LeaseDuration]
      BY <2>1
    <3> HIDE DEF R
    <3>3. QED
      BY <1>0, <3>1, <3>2 DEF OnlyRevokes, Lease
  <2>3. QED
    BY <2>2, RevokingKeepsNewest
<1>3. CASE GrantFreeLease(r)
  <2>1. \A l \in DOMAIN leases :
          leases[l].destination = DestinationOf[r.worker] => leases[l].revoked
    BY <1>3 DEF GrantFreeLease, LiveFor, Live
  <2>2. QED
    BY <1>0, <1>3, <2>1, AddingKeepsNewest DEF GrantFreeLease
<1>4. CASE SupersedeLease(r)
  <2>1. \A l \in DOMAIN leases :
          leases[l].destination = DestinationOf[r.worker] =>
            leases[l].revoked \/ l \in Rivals(r)
    BY <1>4 DEF SupersedeLease, Rivals, LiveFor, Live
  <2>2. \A l \in DOMAIN leases :
          leases[l].destination = DestinationOf[r.worker] =>
            Revoking(Rivals(r))[l].revoked
    BY <2>1, RevokingType
  <2>3. /\ Revoking(Rivals(r)) \in [1..(nextLease - 1) -> Lease]
        /\ \A l \in DOMAIN leases :
             /\ Revoking(Rivals(r))[l].destination = leases[l].destination
             /\ leases[l].revoked => Revoking(Rivals(r))[l].revoked
    BY RevokingType
  <2>4. leases' = Adding(Revoking(Rivals(r)), nextLease, NewLease(r, epoch + 1))
    BY <1>4 DEF SupersedeLease
  <2>5. QED
    BY <1>0, <2>2, <2>3, <2>4, AddingKeepsNewest
<1>5. CASE SupersedeUnstored(r)
  <2>1. OnlyRevokes
    BY <1>5, RevokingOnlyRevokes DEF SupersedeUnstored
  <2>2. QED
    BY <2>1, RevokingKeepsNewest
<1>6. CASE RenewLease(r)
  <2>1. OnlyRevokes
    BY <1>0, <1>6 DEF RenewLease, OnlyRevokes, Lease
  <2>2. QED
    BY <2>1, RevokingKeepsNewest
<1>7. CASE RevokeStaleLease(r)
  <2>1. OnlyRevokes
    BY <1>7, RevokingOnlyRevokes DEF RevokeStaleLease
  <2>2. QED
    BY <2>1, RevokingKeepsNewest
<1>8. CASE AcceptDecision(r)
  <2>1. OnlyRevokes
    BY <1>0, <1>8 DEF AcceptDecision, OnlyRevokes, Lease
  <2>2. QED
    BY <2>1, RevokingKeepsNewest
<1>9. QED
  BY <1>1, <1>2, <1>3, <1>4, <1>5, <1>6, <1>7, <1>8
  DEF Handle, HandleHello, HandleLeaseDenial, DenyRenewal, RefuseDecision,
      HandleHeartbeat

LEMMA WorkerStepKeepsTable ==
    ASSUME NEW w \in Workers, WorkerStep(w)
    PROVE  UNCHANGED <<coordinatorVars, now>>
BY DEF WorkerStep, Connect, AcquireLease, AskRenewal, Publish, SendHeartbeat,
       Receive, Disconnect, Restart, Send, coordinatorVars

(* grant_lease never leaves two live leases for one destination: only the  *)
(* newest lease of a destination can be unrevoked.                         *)
THEOREM SingleHolder == Spec => []OnlyNewestLeaseLives
<1>1. Init => OnlyNewestLeaseLives
  BY DEF Init, EmptyTable, OnlyNewestLeaseLives
<1>2. TypeOK /\ OnlyNewestLeaseLives /\ [Next]_vars => OnlyNewestLeaseLives'
  <2> SUFFICES ASSUME TypeOK, OnlyNewestLeaseLives, [Next]_vars
               PROVE  OnlyNewestLeaseLives'
    OBVIOUS
  <2>1. CASE UNCHANGED leases
    BY <2>1 DEF OnlyNewestLeaseLives
  <2>2. CASE Crash
    BY <2>2 DEF Crash, EmptyTable, OnlyNewestLeaseLives
  <2>3. CASE RevokeAll
    <3>1. OnlyRevokes
      BY <2>3, RevokingOnlyRevokes DEF RevokeAll
    <3>2. QED
      BY <3>1, RevokingKeepsNewest
  <2>4. CASE \E r \in inbox : Handle(r)
    BY <2>4, HandleKeepsNewest
  <2>5. CASE \E w \in Workers : WorkerStep(w)
    BY <2>1, <2>5, WorkerStepKeepsTable DEF coordinatorVars
  <2>6. QED
    BY <2>1, <2>2, <2>3, <2>4, <2>5
    DEF Next, Start, Tick, AdvanceEpoch, vars, coordinatorVars
<1>3. QED
  BY <1>1, <1>2, TypeCorrect, PTL DEF Spec

-----------------------------------------------------------------------------
(* Epochs, when no advance skips the ledger (Faults = {}).                 *)

(* Everybody knows only epochs that the ledger has been told of; while the *)
(* coordinator runs, its epoch is the ledger's; and whatever earlier       *)
(* incarnations issued lies below this one's epoch and below its leases'.  *)
EpochInv ==
    /\ up => epoch = ledger
    /\ ~up => /\ inbox = {} /\ DOMAIN leases = {}
              /\ \A w \in Workers : client[w].link = "closed" /\ reply[w] = NoReply
    /\ \A w \in Workers : client[w].epoch <= ledger /\ reply[w].epoch <= ledger
    /\ \A r \in inbox : r.epoch <= ledger
    /\ \A l \in DOMAIN leases : leases[l].epoch <= ledger
    /\ \A g \in issued : g.by <= starts /\ g.epoch <= ledger
    /\ \A g \in issued : (up /\ g.by < starts) => g.epoch < epoch
    /\ \A g \in issued, l \in DOMAIN leases : g.by < starts => g.epoch < leases[l].epoch
    /\ EpochNeverReused

(* What a handler may do to the epochs. *)
EpochStep ==
    /\ up' = up /\ starts' = starts /\ client' = client
    /\ epoch' \in {epoch, epoch + 1}
    /\ epoch' = epoch => ledger' = ledger
    /\ epoch' # epoch => ledger' = epoch'
    /\ inbox' \subseteq inbox
    /\ \A w \in Workers :
         \/ reply'[w] = reply[w]
         \/ reply'[w].epoch = epoch'
         \/ \E l \in DOMAIN leases : reply'[w].epoch = leases[l].epoch
    /\ \A l \in DOMAIN leases' :
         \/ l \in DOMAIN leases /\ leases'[l].epoch = leases[l].epoch
         \/ leases'[l].epoch = epoch'
    /\ \A g \in issued' :
         \/ g \in issued
         \/ g.by = starts /\ g.epoch = epoch'
         \/ g.by = starts /\ \E l \in DOMAIN leases : g.epoch = leases[l].epoch

LEMMA EpochStepKeepsInv ==
    ASSUME TypeOK, TypeOK', EpochInv, up, EpochStep
    PROVE  EpochInv'
<1>0. /\ epoch \in Nat /\ ledger \in Nat /\ starts \in Nat
      /\ epoch = ledger /\ epoch' = ledger' /\ ledger <= ledger' /\ ledger' \in Nat
  BY DEF EpochStep, EpochInv, TypeOK
<1>1. /\ \A l \in DOMAIN leases : leases[l].epoch \in Nat /\ leases[l].epoch <= ledger
      /\ \A l \in DOMAIN leases' : leases'[l].epoch \in Nat
  BY DEF TypeOK, Lease, EpochInv
<1>2. \A w \in Workers : /\ client[w].epoch \in Nat /\ reply[w].epoch \in Nat
                         /\ reply'[w].epoch \in Nat
                         /\ client[w].epoch <= ledger /\ reply[w].epoch <= ledger
  BY DEF TypeOK, Client, Reply, EpochInv
<1>3. /\ \A g \in issued : g.epoch \in Nat /\ g.by \in Nat
                           /\ g.by <= starts /\ g.epoch <= ledger
      /\ \A g \in issued' : g.epoch \in Nat /\ g.by \in Nat
  BY DEF TypeOK, Issue, EpochInv
<1>4. \A w \in Workers : client'[w].epoch <= ledger' /\ reply'[w].epoch <= ledger'
  <2> SUFFICES ASSUME NEW w \in Workers
               PROVE  client'[w].epoch <= ledger' /\ reply'[w].epoch <= ledger'
    OBVIOUS
  <2>1. client'[w].epoch <= ledger'
    BY <1>0, <1>2 DEF EpochStep
  <2>2. CASE reply'[w] = reply[w]
    BY <1>0, <1>2, <2>1, <2>2
  <2>3. CASE reply'[w].epoch = epoch'
    BY <1>0, <2>1, <2>3
  <2>4. CASE \E l \in DOMAIN leases : reply'[w].epoch = leases[l].epoch
    BY <1>0, <1>1, <2>1, <2>4
  <2>5. QED
    BY <2>2, <2>3, <2>4 DEF EpochStep
<1>5. \A r \in inbox' : r.epoch <= ledger'
  <2> SUFFICES ASSUME NEW r \in inbox' PROVE r.epoch <= ledger'
    OBVIOUS
  <2>1. r \in inbox /\ r.epoch \in Nat /\ r.epoch <= ledger
    BY DEF EpochStep, EpochInv, TypeOK, Request
  <2>2. QED
    BY <1>0, <2>1
<1>6. \A l \in DOMAIN leases' : leases'[l].epoch <= ledger'
  BY <1>0, <1>1 DEF EpochStep
<1>7. \A g \in issued' : g.by <= starts' /\ g.epoch <= ledger'
  BY <1>0, <1>1, <1>3 DEF EpochStep
<1>8. \A g \in issued' : g.by < starts' => g \in issued /\ g.epoch < epoch
  BY <1>0, <1>3 DEF EpochStep, EpochInv
<1>9. \A g \in issued' : g.by < starts' => g.epoch < epoch'
  BY <1>0, <1>3, <1>8
<1>10. \A g \in issued', l \in DOMAIN leases' :
          g.by < starts' => g.epoch < leases'[l].epoch
  <2> SUFFICES ASSUME NEW g \in issued', NEW l \in DOMAIN leases', g.by < starts'
               PROVE  g.epoch < leases'[l].epoch
    OBVIOUS
  <2>1. CASE l \in DOMAIN leases /\ leases'[l].epoch = leases[l].epoch
    BY <1>8, <2>1 DEF EpochInv, EpochStep
  <2>2. CASE leases'[l].epoch = epoch'
    BY <1>9, <2>2
  <2>3. QED
    BY <2>1, <2>2 DEF EpochStep
<1>11. EpochNeverReused'
  <2> SUFFICES ASSUME NEW g \in issued', NEW h \in issued', g.epoch = h.epoch,
                      g.by # h.by
               PROVE  FALSE
    BY DEF EpochNeverReused
  <2>1. ~(g \in issued /\ h \in issued)
    BY DEF EpochInv, EpochNeverReused
  <2>2. PICK n \in issued', o \in issued :
          n.epoch = o.epoch /\ n.by = starts /\ o.by < starts /\ o.epoch < epoch
          /\ (n.epoch = epoch' \/ \E l \in DOMAIN leases : n.epoch = leases[l].epoch)
    <3>1. CASE g \notin issued
      <4>1. g.by = starts
        BY <3>1 DEF EpochStep
      <4>2. h.by < starts'
        BY <1>0, <1>3, <1>7, <4>1 DEF EpochStep
      <4>3. h \in issued /\ h.epoch < epoch
        BY <1>8, <4>2
      <4>4. QED
        BY <3>1, <4>1, <4>2, <4>3 DEF EpochStep
    <3>2. CASE h \notin issued
      <4>1. h.by = starts
        BY <3>2 DEF EpochStep
      <4>2. g.by < starts'
        BY <1>0, <1>3, <1>7, <4>1 DEF EpochStep
      <4>3. g \in issued /\ g.epoch < epoch
        BY <1>8, <4>2
      <4>4. QED
        BY <3>2, <4>1, <4>2, <4>3 DEF EpochStep
    <3>3. QED
      BY <2>1, <3>1, <3>2
  <2>3. CASE n.epoch = epoch'
    BY <1>0, <1>3, <2>2, <2>3
  <2>4. CASE \E l \in DOMAIN leases : n.epoch = leases[l].epoch
    <3>1. PICK l \in DOMAIN leases : n.epoch = leases[l].epoch
      BY <2>4
    <3>2. o.epoch < leases[l].epoch
      BY <2>2 DEF EpochInv
    <3>3. QED
      BY <1>1, <1>3, <2>2, <3>1, <3>2
  <2>5. QED
    BY <2>2, <2>3, <2>4
<1>12. QED
  BY <1>0, <1>4, <1>5, <1>6, <1>7, <1>9, <1>10, <1>11 DEF EpochInv, EpochStep

LEMMA RevokingKeepsEpochs ==
    ASSUME TypeOK, NEW S, leases' = Revoking(S)
    PROVE  \A k \in DOMAIN leases' :
             k \in DOMAIN leases /\ leases'[k].epoch = leases[k].epoch
<1>1. DOMAIN leases = 1..(nextLease - 1)
  BY DEF TypeOK
<1>2. /\ Revoking(S) \in [1..(nextLease - 1) -> Lease]
      /\ \A l \in DOMAIN leases : Revoking(S)[l].epoch = leases[l].epoch
  BY RevokingType
<1>3. DOMAIN leases' = DOMAIN leases
  BY <1>1, <1>2
<1>4. QED
  BY <1>2, <1>3

LEMMA HandleEpochs ==
    ASSUME TypeOK, Faults = {}, NEW r \in inbox, Handle(r)
    PROVE  EpochStep
<1>0. /\ epoch \in Nat /\ epoch + 1 # epoch /\ r \in Request /\ r.worker \in Workers
      /\ nextLease \in Nat \ {0} /\ DOMAIN leases = 1..(nextLease - 1)
      /\ leases \in [1..(nextLease - 1) -> Lease] /\ reply \in [Workers -> Reply]
  BY DEF TypeOK, Request
<1>1. ASSUME NEW m, Finish(r, m)
      PROVE  /\ up' = up /\ starts' = starts /\ client' = client
             /\ inbox' \subseteq inbox
             /\ \A w \in Workers : reply'[w] = reply[w] \/ reply'[w] = m
  BY <1>0, <1>1 DEF Finish
<1>2. ASSUME NEW type, NEW e, NEW l, NEW reason
      PROVE  Answer(type, e, l, reason).epoch = e
  BY DEF Answer
<1>3. CASE HandleHello(r)
  BY <1>0, <1>1, <1>2, <1>3 DEF HandleHello, EpochStep
<1>4. CASE RegrantLease(r)
  <2>1. PICK l \in Own(r), met \in SUBSET Rivals(r) :
          /\ leases' = [Revoking(met) EXCEPT
                          ![l].epoch = epoch, ![l].expires = now + LeaseDuration]
          /\ Finish(r, Answer("LeaseGrant", epoch, l, "None"))
    BY <1>4 DEF RegrantLease
  <2> DEFINE R == Revoking(met)
  <2>2. /\ R \in [1..(nextLease - 1) -> Lease]
        /\ \A k \in DOMAIN leases : R[k].epoch = leases[k].epoch
    BY RevokingType
  <2>3. leases' = [R EXCEPT ![l].epoch = epoch, ![l].expires = now + LeaseDuration]
    BY <2>1
  <2> HIDE DEF R
  <2>4. \A k \in DOMAIN leases' :
           \/ k \in DOMAIN leases /\ leases'[k].epoch = leases[k].epoch
           \/ leases'[k].epoch = epoch
    BY <1>0, <2>2, <2>3 DEF Lease
  <2>5. \A g \in issued' : g \in issued \/ (g.by = starts /\ g.epoch = epoch)
    BY <1>4 DEF RegrantLease
  <2>6. epoch' = epoch /\ ledger' = ledger
    BY <1>4 DEF RegrantLease
  <2>7. QED
    BY <1>0, <1>1, <1>2, <2>1, <2>4, <2>5, <2>6 DEF EpochStep
<1>5. CASE GrantFreeLease(r)
  <2>1. \A k \in DOMAIN leases' :
           \/ k \in DOMAIN leases /\ leases'[k].epoch = leases[k].epoch
           \/ leases'[k].epoch = epoch
    BY <1>0, <1>5 DEF GrantFreeLease, Adding, NewLease
  <2>2. \A g \in issued' : g \in issued \/ (g.by = starts /\ g.epoch = epoch)
    BY <1>5 DEF GrantFreeLease
  <2>3. QED
    BY <1>0, <1>1, <1>2, <1>5, <2>1, <2>2 DEF GrantFreeLease, EpochStep
<1>6. CASE SupersedeLease(r)
  <2>1. /\ Revoking(Rivals(r)) \in [1..(nextLease - 1) -> Lease]
        /\ \A k \in DOMAIN leases : Revoking(Rivals(r))[k].epoch = leases[k].epoch
    BY RevokingType
  <2>2. leases' = Adding(Revoking(Rivals(r)), nextLease, NewLease(r, epoch + 1))
    BY <1>6 DEF SupersedeLease
  <2>3. \A k \in DOMAIN leases' :
           \/ k \in DOMAIN leases /\ leases'[k].epoch = leases[k].epoch
           \/ leases'[k].epoch = epoch + 1
    BY <1>0, <2>1, <2>2 DEF Adding, NewLease
  <2>4. \A g \in issued' : g \in issued \/ (g.by = starts /\ g.epoch = epoch + 1)
    BY <1>6 DEF SupersedeLease
  <2>5. QED
    BY <1>0, <1>1, <1>2, <1>6, <2>3, <2>4 DEF SupersedeLease, EpochStep
<1>7. CASE SupersedeUnstored(r)
  BY <1>7 DEF SupersedeUnstored
<1>8. CASE HandleLeaseDenial(r)
  BY <1>0, <1>1, <1>2, <1>8 DEF HandleLeaseDenial, EpochStep
<1>9. CASE RenewLease(r)
  <2>1. r.lease \in DOMAIN leases
    BY <1>9 DEF RenewLease, Renewable, Live
  <2>2. \A k \in DOMAIN leases' : k \in DOMAIN leases /\ leases'[k].epoch = leases[k].epoch
    BY <1>0, <1>9, <2>1 DEF RenewLease, Lease
  <2>3. \A g \in issued' :
          g \in issued \/ (g.by = starts /\ g.epoch = leases[r.lease].epoch)
    BY <1>9 DEF RenewLease
  <2>4. QED
    BY <1>0, <1>1, <1>2, <1>9, <2>1, <2>2, <2>3 DEF RenewLease, EpochStep
<1>10. CASE DenyRenewal(r)
  BY <1>0, <1>1, <1>2, <1>10 DEF DenyRenewal, EpochStep
<1>11. CASE RevokeStaleLease(r)
  <2>1. \A k \in DOMAIN leases' : k \in DOMAIN leases /\ leases'[k].epoch = leases[k].epoch
    BY <1>11, RevokingKeepsEpochs DEF RevokeStaleLease
  <2>2. /\ Finish(r, Answer("DecisionAck", epoch, 0, "EpochMismatch"))
        /\ epoch' = epoch /\ ledger' = ledger /\ issued' = issued
    BY <1>11 DEF RevokeStaleLease
  <2>3. QED
    BY <1>0, <1>1, <1>2, <2>1, <2>2 DEF EpochStep
<1>12. CASE RefuseDecision(r)
  BY <1>0, <1>1, <1>2, <1>12 DEF RefuseDecision, EpochStep
<1>13. CASE AcceptDecision(r)
  <2>1. r.lease \in DOMAIN leases
    BY <1>13 DEF AcceptDecision, Acceptable, Live
  <2>2. \A k \in DOMAIN leases' : k \in DOMAIN leases /\ leases'[k].epoch = leases[k].epoch
    BY <1>0, <1>13, <2>1 DEF AcceptDecision, Lease
  <2>3. QED
    BY <1>0, <1>1, <1>2, <1>13, <2>2 DEF AcceptDecision, EpochStep
<1>14. CASE HandleHeartbeat(r)
  BY <1>0, <1>1, <1>2, <1>14 DEF HandleHeartbeat, EpochStep
<1>15. QED
  BY <1>3, <1>4, <1>5, <1>6, <1>7, <1>8, <1>9, <1>10, <1>11, <1>12, <1>13, <1>14
  DEF Handle

LEMMA WorkerStepKeepsEpochs ==
    ASSUME TypeOK, EpochInv, NEW v \in Workers, WorkerStep(v)
    PROVE  EpochInv'
<1>0. /\ ledger \in Nat /\ v \in Workers /\ client \in [Workers -> Client]
      /\ reply \in [Workers -> Reply] /\ NoReply.epoch = 0 /\ 0 <= ledger
  BY DEF TypeOK, NoReply
<1>1. UNCHANGED <<up, starts, epoch, ledger, leases>>
  BY WorkerStepKeepsTable DEF coordinatorVars
<1>2. issued' = issued
  BY DEF WorkerStep, Connect, AcquireLease, AskRenewal, Publish, SendHeartbeat,
         Receive, Disconnect, Restart, Send
<1>3. \A w \in Workers : client'[w].epoch <= ledger
  <2> SUFFICES ASSUME NEW w \in Workers PROVE client'[w].epoch <= ledger
    OBVIOUS
  <2>1. client[w].epoch <= ledger /\ reply[v].epoch <= ledger
    BY DEF EpochInv
  <2>2. CASE Receive(v)
    <3>1. Received(client[v], reply[v]).epoch \in {client[v].epoch, reply[v].epoch}
      <4>1. client[v] \in Client
        BY <1>0
      <4>2. QED
        BY <4>1, Zenon DEF Received, Client
    <3>2. QED
      BY <1>0, <2>1, <2>2, <3>1 DEF Receive, EpochInv
  <2>3. CASE Restart(v)
    BY <1>0, <2>1, <2>3 DEF Restart, FreshClient
  <2>4. CASE Disconnect(v)
    BY <1>0, <2>1, <2>4 DEF Disconnect, Unlinked, Client
  <2>5. CASE Connect(v) \/ Publish(v)
    BY <1>0, <2>1, <2>5 DEF Connect, Publish, Client
  <2>6. CASE AcquireLease(v) \/ AskRenewal(v) \/ SendHeartbeat(v)
    BY <1>0, <2>1, <2>6 DEF AcquireLease, AskRenewal, SendHeartbeat, Client
  <2>7. QED
    BY <2>2, <2>3, <2>4, <2>5, <2>6 DEF WorkerStep
<1>4. \A w \in Workers : reply'[w].epoch <= ledger
  <2>1. \A w \in Workers : reply'[w] = reply[w] \/ reply'[w] = NoReply
    BY <1>0 DEF WorkerStep, Connect, AcquireLease, AskRenewal, Publish, SendHeartbeat,
         Receive, Disconnect, Restart, Send
  <2>2. QED
    BY <1>0, <2>1 DEF EpochInv
<1>5. \A r \in inbox' : r.epoch <= ledger
  <2> SUFFICES ASSUME NEW r \in inbox' PROVE r.epoch <= ledger
    OBVIOUS
  <2>1. CASE r \in inbox
    BY <2>1 DEF EpochInv
  <2>2. CASE r \in Orphaned(v)
    <3>1. PICK q \in inbox : r = q \/ r = [q EXCEPT !.live = FALSE]
      BY <2>2 DEF Orphaned
    <3>2. q \in Request /\ q.epoch <= ledger
      BY DEF TypeOK, EpochInv
    <3>3. QED
      BY <3>1, <3>2 DEF Request
  <2>3. CASE \E type, l, n : r = Frame(v, type, l, 0, n)
    BY <1>0, <2>3 DEF Frame
  <2>4. CASE \E type, l, n : r = Frame(v, type, l, client[v].epoch, n)
    BY <1>0, <2>4 DEF Frame, EpochInv
  <2>5. QED
    BY <2>1, <2>2, <2>3, <2>4
    DEF WorkerStep, Connect, AcquireLease, AskRenewal, Publish, SendHeartbeat,
        Receive, Disconnect, Restart, Send, Orphan
<1>6. ASSUME ~up
      PROVE  /\ inbox' = {}
             /\ \A w \in Workers : client'[w].link = "closed" /\ reply'[w] = NoReply
  <2>1. /\ inbox = {}
        /\ \A w \in Workers : client[w].link = "closed" /\ reply[w] = NoReply
    BY <1>6 DEF EpochInv
  <2>2. Restart(v)
    BY <1>6, <2>1
    DEF WorkerStep, Connect, AcquireLease, AskRenewal, Publish, SendHeartbeat,
        MayCall, Receive, Disconnect
  <2>3. inbox' = {}
    BY <2>1, <2>2 DEF Restart, Orphan, Orphaned
  <2>4. QED
    BY <1>0, <2>1, <2>2, <2>3 DEF Restart, FreshClient
<1>7. QED
  BY <1>1, <1>2, <1>3, <1>4, <1>5, <1>6 DEF EpochInv, EpochNeverReused

LEMMA EpochInvHolds == ASSUME Faults = {} PROVE Spec => []EpochInv
<1>1. Init => EpochInv
  <2> SUFFICES ASSUME Init PROVE EpochInv
    OBVIOUS
  <2>1. \A w \in Workers : client[w].epoch = 0 /\ client[w].link = "closed"
    BY DEF Init, FreshClient
  <2>2. QED
    BY <2>1 DEF Init, EpochInv, EpochNeverReused, EmptyTable, NoReply
<1>2. TypeOK /\ TypeOK' /\ EpochInv /\ [Next]_vars => EpochInv'
  <2> SUFFICES ASSUME TypeOK, TypeOK', EpochInv, [Next]_vars
               PROVE  EpochInv'
    OBVIOUS
  <2>0. /\ ledger \in Nat /\ epoch \in Nat /\ starts \in Nat
        /\ \A w \in Workers : client[w] \in Client /\ reply[w] \in Reply
        /\ \A w \in Workers : client[w].epoch \in Nat /\ reply[w].epoch \in Nat
        /\ \A r \in inbox : r.epoch \in Nat
        /\ \A l \in DOMAIN leases : leases[l].epoch \in Nat
        /\ \A g \in issued : g.epoch \in Nat /\ g.by \in Nat
    BY DEF TypeOK, Client, Reply, Request, Lease, Issue
  <2>1. CASE Start
    <3>1. ledger < ledger' /\ ledger' \in Nat /\ epoch' = ledger' /\ starts' = starts + 1
          /\ up' /\ UNCHANGED <<leases, inbox, reply, client, issued>>
      BY <2>0, <2>1, EpochAssumption DEF Start, ResumedEpoch
    <3>2. DOMAIN leases = {} /\ inbox = {}
      BY <2>1 DEF Start, EpochInv
    <3>3. \A w \in Workers : client'[w].epoch <= ledger' /\ reply'[w].epoch <= ledger'
      BY <2>0, <3>1 DEF EpochInv
    <3>4. \A g \in issued : g.by <= starts' /\ g.epoch <= ledger' /\ g.epoch < epoch'
      BY <2>0, <3>1 DEF EpochInv
    <3>5. QED
      BY <3>1, <3>2, <3>3, <3>4 DEF EpochInv, EpochNeverReused
  <2>2. CASE Crash
    <3>1. \A w \in Workers : client'[w].epoch = client[w].epoch
                             /\ client'[w].link = "closed"
                             /\ reply'[w] = NoReply /\ reply'[w].epoch = 0
      BY <2>0, <2>2 DEF Crash, Unlinked, Client, NoReply
    <3>2. /\ up' = FALSE /\ DOMAIN leases' = {} /\ inbox' = {}
          /\ UNCHANGED <<starts, ledger, issued>>
      BY <2>2 DEF Crash, EmptyTable
    <3>3. \A w \in Workers : client'[w].epoch <= ledger' /\ reply'[w].epoch <= ledger'
      BY <2>0, <3>1, <3>2 DEF EpochInv
    <3>4. QED
      BY <2>0, <3>1, <3>2, <3>3 DEF EpochInv, EpochNeverReused
  <2>3. CASE Tick
    BY <2>3 DEF Tick, coordinatorVars, EpochInv, EpochNeverReused
  <2>4. CASE AdvanceEpoch
    <3>1. EpochStep
      BY <2>0, <2>4 DEF AdvanceEpoch, StoreOutcomes, Stored, EpochStep
    <3>2. QED
      BY <2>4, <3>1, EpochStepKeepsInv DEF AdvanceEpoch
  <2>5. CASE RevokeAll
    BY <2>5 DEF RevokeAll
  <2>6. CASE \E r \in inbox : Handle(r)
    <3>1. up
      BY <2>6 DEF EpochInv
    <3>2. QED
      BY <2>6, <3>1, HandleEpochs, EpochStepKeepsInv
  <2>7. CASE \E w \in Workers : WorkerStep(w)
    BY <2>7, WorkerStepKeepsEpochs
  <2>8. CASE UNCHANGED vars
    BY <2>8 DEF vars, coordinatorVars, EpochInv, EpochNeverReused
  <2>9. QED
    BY <2>1, <2>2, <2>3, <2>4, <2>5, <2>6, <2>7, <2>8 DEF Next
<1>3. QED
  BY <1>1, <1>2, TypeCorrect, PTL DEF Spec

(* An epoch that appears in a grant of one coordinator incarnation never   *)
(* appears in a grant of another, however often it crashes and restarts,   *)
(* provided every advance of the epoch reaches the ledger: RevokeAll and a *)
(* failed write, which break the property, are excluded by the assumption. *)
THEOREM EpochsAreUnique == ASSUME Faults = {} PROVE Spec => []EpochNeverReused
<1>1. EpochInv => EpochNeverReused
  BY DEF EpochInv
<1>2. QED
  BY <1>1, EpochInvHolds, PTL

(* Under the same assumption, no worker, frame, reply or lease ever bears  *)
(* an epoch above the running coordinator's: comparing an epoch for        *)
(* equality, as every handler does, is then the same as asking whether it  *)
(* is superseded.                                                          *)
THEOREM EpochsAreKnown == ASSUME Faults = {} PROVE Spec => []NoEpochFromTheFuture
<1>1. EpochInv => NoEpochFromTheFuture
  BY DEF EpochInv, NoEpochFromTheFuture
<1>2. QED
  BY <1>1, EpochInvHolds, PTL

================================================================================
