----------------------------- MODULE AuthorityProofs -----------------------------
(***************************************************************************)
(* The coordinator and its clients implement the lease authority, for any  *)
(* workers, destinations and bounds and with every fault.  The argument    *)
(* has three parts: which identities are about (a boot names one process), *)
(* what has been accepted so far (by leases that are still in the table),  *)
(* and what each handler does to the one live lease of a destination.      *)
(***************************************************************************)
EXTENDS CoordinatorProofs

-----------------------------------------------------------------------------
(* What a step does to the identities, the table and the sequences.        *)

(* A lease keeps who holds what; its sequence may change. *)
SameLease(l) ==
    /\ leases'[l].destination = leases[l].destination
    /\ leases'[l].worker = leases[l].worker
    /\ leases'[l].boot = leases[l].boot

(* A frame that was there before, under the same type or a denial's. *)
Successor(q, p) ==
    /\ q.worker = p.worker /\ q.boot = p.boot /\ q.sequence = p.sequence
    /\ q.type \in {p.type, "LeaseDenial"}

HandlerStep(r) ==
    /\ UNCHANGED <<up, starts, client, nextBoot>>
    /\ \A q \in inbox' : \E p \in inbox : Successor(q, p)
    /\ DOMAIN leases \subseteq DOMAIN leases'
    /\ \A l \in DOMAIN leases : SameLease(l)
    /\ \A l \in DOMAIN leases' \ DOMAIN leases :
         leases'[l].worker = r.worker /\ leases'[l].boot = r.boot

LEMMA RevokingKeepsLeases ==
    ASSUME TypeOK, NEW S
    PROVE  /\ DOMAIN Revoking(S) = DOMAIN leases
           /\ \A l \in DOMAIN leases :
                /\ Revoking(S)[l] \in Lease
                /\ Revoking(S)[l].destination = leases[l].destination
                /\ Revoking(S)[l].worker = leases[l].worker
                /\ Revoking(S)[l].boot = leases[l].boot
                /\ Revoking(S)[l].sequence = leases[l].sequence
                /\ Revoking(S)[l].revoked = (leases[l].revoked \/ l \in S)
                /\ leases[l].revoked => Revoking(S)[l].revoked
BY DEF Revoking, TypeOK, Lease

LEMMA FinishKeepsFrames ==
    ASSUME NEW r, NEW m, Finish(r, m)
    PROVE  /\ UNCHANGED <<up, starts, client, nextBoot>>
           /\ \A q \in inbox' : \E p \in inbox : Successor(q, p)
BY DEF Finish, Successor

LEMMA HandleIsHandlerStep ==
    ASSUME TypeOK, NEW r \in inbox, Handle(r)
    PROVE  HandlerStep(r)
<1>0. /\ DOMAIN leases = 1..(nextLease - 1) /\ nextLease \in Nat \ {0}
      /\ leases \in [1..(nextLease - 1) -> Lease]
      /\ nextLease \notin DOMAIN leases
  BY DEF TypeOK
<1>1. CASE UNCHANGED leases /\ \E m : Finish(r, m)
  BY <1>1, FinishKeepsFrames DEF HandlerStep, SameLease
<1>2. CASE RegrantLease(r)
  <2>1. PICK l \in DOMAIN leases, met \in SUBSET Rivals(r) :
          /\ leases' = [Revoking(met) EXCEPT
                          ![l].epoch = epoch, ![l].expires = now + LeaseDuration]
          /\ Finish(r, Answer("LeaseGrant", epoch, l, "None"))
    BY <1>2 DEF RegrantLease, Own, LiveFor
  <2>2. DOMAIN leases' = DOMAIN leases /\ \A k \in DOMAIN leases : SameLease(k)
    <3> DEFINE R == Revoking(met)
    <3>1. /\ DOMAIN R = DOMAIN leases
          /\ \A k \in DOMAIN leases :
               /\ R[k] \in Lease
               /\ R[k].destination = leases[k].destination
               /\ R[k].worker = leases[k].worker /\ R[k].boot = leases[k].boot
      BY RevokingKeepsLeases
    <3>2. leases' = [R EXCEPT ![l].epoch = epoch, ![l].expires = now + LeaseDuration]
      BY <2>1
    <3> HIDE DEF R
    <3>3. QED
      BY <3>1, <3>2 DEF SameLease, Lease
  <2>3. QED
    BY <2>1, <2>2, FinishKeepsFrames DEF HandlerStep
<1>3. CASE GrantFreeLease(r)
  BY <1>0, <1>3, FinishKeepsFrames
  DEF GrantFreeLease, Adding, NewLease, HandlerStep, SameLease
<1>4. CASE SupersedeLease(r)
  <2>1. /\ DOMAIN leases' = DOMAIN leases \cup {nextLease}
        /\ leases'[nextLease] = NewLease(r, epoch + 1)
        /\ \A l \in DOMAIN leases : leases'[l] = Revoking(Rivals(r))[l]
    BY <1>0, <1>4, RevokingKeepsLeases DEF SupersedeLease, Adding
  <2>2. \A l \in DOMAIN leases : SameLease(l)
    BY <2>1, RevokingKeepsLeases DEF SameLease
  <2>3. leases'[nextLease].worker = r.worker /\ leases'[nextLease].boot = r.boot
    BY <2>1 DEF NewLease
  <2>4. /\ UNCHANGED <<up, starts, client, nextBoot>>
        /\ \A q \in inbox' : \E p \in inbox : Successor(q, p)
    BY <1>4, FinishKeepsFrames DEF SupersedeLease
  <2>5. QED
    BY <2>1, <2>2, <2>3, <2>4 DEF HandlerStep
<1>5. CASE SupersedeUnstored(r)
  <2>1. \A q \in inbox' : \E p \in inbox : Successor(q, p)
    <3>1. r \in Request
      BY DEF TypeOK
    <3>2. Successor([r EXCEPT !.type = "LeaseDenial"], r)
      BY <3>1 DEF Successor, Request
    <3>3. QED
      BY <1>5, <3>2 DEF SupersedeUnstored, Successor
  <2>2. DOMAIN leases' = DOMAIN leases /\ \A l \in DOMAIN leases : SameLease(l)
    BY <1>5, RevokingKeepsLeases DEF SupersedeUnstored, SameLease
  <2>3. QED
    BY <1>5, <2>1, <2>2 DEF SupersedeUnstored, HandlerStep
<1>6. CASE RenewLease(r)
  BY <1>0, <1>6, FinishKeepsFrames DEF RenewLease, HandlerStep, SameLease, Lease
<1>7. CASE RevokeStaleLease(r)
  <2>1. DOMAIN leases' = DOMAIN leases /\ \A l \in DOMAIN leases : SameLease(l)
    BY <1>7, RevokingKeepsLeases DEF RevokeStaleLease, SameLease
  <2>2. QED
    BY <1>7, <2>1, FinishKeepsFrames DEF RevokeStaleLease, HandlerStep
<1>8. CASE AcceptDecision(r)
  BY <1>0, <1>8, FinishKeepsFrames DEF AcceptDecision, HandlerStep, SameLease, Lease
<1>9. QED
  BY <1>1, <1>2, <1>3, <1>4, <1>5, <1>6, <1>7, <1>8
  DEF Handle, HandleHello, HandleLeaseDenial, DenyRenewal, RefuseDecision,
      HandleHeartbeat

(* A worker's step sends a frame under its own name, or leaves frames of   *)
(* its dead connection behind, or is a restart, which takes a new boot.    *)
WorkerIdentity(w) ==
    /\ \A v \in Workers \ {w} : client'[v] = client[v]
    /\ \/ client'[w].boot = client[w].boot /\ nextBoot' = nextBoot
       \/ /\ client'[w].boot = nextBoot /\ nextBoot' = nextBoot + 1
          /\ nextBoot <= MaxBoots
    /\ \/ client'[w].sequence \in {0, client[w].sequence}
       \/ /\ client[w].sequence < MaxSequence
          /\ client'[w].sequence = client[w].sequence + 1
    /\ \A q \in inbox' :
         \/ \E p \in inbox : Successor(q, p)
         \/ /\ q.worker = w /\ q.boot = client[w].boot
            /\ q.type = "DecisionPublish" =>
                 client[w].sequence < MaxSequence /\ q.sequence = client[w].sequence + 1

LEMMA SendIdentity ==
    ASSUME NEW w \in Workers, NEW type, NEW l, NEW e, NEW n,
           Send(w, Frame(w, type, l, e, n)),
           type = "DecisionPublish" =>
             client[w].sequence < MaxSequence /\ n = client[w].sequence + 1,
           \A v \in Workers \ {w} : client'[v] = client[v],
           client'[w].boot = client[w].boot,
           \/ client'[w].sequence = client[w].sequence
           \/ /\ client[w].sequence < MaxSequence
              /\ client'[w].sequence = client[w].sequence + 1
    PROVE  WorkerIdentity(w)
<1>1. /\ inbox' = inbox \cup {Frame(w, type, l, e, n)} /\ nextBoot' = nextBoot
  BY DEF Send
<1>2. \A q \in inbox : Successor(q, q)
  BY DEF Successor
<1>3. /\ Frame(w, type, l, e, n).worker = w
      /\ Frame(w, type, l, e, n).boot = client[w].boot
      /\ Frame(w, type, l, e, n).type = type
      /\ Frame(w, type, l, e, n).sequence = n
  BY DEF Frame
<1> QED
  BY <1>1, <1>2, <1>3 DEF WorkerIdentity

LEMMA OrphanedIdentity ==
    ASSUME TypeOK, NEW w \in Workers, inbox' = Orphaned(w)
    PROVE  \A q \in inbox' : \E p \in inbox : Successor(q, p)
<1> SUFFICES ASSUME NEW q \in inbox'
             PROVE  \E p \in inbox : Successor(q, p)
  OBVIOUS
<1>1. CASE q \in inbox
  BY <1>1 DEF Successor
<1>2. CASE q \notin inbox
  <2>1. PICK p \in inbox : q = [p EXCEPT !.live = FALSE]
    BY <1>2 DEF Orphaned
  <2>2. p \in Request
    BY DEF TypeOK
  <2>3. Successor(q, p)
    BY <2>1, <2>2 DEF Successor, Request
  <2> QED
    BY <2>3
<1> QED
  BY <1>1, <1>2

LEMMA WorkerStepIdentity ==
    ASSUME TypeOK, NEW w \in Workers, WorkerStep(w)
    PROVE  WorkerIdentity(w)
<1>0. /\ client \in [Workers -> Client] /\ client[w] \in Client
      /\ reply \in [Workers -> Reply]
  BY DEF TypeOK
<1>1. CASE Connect(w)
  <2>1. Send(w, Frame(w, "Hello", 0, 0, 0))
    BY <1>1 DEF Connect
  <2>2. /\ \A v \in Workers \ {w} : client'[v] = client[v]
        /\ client'[w].boot = client[w].boot
        /\ client'[w].sequence = client[w].sequence
    BY <1>0, <1>1 DEF Connect, Client
  <2> QED
    BY <2>1, <2>2, SendIdentity
<1>2. CASE AcquireLease(w)
  <2>1. Send(w, Frame(w, "LeaseRequest", 0, 0, 0))
    BY <1>2 DEF AcquireLease
  <2>2. /\ \A v \in Workers \ {w} : client'[v] = client[v]
        /\ client'[w].boot = client[w].boot
        /\ client'[w].sequence = client[w].sequence
    BY <1>0, <1>2 DEF AcquireLease, Client
  <2> QED
    BY <2>1, <2>2, SendIdentity
<1>3. CASE AskRenewal(w)
  <2>1. Send(w, Frame(w, "LeaseRenew", client[w].lease, client[w].epoch, 0))
    BY <1>3 DEF AskRenewal
  <2>2. /\ \A v \in Workers \ {w} : client'[v] = client[v]
        /\ client'[w].boot = client[w].boot
        /\ client'[w].sequence = client[w].sequence
    BY <1>0, <1>3 DEF AskRenewal, Client
  <2> QED
    BY <2>1, <2>2, SendIdentity
<1>4. CASE Publish(w)
  <2>1. /\ Send(w, Frame(w, "DecisionPublish", client[w].lease, client[w].epoch,
                       client[w].sequence + 1))
        /\ client[w].sequence < MaxSequence
    BY <1>4 DEF Publish
  <2>2. /\ \A v \in Workers \ {w} : client'[v] = client[v]
        /\ client'[w].boot = client[w].boot
        /\ client'[w].sequence = client[w].sequence + 1
    BY <1>0, <1>4 DEF Publish, Client
  <2> QED
    BY <2>1, <2>2, SendIdentity
<1>5. CASE SendHeartbeat(w)
  <2>1. Send(w, Frame(w, "Heartbeat", 0, 0, 0))
    BY <1>5 DEF SendHeartbeat
  <2>2. /\ \A v \in Workers \ {w} : client'[v] = client[v]
        /\ client'[w].boot = client[w].boot
        /\ client'[w].sequence = client[w].sequence
    BY <1>0, <1>5 DEF SendHeartbeat, Client
  <2> QED
    BY <2>1, <2>2, SendIdentity
<1>6. CASE Receive(w)
  <2>1. /\ Received(client[w], reply[w]).boot = client[w].boot
        /\ Received(client[w], reply[w]).sequence = client[w].sequence
        /\ Received(client[w], reply[w]) \in Client
    <3>1. reply[w] \in Reply
      BY <1>0
    <3> QED
      BY <1>0, <3>1, ReceivedType, Zenon DEF Received, Client
  <2> QED
    BY <1>0, <1>6, <2>1 DEF Receive, Client, WorkerIdentity, Successor
<1>7. CASE Disconnect(w)
  BY <1>0, <1>7, OrphanedIdentity DEF Disconnect, Orphan, Unlinked, Client, WorkerIdentity
<1>8. CASE Restart(w)
  BY <1>0, <1>8, OrphanedIdentity DEF Restart, Orphan, FreshClient, Client, WorkerIdentity
<1> QED
  BY <1>1, <1>2, <1>3, <1>4, <1>5, <1>6, <1>7, <1>8 DEF WorkerStep

-----------------------------------------------------------------------------
(* A boot names one process; nobody's sequence passes the bound.           *)

(* Something knows process w by boot b. *)
Seen(w, b) ==
    \/ client[w].boot = b
    \/ \E r \in inbox : r.worker = w /\ r.boot = b
    \/ \E l \in DOMAIN leases : leases[l].worker = w /\ leases[l].boot = b

IdentityInv ==
    /\ nextBoot \in 1..(MaxBoots + 1)
    /\ \A w \in Workers : \A b \in Nat : Seen(w, b) => b \in 1..(nextBoot - 1)
    /\ \A v, w \in Workers : \A b \in Nat : Seen(v, b) /\ Seen(w, b) => v = w

SequenceInv ==
    /\ \A w \in Workers : client[w].sequence <= MaxSequence
    /\ \A r \in inbox : r.type = "DecisionPublish" => r.sequence \in 1..MaxSequence

LEMMA NobodyNewKeepsIdentity ==
    ASSUME IdentityInv, nextBoot' = nextBoot,
           \A w \in Workers : \A b \in Nat : Seen(w, b)' => Seen(w, b)
    PROVE  IdentityInv'
BY DEF IdentityInv

LEMMA HandlerKeepsIdentity ==
    ASSUME TypeOK, IdentityInv, SequenceInv, NEW r \in inbox, HandlerStep(r)
    PROVE  IdentityInv' /\ SequenceInv'
<1>1. \A w \in Workers : \A b \in Nat : Seen(w, b)' => Seen(w, b)
  <2> SUFFICES ASSUME NEW w \in Workers, NEW b \in Nat, Seen(w, b)'
               PROVE  Seen(w, b)
    OBVIOUS
  <2>1. CASE client'[w].boot = b
    BY <2>1 DEF HandlerStep, Seen
  <2>2. CASE \E q \in inbox' : q.worker = w /\ q.boot = b
    BY <2>2 DEF HandlerStep, Successor, Seen
  <2>3. CASE \E l \in DOMAIN leases' : leases'[l].worker = w /\ leases'[l].boot = b
    BY <2>3 DEF HandlerStep, SameLease, Seen
  <2> QED
    BY <2>1, <2>2, <2>3 DEF Seen
<1>2. SequenceInv'
  BY DEF SequenceInv, HandlerStep, Successor
<1> QED
  BY <1>1, <1>2, NobodyNewKeepsIdentity DEF HandlerStep

LEMMA WorkerKeepsIdentity ==
    ASSUME TypeOK, IdentityInv, SequenceInv, NEW w \in Workers,
           WorkerIdentity(w), UNCHANGED leases
    PROVE  IdentityInv' /\ SequenceInv'
<1>0. /\ client[w].boot \in Nat /\ MaxSequence \in Nat /\ MaxBoots \in Nat
      /\ nextBoot \in Nat
      /\ \A v \in Workers : client[v].sequence \in Nat
  BY BoundsAssumption DEF TypeOK, Client
<1>1. \A v \in Workers : \A b \in Nat :
        Seen(v, b)' => Seen(v, b) \/ (v = w /\ b = nextBoot /\ nextBoot' = nextBoot + 1)
  <2> SUFFICES ASSUME NEW v \in Workers, NEW b \in Nat, Seen(v, b)'
               PROVE  Seen(v, b) \/ (v = w /\ b = nextBoot /\ nextBoot' = nextBoot + 1)
    OBVIOUS
  <2>1. CASE client'[v].boot = b
    BY <2>1 DEF WorkerIdentity, Seen
  <2>2. CASE \E q \in inbox' : q.worker = v /\ q.boot = b
    BY <2>2 DEF WorkerIdentity, Successor, Seen
  <2>3. CASE \E l \in DOMAIN leases' : leases'[l].worker = v /\ leases'[l].boot = b
    BY <2>3 DEF Seen
  <2> QED
    BY <2>1, <2>2, <2>3 DEF Seen
<1>2. IdentityInv'
  <2>1. CASE nextBoot' = nextBoot
    <3>1. nextBoot' # nextBoot + 1
      BY <1>0, <2>1
    <3> QED
      BY <1>1, <2>1, <3>1, NobodyNewKeepsIdentity
  <2>2. CASE nextBoot' = nextBoot + 1 /\ nextBoot <= MaxBoots
    <3>1. nextBoot' \in 1..(MaxBoots + 1)
      BY <1>0, <2>2 DEF IdentityInv
    <3>2. \A v \in Workers : \A b \in Nat : Seen(v, b) => b \in 1..(nextBoot - 1)
      BY DEF IdentityInv
    <3>3. ASSUME NEW v \in Workers, NEW b \in Nat, Seen(v, b)'
          PROVE  b \in 1..(nextBoot' - 1)
      <4>1. b \in 1..(nextBoot - 1) \/ b = nextBoot
        BY <1>1, <3>2, <3>3
      <4>2. nextBoot' = nextBoot + 1 /\ nextBoot \in 1..(MaxBoots + 1)
        BY <2>2 DEF IdentityInv
      <4> QED
        BY <1>0, <4>1, <4>2
    <3>4. \A v \in Workers : ~Seen(v, nextBoot)
      BY <1>0, <3>2
    <3>5. ASSUME NEW u \in Workers, NEW v \in Workers, NEW b \in Nat,
                 Seen(u, b)', Seen(v, b)'
          PROVE  u = v
      BY <1>1, <3>4, <3>5 DEF IdentityInv
    <3> QED
      BY <3>1, <3>3, <3>5 DEF IdentityInv
  <2> QED
    BY <2>1, <2>2 DEF WorkerIdentity
<1>3. SequenceInv'
  <2>1. \A v \in Workers : client'[v].sequence <= MaxSequence
    <3>1. client'[w].sequence <= MaxSequence
      BY <1>0 DEF WorkerIdentity, SequenceInv
    <3> QED
      BY <3>1 DEF WorkerIdentity, SequenceInv
  <2>2. ASSUME NEW q \in inbox', q.type = "DecisionPublish"
        PROVE  q.sequence \in 1..MaxSequence
    <3>1. CASE \E p \in inbox : Successor(q, p)
      BY <2>2, <3>1 DEF Successor, SequenceInv
    <3>2. CASE client[w].sequence < MaxSequence /\ q.sequence = client[w].sequence + 1
      BY <1>0, <3>2
    <3> QED
      BY <2>2, <3>1, <3>2 DEF WorkerIdentity
  <2> QED
    BY <2>1, <2>2 DEF SequenceInv
<1> QED
  BY <1>2, <1>3

LEMMA InitIdentity == Init => IdentityInv /\ SequenceInv
<1> SUFFICES ASSUME Init
             PROVE  IdentityInv /\ SequenceInv
  OBVIOUS
<1>1. Cardinality(Workers) \in Nat /\ MaxBoots \in Nat /\ MaxSequence \in Nat
      /\ Cardinality(Workers) <= MaxBoots
  BY WorkersAssumption, BoundsAssumption, FS_CardinalityType
<1>2. PICK boots \in [Workers -> 1..Cardinality(Workers)] :
        /\ \A v, w \in Workers : boots[v] = boots[w] => v = w
        /\ client = [w \in Workers |-> FreshClient(boots[w])]
  BY DEF Init
<1>3. inbox = {} /\ DOMAIN leases = {} /\ nextBoot = Cardinality(Workers) + 1
  BY DEF Init, EmptyTable
<1>4. \A w \in Workers : client[w].boot = boots[w] /\ client[w].sequence = 0
  BY <1>2 DEF FreshClient
<1>5. \A w \in Workers : \A b \in Nat : Seen(w, b) => b = boots[w]
  BY <1>3, <1>4 DEF Seen
<1>6. nextBoot \in 1..(MaxBoots + 1)
  BY <1>1, <1>3
<1>7. \A w \in Workers : boots[w] \in 1..(nextBoot - 1)
  BY <1>1, <1>2, <1>3
<1>8. IdentityInv
  BY <1>2, <1>5, <1>6, <1>7 DEF IdentityInv
<1> QED
  BY <1>1, <1>3, <1>4, <1>8 DEF SequenceInv

(* No boot is ever shared by two processes, and no frame carries a         *)
(* sequence that its sender has not reached.                               *)
LEMMA Identities == Spec => [](IdentityInv /\ SequenceInv)
<1>1. Init => IdentityInv /\ SequenceInv
  BY InitIdentity
<1>2. TypeOK /\ IdentityInv /\ SequenceInv /\ [Next]_vars => (IdentityInv /\ SequenceInv)'
  <2> SUFFICES ASSUME TypeOK, IdentityInv, SequenceInv, [Next]_vars
               PROVE  (IdentityInv /\ SequenceInv)'
    OBVIOUS
  <2>1. CASE UNCHANGED <<client, inbox, leases, nextBoot>>
    BY <2>1 DEF IdentityInv, SequenceInv, Seen
  <2>2. CASE Crash
    <3>1. \A w \in Workers : /\ client'[w].boot = client[w].boot
                             /\ client'[w].sequence = client[w].sequence
      BY <2>2 DEF Crash, Unlinked, TypeOK, Client
    <3>2. inbox' = {} /\ DOMAIN leases' = {} /\ nextBoot' = nextBoot
      BY <2>2 DEF Crash, EmptyTable
    <3>3. \A w \in Workers : \A b \in Nat : Seen(w, b)' => Seen(w, b)
      BY <3>1, <3>2 DEF Seen
    <3> QED
      BY <3>1, <3>2, <3>3, NobodyNewKeepsIdentity DEF SequenceInv
  <2>3. CASE RevokeAll
    <3>1. /\ DOMAIN leases' = DOMAIN leases
          /\ \A l \in DOMAIN leases : SameLease(l)
          /\ UNCHANGED <<client, inbox, nextBoot>>
      BY <2>3, RevokingKeepsLeases DEF RevokeAll, SameLease
    <3>2. \A w \in Workers : \A b \in Nat : Seen(w, b)' => Seen(w, b)
      BY <3>1 DEF Seen, SameLease
    <3> QED
      BY <3>1, <3>2, NobodyNewKeepsIdentity DEF SequenceInv
  <2>4. CASE \E r \in inbox : Handle(r)
    BY <2>4, HandleIsHandlerStep, HandlerKeepsIdentity
  <2>5. CASE \E w \in Workers : WorkerStep(w)
    BY <2>5, WorkerStepIdentity, WorkerStepKeepsTable, WorkerKeepsIdentity
    DEF coordinatorVars
  <2> QED
    BY <2>1, <2>2, <2>3, <2>4, <2>5
    DEF Next, Start, Tick, AdvanceEpoch, vars, coordinatorVars
<1> QED
  BY <1>1, <1>2, TypeCorrect, PTL DEF Spec

-----------------------------------------------------------------------------
(* No decision of a superseded lease.                                      *)

(* What an incarnation of the coordinator has accepted was published under *)
(* a lease that is still in its table, and nobody is connected while no    *)
(* coordinator runs.                                                       *)
AcceptedInv ==
    /\ ~up => /\ inbox = {}
              /\ \A w \in Workers : client[w].link = "closed" /\ reply[w] = NoReply
    /\ \A a \in accepted :
         /\ a.by <= starts
         /\ up /\ a.by = starts =>
              a.lease \in DOMAIN leases /\ leases[a.lease].destination = a.destination

LEMMA HandlerKeepsAccepted ==
    ASSUME TypeOK, AcceptedInv, NEW r \in inbox, Handle(r)
    PROVE  AcceptedInv'
<1>1. HandlerStep(r)
  BY HandleIsHandlerStep
<1>2. up /\ up' /\ starts' = starts /\ starts \in Nat
  BY <1>1 DEF HandlerStep, AcceptedInv, TypeOK
<1>3. \A a \in accepted' \ accepted :
        /\ a.by = starts /\ a.lease \in DOMAIN leases
        /\ a.destination = leases[a.lease].destination
  <2>1. CASE AcceptDecision(r)
    BY <2>1 DEF AcceptDecision, Acceptable, Live
  <2>2. CASE accepted' = accepted
    BY <2>2
  <2> QED
    BY <2>1, <2>2
    DEF Handle, HandleHello, RegrantLease, GrantFreeLease, SupersedeLease,
        SupersedeUnstored, HandleLeaseDenial, RenewLease, DenyRenewal,
        RevokeStaleLease, RefuseDecision, HandleHeartbeat
<1>4. ASSUME NEW a \in accepted'
      PROVE  /\ a.by <= starts
             /\ a.by = starts =>
                  a.lease \in DOMAIN leases /\ leases[a.lease].destination = a.destination
  BY <1>2, <1>3, <1>4 DEF AcceptedInv
<1> QED
  BY <1>1, <1>2, <1>4 DEF AcceptedInv, HandlerStep, SameLease

LEMMA AcceptedUnderTheTable == Spec => []AcceptedInv
<1>1. Init => AcceptedInv
  BY DEF Init, FreshClient, AcceptedInv
<1>2. TypeOK /\ AcceptedInv /\ [Next]_vars => AcceptedInv'
  <2> SUFFICES ASSUME TypeOK, AcceptedInv, [Next]_vars
               PROVE  AcceptedInv'
    OBVIOUS
  <2>1. CASE Start
    <3>1. \A a \in accepted : a.by \in Nat /\ a.by <= starts
      BY DEF AcceptedInv, TypeOK, Acceptance
    <3>2. starts \in Nat
      BY DEF TypeOK
    <3>3. up' /\ starts' = starts + 1 /\ accepted' = accepted
      BY <2>1 DEF Start
    <3>4. \A a \in accepted : a.by <= starts' /\ a.by # starts'
      BY <3>1, <3>2, <3>3
    <3> QED
      BY <3>3, <3>4 DEF AcceptedInv
  <2>2. CASE Crash
    BY <2>2 DEF Crash, Unlinked, TypeOK, Client, AcceptedInv
  <2>3. CASE Tick \/ AdvanceEpoch \/ UNCHANGED vars
    BY <2>3 DEF Tick, AdvanceEpoch, vars, coordinatorVars, AcceptedInv
  <2>4. CASE RevokeAll
    BY <2>4, RevokingKeepsLeases DEF RevokeAll, AcceptedInv
  <2>5. CASE \E r \in inbox : Handle(r)
    BY <2>5, HandlerKeepsAccepted
  <2>6. CASE \E w \in Workers : WorkerStep(w)
    <3>1. UNCHANGED <<coordinatorVars, accepted>>
      BY <2>6 DEF WorkerStep, Connect, AcquireLease, AskRenewal, Publish, SendHeartbeat,
         Receive, Disconnect, Restart, Send, coordinatorVars
    <3>2. ASSUME ~up
          PROVE  /\ inbox' = {}
                 /\ \A w \in Workers : client'[w].link = "closed" /\ reply'[w] = NoReply
      <4>1. PICK w \in Workers : Restart(w)
        BY <2>6, <3>2 DEF AcceptedInv, WorkerStep, Connect, AcquireLease, AskRenewal,
           Publish, SendHeartbeat, Receive, Disconnect, MayCall
      <4> QED
        BY <3>2, <4>1 DEF AcceptedInv, Restart, Orphan, Orphaned, FreshClient, TypeOK
    <3> QED
      BY <3>1, <3>2 DEF AcceptedInv, coordinatorVars
  <2> QED
    BY <2>1, <2>2, <2>3, <2>4, <2>5, <2>6 DEF Next
<1> QED
  BY <1>1, <1>2, TypeCorrect, PTL DEF Spec

(* Only AcceptDecision accepts, and it accepts under a live lease, which   *)
(* is the newest of its destination; what was accepted before was          *)
(* published under a lease of the table, which is no newer.                *)
THEOREM SupersededLeaseDecidesNothing == Spec => NoDecisionFromSupersededLease
<1> DEFINE Ordered ==
      \A a \in accepted' \ accepted : \A b \in accepted :
        (a.by = b.by /\ a.destination = b.destination) => b.lease <= a.lease
<1>1. TypeOK /\ OnlyNewestLeaseLives /\ AcceptedInv /\ [Next]_vars => [Ordered]_vars
  <2> SUFFICES ASSUME TypeOK, OnlyNewestLeaseLives, AcceptedInv, Next,
                      NEW a \in accepted' \ accepted, NEW b \in accepted,
                      a.by = b.by, a.destination = b.destination
               PROVE  b.lease <= a.lease
    BY DEF vars
  <2>1. PICK r \in inbox : AcceptDecision(r)
    <3>1. accepted' # accepted
      OBVIOUS
    <3>2. ~\E w \in Workers : WorkerStep(w)
      BY <3>1 DEF WorkerStep, Connect, AcquireLease, AskRenewal, Publish, SendHeartbeat,
         Receive, Disconnect, Restart, Send
    <3>3. PICK r \in inbox : Handle(r)
      BY <3>1, <3>2 DEF Next, Start, Crash, Tick, AdvanceEpoch, RevokeAll
    <3> QED
      BY <3>1, <3>3
      DEF Handle, HandleHello, RegrantLease, GrantFreeLease, SupersedeLease,
          SupersedeUnstored, HandleLeaseDenial, RenewLease, DenyRenewal,
          RevokeStaleLease, RefuseDecision, HandleHeartbeat
  <2>2. /\ a.by = starts /\ a.lease \in DOMAIN leases /\ ~leases[a.lease].revoked
        /\ leases[a.lease].destination = a.destination
    BY <2>1 DEF AcceptDecision, Acceptable, Live
  <2>3. up
    BY <2>1 DEF AcceptedInv
  <2>4. b.lease \in DOMAIN leases /\ leases[b.lease].destination = a.destination
    BY <2>2, <2>3 DEF AcceptedInv
  <2>5. DOMAIN leases \subseteq Nat
    BY DEF TypeOK
  <2>6. ~(a.lease < b.lease)
    BY <2>2, <2>4 DEF OnlyNewestLeaseLives
  <2> QED
    BY <2>2, <2>4, <2>5, <2>6
<1>2. Spec => [][Ordered]_vars
  BY <1>1, TypeCorrect, SingleHolder, AcceptedUnderTheTable, PTL DEF Spec
<1> QED
  BY <1>2 DEF NoDecisionFromSupersededLease

-----------------------------------------------------------------------------
(* The refinement.                                                         *)

(* A destination's live lease is unique, so it is the one CHOOSE finds.    *)
TheLiveLease ==
    \A d \in Destinations :
      /\ LiveFor(d) = {} => Holder(d) = 0 /\ LastAccepted(d) = 0
      /\ \A l \in LiveFor(d) :
           /\ LiveFor(d) = {l}
           /\ Holder(d) = leases[l].boot /\ LastAccepted(d) = leases[l].sequence

LEMMA LiveLeaseIsUnique == TypeOK /\ OnlyNewestLeaseLives => TheLiveLease
<1> SUFFICES ASSUME TypeOK, OnlyNewestLeaseLives, NEW d \in Destinations
             PROVE  /\ LiveFor(d) = {} => Holder(d) = 0 /\ LastAccepted(d) = 0
                    /\ \A l \in LiveFor(d) :
                         /\ LiveFor(d) = {l}
                         /\ Holder(d) = leases[l].boot
                         /\ LastAccepted(d) = leases[l].sequence
  BY DEF TheLiveLease
<1>1. LiveFor(d) = {} => Holder(d) = 0 /\ LastAccepted(d) = 0
  BY DEF Holder, LastAccepted
<1>2. ASSUME NEW l \in LiveFor(d)
      PROVE  /\ LiveFor(d) = {l}
             /\ Holder(d) = leases[l].boot /\ LastAccepted(d) = leases[l].sequence
  <2>1. DOMAIN leases \subseteq Nat
    BY DEF TypeOK
  <2>2. ASSUME NEW k \in LiveFor(d)
        PROVE  k = l
    <3>1. ~(k < l) /\ ~(l < k)
      BY <1>2, <2>2 DEF OnlyNewestLeaseLives, LiveFor, Live
    <3>2. k \in Nat /\ l \in Nat
      BY <1>2, <2>1, <2>2 DEF LiveFor
    <3> QED
      BY <3>1, <3>2
  <2>3. LiveFor(d) = {l}
    BY <1>2, <2>2
  <2>4. (CHOOSE k \in LiveFor(d) : TRUE) = l
    BY <2>3
  <2> QED
    BY <2>3, <2>4 DEF Holder, LastAccepted, LiveLease
<1> QED
  BY <1>1, <1>2

(* The destination has the live lease it had, with the same sequence. *)
Kept(d) ==
    /\ LiveFor(d)' = LiveFor(d)
    /\ \A l \in LiveFor(d) : /\ leases'[l].boot = leases[l].boot
                             /\ leases'[l].sequence = leases[l].sequence

LEMMA KeptHolder ==
    ASSUME TheLiveLease, TheLiveLease', NEW d \in Destinations, Kept(d)
    PROVE  Holder(d)' = Holder(d) /\ LastAccepted(d)' = LastAccepted(d)
<1>1. CASE LiveFor(d) = {}
  BY <1>1 DEF TheLiveLease, Kept
<1>2. CASE LiveFor(d) # {}
  BY <1>2 DEF TheLiveLease, Kept
<1> QED
  BY <1>1, <1>2

(* A step that gives no destination to anybody is a revocation, of none    *)
(* perhaps.                                                                *)
LEMMA RevocationIsAbstract ==
    ASSUME TheLiveLease, TheLiveLease', accepted' = accepted,
           \A d \in Destinations : Kept(d) \/ LiveFor(d)' = {}
    PROVE  Authority!Next
<1> DEFINE D == {d \in Destinations : LiveFor(d)' = {}}
<1>1. \A d \in Destinations :
        /\ Holder(d)' = IF d \in D THEN 0 ELSE Holder(d)
        /\ LastAccepted(d)' = IF d \in D THEN 0 ELSE LastAccepted(d)
  BY KeptHolder DEF TheLiveLease
<1>2. D \in SUBSET Destinations
  OBVIOUS
<1>3. Authority!Revoke(D)
  BY <1>1 DEF Authority!Revoke, Authority!Nobody
<1> QED
  BY <1>2, <1>3 DEF Authority!Next

(* A step that only revokes leases of the table. *)
LEMMA OnlyRevokingIsAbstract ==
    ASSUME TheLiveLease, TheLiveLease', accepted' = accepted,
           DOMAIN leases' = DOMAIN leases,
           \A l \in DOMAIN leases :
             /\ leases'[l].destination = leases[l].destination
             /\ leases'[l].boot = leases[l].boot
             /\ leases'[l].sequence = leases[l].sequence
             /\ leases[l].revoked => leases'[l].revoked
    PROVE  Authority!Next
<1>1. ASSUME NEW d \in Destinations, LiveFor(d)' # {}
      PROVE  Kept(d)
  <2>1. PICK l : l \in LiveFor(d)'
    BY <1>1
  <2>2. l \in LiveFor(d)
    BY <2>1 DEF LiveFor, Live
  <2>3. LiveFor(d) = {l} /\ LiveFor(d)' = {l}
    BY <2>1, <2>2 DEF TheLiveLease
  <2>4. l \in DOMAIN leases
    BY <2>2 DEF LiveFor
  <2> QED
    BY <2>3, <2>4 DEF Kept
<1> QED
  BY <1>1, RevocationIsAbstract

(* A new lease for r's destination, which r's incarnation does not hold    *)
(* and whose leases, if it has any, are all revoked with it.               *)
LEMMA NewLeaseIsGrant ==
    ASSUME TypeOK, IdentityInv, TheLiveLease, TheLiveLease', accepted' = accepted,
           NEW r \in inbox, Own(r) = {}, NEW e,
           DOMAIN leases' = DOMAIN leases \cup {nextLease},
           leases'[nextLease] = NewLease(r, e),
           \A l \in DOMAIN leases :
             /\ leases'[l].destination = leases[l].destination
             /\ leases'[l].boot = leases[l].boot
             /\ leases'[l].sequence = leases[l].sequence
             /\ leases'[l].revoked =
                  (leases[l].revoked \/ leases[l].destination = DestinationOf[r.worker])
    PROVE  Authority!Next
<1> DEFINE d0 == DestinationOf[r.worker]
<1>0. /\ r \in Request /\ r.worker \in Workers /\ r.boot \in Nat
      /\ d0 \in Destinations /\ nextLease \notin DOMAIN leases
      /\ \A l \in DOMAIN leases : leases[l] \in Lease
  BY WorkersAssumption DEF TypeOK, Request
<1>1. Seen(r.worker, r.boot)
  BY DEF Seen
<1>2. r.boot \in 1..MaxBoots
  <2>1. r.boot \in 1..(nextBoot - 1) /\ nextBoot \in 1..(MaxBoots + 1) /\ MaxBoots \in Nat
    BY <1>0, <1>1, BoundsAssumption DEF IdentityInv
  <2> QED
    BY <2>1
<1>3. Holder(d0) # r.boot
  <2>1. CASE LiveFor(d0) = {}
    <3>1. Holder(d0) = 0
      BY <1>0, <2>1 DEF TheLiveLease
    <3> QED
      BY <1>2, <3>1
  <2>2. CASE LiveFor(d0) # {}
    <3>1. PICK l \in DOMAIN leases : l \in LiveFor(d0)
      BY <2>2 DEF LiveFor
    <3>2. Holder(d0) = leases[l].boot
      BY <1>0, <3>1 DEF TheLiveLease
    <3>3. leases[l].boot # r.boot \/ leases[l].worker # r.worker
      BY <3>1 DEF Own, HeldBy
    <3>4. leases[l].worker \in Workers /\ leases[l].boot \in Nat
      BY <1>0 DEF Lease
    <3>5. Seen(leases[l].worker, leases[l].boot)
      BY DEF Seen
    <3>6. leases[l].boot = r.boot => leases[l].worker = r.worker
      BY <1>0, <1>1, <3>4, <3>5 DEF IdentityInv
    <3> QED
      BY <3>2, <3>3, <3>6
  <2> QED
    BY <2>1, <2>2
<1>4. Holder(d0)' = r.boot /\ LastAccepted(d0)' = 0
  <2>1. nextLease \in LiveFor(d0)'
    BY DEF LiveFor, Live, NewLease
  <2>2. leases'[nextLease].boot = r.boot /\ leases'[nextLease].sequence = 0
    BY DEF NewLease
  <2> QED
    BY <1>0, <2>1, <2>2 DEF TheLiveLease
<1>5. ASSUME NEW d \in Destinations, d # d0
      PROVE  Holder(d)' = Holder(d) /\ LastAccepted(d)' = LastAccepted(d)
  <2>1. leases'[nextLease].destination = d0
    BY DEF NewLease
  <2>2. LiveFor(d)' = LiveFor(d)
    BY <1>5, <2>1 DEF LiveFor, Live
  <2>3. Kept(d)
    BY <2>2 DEF Kept, LiveFor
  <2> QED
    BY <1>5, <2>3, KeptHolder
<1> HIDE DEF d0
<1>6. Authority!Grant(d0, r.boot)
  BY <1>0, <1>3, <1>4, <1>5 DEF Authority!Grant
<1> QED
  BY <1>0, <1>2, <1>6 DEF Authority!Next

LEMMA AcceptIsAbstract ==
    ASSUME TypeOK, IdentityInv, SequenceInv, TheLiveLease, TheLiveLease',
           NEW r \in inbox, AcceptDecision(r)
    PROVE  Authority!Next
<1>d. PICK d0 \in Destinations : d0 = leases[r.lease].destination
  BY DEF AcceptDecision, Acceptable, Live, TypeOK, Lease
<1>0. /\ r \in Request /\ r.worker \in Workers /\ r.boot \in Nat
      /\ r.lease \in DOMAIN leases /\ leases[r.lease] \in Lease
      /\ r.lease \in LiveFor(d0) /\ leases[r.lease].boot = r.boot
      /\ r.sequence > leases[r.lease].sequence
      /\ leases \in [1..(nextLease - 1) -> Lease]
  BY <1>d DEF AcceptDecision, Acceptable, HeldBy, Live, LiveFor, TypeOK, Request, Lease
<1>1. r.boot \in 1..MaxBoots /\ r.sequence \in 1..MaxSequence
  <2>1. Seen(r.worker, r.boot)
    BY DEF Seen
  <2>2. r.boot \in 1..(nextBoot - 1) /\ nextBoot \in 1..(MaxBoots + 1) /\ MaxBoots \in Nat
    BY <1>0, <2>1, BoundsAssumption DEF IdentityInv
  <2>3. r.sequence \in 1..MaxSequence
    BY DEF AcceptDecision, SequenceInv
  <2> QED
    BY <2>2, <2>3
<1>2. /\ leases' = [leases EXCEPT ![r.lease].sequence = r.sequence]
      /\ accepted' = accepted \cup
           {[destination |-> d0, lease |-> r.lease, by |-> starts, boot |-> r.boot,
             epoch |-> epoch, granted |-> leases[r.lease].epoch,
             sequence |-> r.sequence]}
  BY <1>d DEF AcceptDecision
<1>3. /\ DOMAIN leases' = DOMAIN leases
      /\ leases'[r.lease].sequence = r.sequence
      /\ \A l \in DOMAIN leases :
           /\ leases'[l].destination = leases[l].destination
           /\ leases'[l].boot = leases[l].boot
           /\ leases'[l].revoked = leases[l].revoked
           /\ l # r.lease => leases'[l].sequence = leases[l].sequence
  BY <1>0, <1>2 DEF Lease
<1>4. \A d : LiveFor(d)' = LiveFor(d)
  BY <1>3 DEF LiveFor, Live
<1>5. /\ Holder(d0) = r.boot /\ LastAccepted(d0) = leases[r.lease].sequence
      /\ Holder(d0)' = r.boot /\ LastAccepted(d0)' = r.sequence
  BY <1>0, <1>3, <1>4 DEF TheLiveLease
<1>6. ASSUME NEW d \in Destinations, d # d0
      PROVE  Holder(d)' = Holder(d) /\ LastAccepted(d)' = LastAccepted(d)
  <2>1. Kept(d)
    BY <1>d, <1>3, <1>4, <1>6 DEF Kept, LiveFor
  <2> QED
    BY <1>6, <2>1, KeptHolder
<1>7. Authority!Accept(d0, r.boot, r.sequence)
  <2>1. Holder(d0) = r.boot /\ r.sequence > LastAccepted(d0)
    BY <1>0, <1>5
  <2>2. \A d \in Destinations :
          /\ Holder(d)' = Holder(d)
          /\ LastAccepted(d)' = IF d = d0 THEN r.sequence ELSE LastAccepted(d)
    BY <1>5, <1>6
  <2>3. /\ [d \in Destinations |-> LastAccepted(d)]' =
             [[d \in Destinations |-> LastAccepted(d)] EXCEPT ![d0] = r.sequence]
        /\ [d \in Destinations |-> Holder(d)]' = [d \in Destinations |-> Holder(d)]
    BY <2>2
  <2>4. {[destination |-> a.destination, incarnation |-> a.boot,
          sequence |-> a.sequence] : a \in accepted'} =
        {[destination |-> a.destination, incarnation |-> a.boot,
          sequence |-> a.sequence] : a \in accepted}
          \cup {[destination |-> d0, incarnation |-> r.boot, sequence |-> r.sequence]}
    <3> DEFINE F(a) == [destination |-> a.destination, incarnation |-> a.boot,
                        sequence |-> a.sequence]
    <3> DEFINE new == [destination |-> d0, lease |-> r.lease, by |-> starts,
                       boot |-> r.boot, epoch |-> epoch,
                       granted |-> leases[r.lease].epoch, sequence |-> r.sequence]
    <3>0. accepted' = accepted \cup {new}
      BY <1>2
    <3>1. F(new) = [destination |-> d0, incarnation |-> r.boot, sequence |-> r.sequence]
      OBVIOUS
    <3>2. {F(a) : a \in accepted'} = {F(a) : a \in accepted} \cup {F(new)}
      <4> HIDE DEF F, new
      <4> QED
        BY <3>0
    <3> QED
      BY <3>1, <3>2
  <2> QED
    BY <1>0, <2>1, <2>3, <2>4 DEF Authority!Accept
<1> QED
  BY <1>0, <1>1, <1>7 DEF Authority!Next

LEMMA HandleIsAbstract ==
    ASSUME TypeOK, OnlyNewestLeaseLives, IdentityInv, SequenceInv,
           TheLiveLease, TheLiveLease', NEW r \in inbox, Handle(r)
    PROVE  Authority!Next
<1>0. /\ DOMAIN leases = 1..(nextLease - 1) /\ nextLease \in Nat \ {0}
      /\ leases \in [1..(nextLease - 1) -> Lease] /\ nextLease \notin DOMAIN leases
      /\ \A l \in DOMAIN leases : leases[l] \in Lease /\ leases[l].revoked \in BOOLEAN
  BY DEF TypeOK, Lease
<1>1. CASE UNCHANGED <<leases, accepted>>
  BY <1>1, OnlyRevokingIsAbstract
<1>2. CASE RegrantLease(r)
  <2>1. PICK l \in DOMAIN leases, met \in SUBSET Rivals(r) :
          leases' = [Revoking(met) EXCEPT
                       ![l].epoch = epoch, ![l].expires = now + LeaseDuration]
    BY <1>2 DEF RegrantLease, Own, LiveFor
  <2> DEFINE R == Revoking(met)
  <2>2. /\ DOMAIN R = DOMAIN leases
        /\ \A k \in DOMAIN leases :
             /\ R[k] \in Lease
             /\ R[k].destination = leases[k].destination
             /\ R[k].boot = leases[k].boot /\ R[k].sequence = leases[k].sequence
             /\ leases[k].revoked => R[k].revoked
    BY RevokingKeepsLeases
  <2>3. leases' = [R EXCEPT ![l].epoch = epoch, ![l].expires = now + LeaseDuration]
    BY <2>1
  <2> HIDE DEF R
  <2>4. /\ DOMAIN leases' = DOMAIN leases
        /\ \A k \in DOMAIN leases :
             /\ leases'[k].destination = leases[k].destination
             /\ leases'[k].boot = leases[k].boot
             /\ leases'[k].sequence = leases[k].sequence
             /\ leases[k].revoked => leases'[k].revoked
    BY <2>2, <2>3 DEF Lease
  <2> QED
    BY <1>2, <2>4, OnlyRevokingIsAbstract DEF RegrantLease
<1>3. CASE GrantFreeLease(r)
  <2>1. /\ DOMAIN leases' = DOMAIN leases \cup {nextLease}
        /\ leases'[nextLease] = NewLease(r, epoch)
        /\ \A l \in DOMAIN leases : leases'[l] = leases[l]
        /\ Own(r) = {} /\ accepted' = accepted
    BY <1>0, <1>3 DEF GrantFreeLease, Adding, Own
  <2>2. \A l \in DOMAIN leases :
          leases[l].destination = DestinationOf[r.worker] => leases[l].revoked
    BY <1>3 DEF GrantFreeLease, LiveFor, Live
  <2> QED
    BY <1>0, <2>1, <2>2, NewLeaseIsGrant
<1>4. CASE SupersedeLease(r)
  <2>1. /\ DOMAIN leases' = DOMAIN leases \cup {nextLease}
        /\ leases'[nextLease] = NewLease(r, epoch + 1)
        /\ \A l \in DOMAIN leases : leases'[l] = Revoking(Rivals(r))[l]
        /\ Own(r) = {} /\ accepted' = accepted
    BY <1>0, <1>4, RevokingKeepsLeases DEF SupersedeLease, Adding
  <2>2. \A l \in DOMAIN leases :
          (leases[l].revoked \/ l \in Rivals(r)) =
            (leases[l].revoked \/ leases[l].destination = DestinationOf[r.worker])
    BY <1>0, <2>1 DEF Rivals, LiveFor, Live
  <2>3. \A l \in DOMAIN leases :
          /\ leases'[l].destination = leases[l].destination
          /\ leases'[l].boot = leases[l].boot
          /\ leases'[l].sequence = leases[l].sequence
          /\ leases'[l].revoked = (leases[l].revoked \/ l \in Rivals(r))
    BY <2>1, RevokingKeepsLeases
  <2> QED
    BY <2>1, <2>2, <2>3, NewLeaseIsGrant
<1>5. CASE SupersedeUnstored(r)
  BY <1>5, RevokingKeepsLeases, OnlyRevokingIsAbstract DEF SupersedeUnstored
<1>6. CASE RenewLease(r)
  <2>1. /\ DOMAIN leases' = DOMAIN leases
        /\ \A k \in DOMAIN leases :
             /\ leases'[k].destination = leases[k].destination
             /\ leases'[k].boot = leases[k].boot
             /\ leases'[k].sequence = leases[k].sequence
             /\ leases[k].revoked => leases'[k].revoked
    BY <1>0, <1>6 DEF RenewLease, Lease
  <2> QED
    BY <1>6, <2>1, OnlyRevokingIsAbstract DEF RenewLease
<1>7. CASE RevokeStaleLease(r)
  BY <1>7, RevokingKeepsLeases, OnlyRevokingIsAbstract DEF RevokeStaleLease
<1>8. CASE AcceptDecision(r)
  BY <1>8, AcceptIsAbstract
<1> QED
  BY <1>1, <1>2, <1>3, <1>4, <1>5, <1>6, <1>7, <1>8
  DEF Handle, HandleHello, HandleLeaseDenial, DenyRenewal, RefuseDecision,
      HandleHeartbeat

LEMMA InitIsAbstract == Init => Authority!Init
<1> SUFFICES ASSUME Init
             PROVE  Authority!Init
  OBVIOUS
<1>1. DOMAIN leases = {} /\ accepted = {}
  BY DEF Init, EmptyTable
<1>2. \A d : LiveFor(d) = {}
  BY <1>1 DEF LiveFor
<1>3. \A d : Holder(d) = 0 /\ LastAccepted(d) = 0
  BY <1>2 DEF Holder, LastAccepted
<1> QED
  BY <1>1, <1>3 DEF Authority!Init, Authority!Nobody

(* The lease table, the epochs and the frames implement the abstract lease *)
(* authority: grants and handovers are grants of it; revocations, stale    *)
(* publishes, unstored handovers and crashes are revocations; an accepted  *)
(* decision is one; everything else changes nothing it speaks of.          *)
THEOREM CoordinatorImplementsAuthority == Spec => ImplementsLeaseAuthority
<1>1. Init => Authority!Init
  BY InitIsAbstract
<1>2. TypeOK /\ OnlyNewestLeaseLives => TheLiveLease
  BY LiveLeaseIsUnique
<1>3. /\ TypeOK /\ OnlyNewestLeaseLives /\ IdentityInv /\ SequenceInv
      /\ TheLiveLease /\ TheLiveLease' /\ [Next]_vars
      => Authority!Next \/ UNCHANGED <<leases, accepted>>
  <2> SUFFICES ASSUME TypeOK, OnlyNewestLeaseLives, IdentityInv, SequenceInv,
                      TheLiveLease, TheLiveLease', [Next]_vars
               PROVE  Authority!Next \/ UNCHANGED <<leases, accepted>>
    OBVIOUS
  <2>1. CASE Crash
    <3>1. \A d : LiveFor(d)' = {}
      BY <2>1 DEF Crash, EmptyTable, LiveFor
    <3> QED
      BY <2>1, <3>1, RevocationIsAbstract DEF Crash
  <2>2. CASE RevokeAll
    BY <2>2, RevokingKeepsLeases, OnlyRevokingIsAbstract DEF RevokeAll
  <2>3. CASE \E r \in inbox : Handle(r)
    BY <2>3, HandleIsAbstract
  <2>4. CASE \E w \in Workers : WorkerStep(w)
    BY <2>4 DEF WorkerStep, Connect, AcquireLease, AskRenewal, Publish, SendHeartbeat,
       Receive, Disconnect, Restart, Send, coordinatorVars
  <2> QED
    BY <2>1, <2>2, <2>3, <2>4
    DEF Next, Start, Tick, AdvanceEpoch, vars, coordinatorVars
<1>4. UNCHANGED <<leases, accepted>> =>
        UNCHANGED <<[d \in Destinations |-> Holder(d)],
                    [d \in Destinations |-> LastAccepted(d)],
                    {[destination |-> a.destination, incarnation |-> a.boot,
                      sequence |-> a.sequence] : a \in accepted}>>
  BY DEF Holder, LastAccepted, LiveLease, LiveFor, Live
<1>5. /\ TypeOK /\ OnlyNewestLeaseLives /\ IdentityInv /\ SequenceInv
      /\ TheLiveLease /\ TheLiveLease' /\ [Next]_vars
      => [Authority!Next]_<<[d \in Destinations |-> Holder(d)],
                            [d \in Destinations |-> LastAccepted(d)],
                            {[destination |-> a.destination, incarnation |-> a.boot,
                              sequence |-> a.sequence] : a \in accepted}>>
  BY <1>3, <1>4
<1> QED
  BY <1>1, <1>2, <1>5, TypeCorrect, SingleHolder, Identities, PTL
  DEF Spec, ImplementsLeaseAuthority, Authority!Spec

-----------------------------------------------------------------------------
(* Who can take a lease from its holder, while the coordinator is the      *)
(* first one to run: its lease ids mean what its clients take them for.    *)

(* Lease l is none, or one of the table that boot b holds. *)
OwnLease(l, b) == l = 0 \/ (l \in DOMAIN leases /\ leases[l].boot = b)

(* A client, a frame and a reply name leases of their own boot, and the    *)
(* frames of an open connection are of the process that has it.            *)
OwnInv ==
    /\ starts = 0 => ~up /\ \A w \in Workers : client[w].lease = 0
    /\ up => /\ \A w \in Workers : OwnLease(client[w].lease, client[w].boot)
             /\ \A w \in Workers : OwnLease(reply[w].lease, client[w].boot)
             /\ \A r \in inbox : OwnLease(r.lease, r.boot)
    /\ \A r \in inbox : r.live => r.boot = client[r.worker].boot

(* What a handler does to frames and replies. *)
LEMMA FinishAnswersOwn ==
    ASSUME TypeOK, NEW r \in inbox, NEW m,
           Finish(r, m), OwnLease(m.lease, r.boot)'
    PROVE  /\ inbox' = inbox \ {r}
           /\ \A w \in Workers :
                reply'[w] = reply[w] \/ (r.live /\ w = r.worker /\ reply'[w] = m)
  BY DEF Finish, TypeOK

AnswersOwn(r) ==
    /\ \A q \in inbox' : q.live => \E p \in inbox : Successor(q, p) /\ p.live
    /\ \A q \in inbox' : \E p \in inbox : Successor(q, p) /\ q.lease = p.lease
    /\ \A w \in Workers :
         \/ reply'[w] = reply[w]
         \/ r.live /\ w = r.worker /\ OwnLease(reply[w].lease, r.boot)'

LEMMA FinishIsOwn ==
    ASSUME TypeOK, NEW r \in inbox, NEW m,
           Finish(r, m), OwnLease(m.lease, r.boot)'
    PROVE  AnswersOwn(r)
<1>1. \A q \in inbox' : q \in inbox /\ Successor(q, q)
  BY FinishAnswersOwn DEF Successor
<1>2. ASSUME NEW w \in Workers
      PROVE  \/ reply'[w] = reply[w]
             \/ r.live /\ w = r.worker /\ OwnLease(reply[w].lease, r.boot)'
  <2>1. CASE reply'[w] = reply[w]
    BY <2>1
  <2>2. CASE r.live /\ w = r.worker /\ reply'[w] = m
    BY <2>2
  <2> QED
    BY <2>1, <2>2, FinishAnswersOwn
<1> QED
  BY <1>1, <1>2 DEF AnswersOwn

LEMMA HandleAnswersOwn ==
    ASSUME TypeOK, NEW r \in inbox, Handle(r)
    PROVE  AnswersOwn(r)
<1>0. /\ DOMAIN leases = 1..(nextLease - 1) /\ nextLease \in Nat \ {0}
      /\ leases \in [1..(nextLease - 1) -> Lease]
      /\ \A l, b : OwnLease(0, b)'
  BY DEF TypeOK, OwnLease
<1>1. HandlerStep(r)
  BY HandleIsHandlerStep
<1>2. ASSUME NEW e, NEW type, NEW reason, Finish(r, Answer(type, e, 0, reason))
      PROVE  AnswersOwn(r)
  <2>1. Answer(type, e, 0, reason).lease = 0
    BY DEF Answer
  <2> QED
    BY <1>0, <1>2, <2>1, FinishIsOwn
<1>3. ASSUME NEW l, NEW e, NEW type, Finish(r, Answer(type, e, l, "None")),
             l \in DOMAIN leases', leases'[l].boot = r.boot
      PROVE  AnswersOwn(r)
  <2>1. Answer(type, e, l, "None").lease = l
    BY DEF Answer
  <2>2. OwnLease(l, r.boot)'
    BY <1>3 DEF OwnLease
  <2> QED
    BY <1>3, <2>1, <2>2, FinishIsOwn
<1>4. CASE RegrantLease(r)
  <2>1. PICK l \in Own(r) : Finish(r, Answer("LeaseGrant", epoch, l, "None"))
    BY <1>4 DEF RegrantLease
  <2>2. l \in DOMAIN leases /\ leases[l].boot = r.boot
    BY DEF Own, LiveFor, HeldBy
  <2> QED
    BY <1>1, <1>3, <2>1, <2>2 DEF HandlerStep, SameLease
<1>5. CASE GrantFreeLease(r)
  <2>1. nextLease \in DOMAIN leases' /\ leases'[nextLease].boot = r.boot
    BY <1>5 DEF GrantFreeLease, Adding, NewLease
  <2> QED
    BY <1>3, <1>5, <2>1 DEF GrantFreeLease
<1>6. CASE SupersedeLease(r)
  <2>1. nextLease \in DOMAIN leases' /\ leases'[nextLease].boot = r.boot
    BY <1>6 DEF SupersedeLease, Adding, NewLease
  <2> QED
    BY <1>3, <1>6, <2>1 DEF SupersedeLease
<1>7. CASE SupersedeUnstored(r)
  <2> DEFINE denial == [r EXCEPT !.type = "LeaseDenial"]
  <2>1. r \in Request
    BY DEF TypeOK
  <2>2. Successor(denial, r) /\ denial.lease = r.lease /\ denial.live = r.live
    BY <2>1 DEF Successor, Request
  <2>3. inbox' = (inbox \ {r}) \cup {denial} /\ reply' = reply
    BY <1>7 DEF SupersedeUnstored
  <2> HIDE DEF denial
  <2>4. \A q \in inbox : Successor(q, q)
    BY DEF Successor
  <2> QED
    BY <2>2, <2>3, <2>4 DEF AnswersOwn
<1>8. CASE RenewLease(r)
  <2>1. r.lease \in DOMAIN leases /\ leases[r.lease].boot = r.boot
    BY <1>8 DEF RenewLease, Renewable, Live
  <2> QED
    BY <1>1, <1>3, <1>8, <2>1 DEF RenewLease, HandlerStep, SameLease
<1> QED
  BY <1>2, <1>4, <1>5, <1>6, <1>7, <1>8
  DEF Handle, HandleHello, HandleLeaseDenial, DenyRenewal, RevokeStaleLease,
      RefuseDecision, AcceptDecision, HandleHeartbeat

LEMMA HandlerKeepsOwn ==
    ASSUME TypeOK, AcceptedInv, OwnInv, NEW r \in inbox, Handle(r)
    PROVE  OwnInv'
<1>1. HandlerStep(r) /\ AnswersOwn(r)
  BY HandleIsHandlerStep, HandleAnswersOwn
<1>2. /\ up /\ up' /\ starts # 0 /\ UNCHANGED <<starts, client>>
  BY <1>1 DEF AcceptedInv, OwnInv, HandlerStep
<1>3. \A l, b : OwnLease(l, b) => OwnLease(l, b)'
  BY <1>1 DEF HandlerStep, SameLease, OwnLease
<1>4. \A w \in Workers : OwnLease(client[w].lease, client[w].boot)'
  BY <1>2, <1>3 DEF OwnInv
<1>5. ASSUME NEW w \in Workers
      PROVE  OwnLease(reply[w].lease, client[w].boot)'
  <2>1. CASE reply'[w] = reply[w]
    BY <1>2, <1>3, <2>1 DEF OwnInv
  <2>2. CASE r.live /\ w = r.worker /\ OwnLease(reply[w].lease, r.boot)'
    BY <1>2, <2>2 DEF OwnInv
  <2> QED
    BY <1>1, <2>1, <2>2 DEF AnswersOwn
<1>6. ASSUME NEW q \in inbox'
      PROVE  OwnLease(q.lease, q.boot)' /\ (q.live => q.boot = client'[q.worker].boot)
  <2>1. OwnLease(q.lease, q.boot)
    BY <1>1, <1>2 DEF AnswersOwn, Successor, OwnInv
  <2>2. q.live => q.boot = client[q.worker].boot
    BY <1>1 DEF AnswersOwn, Successor, OwnInv
  <2> QED
    BY <1>2, <1>3, <2>1, <2>2
<1> QED
  BY <1>2, <1>4, <1>5, <1>6 DEF OwnInv


(* A call sends a frame that names the caller's own lease, or none. *)
LEMMA SendKeepsOwn ==
    ASSUME TypeOK, OwnInv, up, NEW w \in Workers, NEW type, NEW l, NEW e, NEW n,
           Send(w, Frame(w, type, l, e, n)), l \in {0, client[w].lease},
           \A v \in Workers : /\ client'[v].boot = client[v].boot
                              /\ client'[v].lease = client[v].lease
    PROVE  OwnInv'
<1>1. /\ inbox' = inbox \cup {Frame(w, type, l, e, n)}
      /\ UNCHANGED <<up, starts, leases, reply>>
  BY DEF Send, coordinatorVars
<1>2. /\ Frame(w, type, l, e, n).worker = w
      /\ Frame(w, type, l, e, n).boot = client[w].boot
      /\ Frame(w, type, l, e, n).lease = l
  BY DEF Frame
<1>3. \A k, b : OwnLease(k, b)' = OwnLease(k, b)
  BY <1>1 DEF OwnLease
<1>4. OwnLease(l, client[w].boot)
  BY DEF OwnInv, OwnLease
<1>5. \A r \in inbox : r.worker \in Workers
  BY DEF TypeOK, Request
<1>6. ASSUME NEW q \in inbox'
      PROVE  OwnLease(q.lease, q.boot) /\ (q.live => q.boot = client'[q.worker].boot)
  <2>1. CASE q \in inbox
    BY <1>5, <2>1 DEF OwnInv
  <2>2. CASE q = Frame(w, type, l, e, n)
    BY <1>2, <1>4, <2>2
  <2> QED
    BY <1>1, <1>6, <2>1, <2>2
<1> QED
  BY <1>1, <1>3, <1>6 DEF OwnInv

(* What a dead connection leaves behind is not live, and names what it     *)
(* named before.                                                           *)
LEMMA OrphanedAreOwn ==
    ASSUME TypeOK, OwnInv, NEW w \in Workers, inbox' = Orphaned(w)
    PROVE  /\ up => \A q \in inbox' : OwnLease(q.lease, q.boot)
           /\ \A q \in inbox' : q.live =>
                q.worker \in Workers \ {w} /\ q.boot = client[q.worker].boot
<1>1. inbox \subseteq Request
  BY DEF TypeOK
<1>2. ASSUME NEW q \in inbox'
      PROVE  \/ q \in inbox /\ q.worker # w
             \/ \E p \in inbox : q.lease = p.lease /\ q.boot = p.boot /\ q.live = FALSE
  <2>1. CASE q \in inbox /\ q.worker # w
    BY <2>1
  <2>2. CASE \E p \in inbox : q = [p EXCEPT !.live = FALSE]
    BY <1>1, <2>2 DEF Request
  <2> QED
    BY <2>1, <2>2 DEF Orphaned
<1> QED
  BY <1>1, <1>2 DEF OwnInv, Request

LEMMA WorkerStepKeepsOwn ==
    ASSUME TypeOK, AcceptedInv, OwnInv, NEW w \in Workers, WorkerStep(w)
    PROVE  OwnInv'
<1>0. /\ client \in [Workers -> Client] /\ client[w] \in Client
      /\ reply \in [Workers -> Reply]
      /\ \A r \in inbox : r.worker \in Workers
  BY DEF TypeOK, Request
<1>1. UNCHANGED <<up, starts, leases>>
  BY WorkerStepKeepsTable DEF coordinatorVars
<1>2. \A l, b : OwnLease(l, b)' = OwnLease(l, b)
  BY <1>1 DEF OwnLease
<1>3. \A l, b : OwnLease(0, b) /\ NoReply.lease = 0
  BY DEF OwnLease, NoReply
<1>4. CASE Connect(w)
  <2>1. Send(w, Frame(w, "Hello", 0, 0, 0)) /\ up
    BY <1>4 DEF Connect
  <2>2. \A v \in Workers : /\ client'[v].boot = client[v].boot
                           /\ client'[v].lease = client[v].lease
    BY <1>0, <1>4 DEF Connect, Client
  <2> QED
    BY <2>1, <2>2, SendKeepsOwn
<1>5. CASE AcquireLease(w)
  <2>1. Send(w, Frame(w, "LeaseRequest", 0, 0, 0))
    BY <1>5 DEF AcquireLease
  <2>2. up
    BY <1>5 DEF AcquireLease, MayCall, AcceptedInv
  <2>3. \A v \in Workers : /\ client'[v].boot = client[v].boot
                           /\ client'[v].lease = client[v].lease
    BY <1>0, <1>5 DEF AcquireLease, Client
  <2> QED
    BY <2>1, <2>2, <2>3, SendKeepsOwn
<1>6. CASE AskRenewal(w)
  <2>1. Send(w, Frame(w, "LeaseRenew", client[w].lease, client[w].epoch, 0))
    BY <1>6 DEF AskRenewal
  <2>2. up
    BY <1>6 DEF AskRenewal, MayCall, AcceptedInv
  <2>3. \A v \in Workers : /\ client'[v].boot = client[v].boot
                           /\ client'[v].lease = client[v].lease
    BY <1>0, <1>6 DEF AskRenewal, Client
  <2> QED
    BY <2>1, <2>2, <2>3, SendKeepsOwn
<1>7. CASE Publish(w)
  <2>1. Send(w, Frame(w, "DecisionPublish", client[w].lease, client[w].epoch,
                       client[w].sequence + 1))
    BY <1>7 DEF Publish
  <2>2. up
    BY <1>7 DEF Publish, MayCall, AcceptedInv
  <2>3. \A v \in Workers : /\ client'[v].boot = client[v].boot
                           /\ client'[v].lease = client[v].lease
    BY <1>0, <1>7 DEF Publish, Client
  <2> QED
    BY <2>1, <2>2, <2>3, SendKeepsOwn
<1>8. CASE SendHeartbeat(w)
  <2>1. Send(w, Frame(w, "Heartbeat", 0, 0, 0))
    BY <1>8 DEF SendHeartbeat
  <2>2. up
    BY <1>8 DEF SendHeartbeat, MayCall, AcceptedInv
  <2>3. \A v \in Workers : /\ client'[v].boot = client[v].boot
                           /\ client'[v].lease = client[v].lease
    BY <1>0, <1>8 DEF SendHeartbeat, Client
  <2> QED
    BY <2>1, <2>2, <2>3, SendKeepsOwn
<1>9. CASE Receive(w)
  <2> DEFINE c == Received(client[w], reply[w])
  <2>1. c.boot = client[w].boot /\ c.lease \in {client[w].lease, reply[w].lease} /\ c \in Client
    <3>1. reply[w] \in Reply
      BY <1>0
    <3> QED
      BY <1>0, <3>1, ReceivedType, Zenon DEF Received, Client
  <2> HIDE DEF c
  <2>2. /\ client' = [client EXCEPT ![w] = [c EXCEPT !.waiting = FALSE]]
        /\ reply' = [reply EXCEPT ![w] = NoReply]
        /\ inbox' = inbox
    BY <1>9 DEF Receive, c
  <2>3. client'[w].boot = client[w].boot /\ client'[w].lease = c.lease
    BY <1>0, <2>1, <2>2 DEF Client
  <2>4. \A v \in Workers \ {w} : client'[v] = client[v] /\ reply'[v] = reply[v]
    BY <1>0, <2>2
  <2>5. reply'[w] = NoReply
    BY <1>0, <2>2
  <2>6. up
    BY <1>9 DEF Receive, AcceptedInv
  <2>7. \A v \in Workers : client'[v].boot = client[v].boot
    BY <2>3, <2>4
  <2> QED
    BY <1>0, <1>1, <1>2, <1>3, <2>1, <2>2, <2>3, <2>4, <2>5, <2>6, <2>7 DEF OwnInv
<1>10. ASSUME Disconnect(w) \/ Restart(w)
       PROVE  OwnInv'
  <2>1. inbox' = Orphaned(w) /\ reply' = [reply EXCEPT ![w] = NoReply]
    BY <1>10 DEF Disconnect, Restart, Orphan
  <2>2. /\ \A v \in Workers \ {w} : client'[v] = client[v] /\ reply'[v] = reply[v]
        /\ reply'[w] = NoReply
    BY <1>0, <1>10, <2>1 DEF Disconnect, Restart
  <2>3. \/ client'[w].lease = 0
        \/ client'[w].lease = client[w].lease /\ client'[w].boot = client[w].boot
    <3>1. CASE Disconnect(w)
      BY <1>0, <3>1 DEF Disconnect, Unlinked, Client
    <3>2. CASE Restart(w)
      BY <1>0, <3>2 DEF Restart, FreshClient
    <3> QED
      BY <1>10, <3>1, <3>2
  <2>4. /\ up => \A q \in inbox' : OwnLease(q.lease, q.boot)
        /\ \A q \in inbox' : q.live =>
             q.worker \in Workers \ {w} /\ q.boot = client[q.worker].boot
    BY <2>1, OrphanedAreOwn
  <2>5. \A q \in inbox' : q.live => q.boot = client'[q.worker].boot
    BY <2>2, <2>4
  <2>6. starts = 0 => \A v \in Workers : client'[v].lease = 0
    BY <2>2, <2>3 DEF OwnInv
  <2>7. ASSUME up, NEW v \in Workers
        PROVE  /\ OwnLease(client'[v].lease, client'[v].boot)
               /\ OwnLease(reply'[v].lease, client'[v].boot)
    BY <1>3, <2>2, <2>3, <2>7 DEF OwnInv
  <2> QED
    BY <1>1, <1>2, <2>4, <2>5, <2>6, <2>7 DEF OwnInv
<1> QED
  BY <1>4, <1>5, <1>6, <1>7, <1>8, <1>9, <1>10 DEF WorkerStep

(* Leases stay known by their own while there is one coordinator: with a   *)
(* second one, a client may name a lease that is now somebody else's.      *)
LEMMA OwnLeasesOfOneStart == ASSUME MaxStarts <= 1 PROVE Spec => []OwnInv
<1>1. Init => OwnInv
  BY DEF Init, FreshClient, OwnInv
<1>2. TypeOK /\ AcceptedInv /\ OwnInv /\ [Next]_vars => OwnInv'
  <2> SUFFICES ASSUME TypeOK, AcceptedInv, OwnInv, [Next]_vars
               PROVE  OwnInv'
    OBVIOUS
  <2>1. CASE Start
    <3>1. starts = 0 /\ starts' = 1 /\ UNCHANGED <<client, inbox, reply>>
      BY <2>1, BoundsAssumption DEF Start, TypeOK
    <3>2. /\ inbox = {}
          /\ \A w \in Workers : client[w].lease = 0 /\ reply[w].lease = 0
      BY <2>1, <3>1 DEF Start, AcceptedInv, OwnInv, NoReply
    <3> QED
      BY <3>1, <3>2 DEF OwnInv, OwnLease
  <2>2. CASE Crash
    <3>1. \A w \in Workers : client'[w].lease = client[w].lease
      BY <2>2 DEF Crash, Unlinked, TypeOK, Client
    <3> QED
      BY <2>2, <3>1 DEF Crash, OwnInv
  <2>3. CASE Tick \/ AdvanceEpoch \/ UNCHANGED vars
    BY <2>3 DEF Tick, AdvanceEpoch, vars, coordinatorVars, OwnInv, OwnLease
  <2>4. CASE RevokeAll
    <3>1. /\ DOMAIN leases' = DOMAIN leases
          /\ \A l \in DOMAIN leases : leases'[l].boot = leases[l].boot
          /\ UNCHANGED <<up, starts, client, inbox, reply>>
      BY <2>4, RevokingKeepsLeases DEF RevokeAll
    <3> QED
      BY <3>1 DEF OwnInv, OwnLease
  <2>5. CASE \E r \in inbox : Handle(r)
    BY <2>5, HandlerKeepsOwn
  <2>6. CASE \E w \in Workers : WorkerStep(w)
    BY <2>6, WorkerStepKeepsOwn
  <2> QED
    BY <2>1, <2>2, <2>3, <2>4, <2>5, <2>6 DEF Next
<1> QED
  BY <1>1, <1>2, TypeCorrect, AcceptedUnderTheTable, PTL DEF Spec

(* Why a handler may revoke a lease: a rival asks for its destination, or  *)
(* a frame of its own boot names it.                                       *)
LEMMA HandlerRevokesForCause ==
    ASSUME TypeOK, AcceptedInv, OwnInv, NEW r \in inbox, Handle(r),
           NEW l \in DOMAIN leases, ~leases[l].revoked, leases'[l].revoked
    PROVE  /\ r \notin inbox'
           /\ \/ r.boot = leases[l].boot
              \/ /\ r.type = "LeaseRequest"
                 /\ DestinationOf[r.worker] = leases[l].destination
<1>0. /\ DOMAIN leases = 1..(nextLease - 1) /\ nextLease \in Nat \ {0}
      /\ leases \in [1..(nextLease - 1) -> Lease]
      /\ nextLease \notin DOMAIN leases /\ 0 \notin DOMAIN leases
      /\ r \in Request
  BY DEF TypeOK
<1>1. r \notin inbox'
  <2>1. CASE SupersedeUnstored(r)
    BY <1>0, <2>1 DEF SupersedeUnstored, Request
  <2>2. CASE \E m : Finish(r, m)
    BY <2>2 DEF Finish
  <2> QED
    BY <2>1, <2>2
    DEF Handle, HandleHello, RegrantLease, GrantFreeLease, SupersedeLease,
        HandleLeaseDenial, RenewLease, DenyRenewal, RevokeStaleLease,
        RefuseDecision, AcceptDecision, HandleHeartbeat
<1>2. ASSUME NEW S, leases'[l].revoked = Revoking(S)[l].revoked
      PROVE  l \in S
  BY <1>2, RevokingKeepsLeases
<1>3. l \in Rivals(r) => DestinationOf[r.worker] = leases[l].destination
  BY DEF Rivals, LiveFor
<1>4. CASE RegrantLease(r)
  <2>1. PICK k \in Own(r), met \in SUBSET Rivals(r) :
          leases' = [Revoking(met) EXCEPT
                       ![k].epoch = epoch, ![k].expires = now + LeaseDuration]
    BY <1>4 DEF RegrantLease
  <2> DEFINE R == Revoking(met)
  <2>2. DOMAIN R = DOMAIN leases /\ \A j \in DOMAIN leases : R[j] \in Lease
    BY RevokingKeepsLeases
  <2>3. leases' = [R EXCEPT ![k].epoch = epoch, ![k].expires = now + LeaseDuration]
    BY <2>1
  <2> HIDE DEF R
  <2>4. leases'[l].revoked = R[l].revoked
    BY <2>2, <2>3 DEF Lease
  <2>5. l \in met
    BY <1>2, <2>4 DEF R
  <2> QED
    BY <1>1, <1>3, <1>4, <2>5 DEF RegrantLease
<1>5. CASE SupersedeLease(r)
  <2>1. leases'[l] = Revoking(Rivals(r))[l]
    BY <1>0, <1>5, RevokingKeepsLeases DEF SupersedeLease, Adding
  <2> QED
    BY <1>1, <1>2, <1>3, <1>5, <2>1 DEF SupersedeLease
<1>6. CASE SupersedeUnstored(r)
  BY <1>1, <1>2, <1>3, <1>6 DEF SupersedeUnstored
<1>7. CASE RevokeStaleLease(r)
  <2>1. l = r.lease
    BY <1>2, <1>7 DEF RevokeStaleLease
  <2>2. up
    BY DEF AcceptedInv
  <2> QED
    BY <1>0, <1>1, <2>1, <2>2 DEF OwnInv, OwnLease
<1>8. CASE GrantFreeLease(r)
  BY <1>0, <1>8 DEF GrantFreeLease, Adding
<1>9. CASE RenewLease(r) \/ AcceptDecision(r)
  BY <1>0, <1>9 DEF RenewLease, AcceptDecision, Lease
<1> QED
  BY <1>4, <1>5, <1>6, <1>7, <1>8, <1>9
  DEF Handle, HandleHello, HandleLeaseDenial, DenyRenewal, RefuseDecision,
      HandleHeartbeat

(* While the first coordinator runs, nobody loses a lease but to a rival's *)
(* request, to a frame of its own, or to RevokeAll, with every fault and   *)
(* every late frame (grant_lease and the handlers in coordinator.cpp).     *)
THEOREM LeasesAreLostForCause ==
    ASSUME MaxStarts <= 1
    PROVE  Spec => LostOnlyToRivalOrSelf
<1> DEFINE ForCause ==
      \A l \in DOMAIN leases :
        (l \in DOMAIN leases' /\ ~leases[l].revoked /\ leases'[l].revoked) =>
          \/ \E r \in inbox \ inbox' :
               \/ r.boot = leases[l].boot
               \/ /\ r.type = "LeaseRequest"
                  /\ DestinationOf[r.worker] = leases[l].destination
          \/ inbox' = inbox /\ \A k \in DOMAIN leases' : leases'[k].revoked
<1>1. TypeOK /\ AcceptedInv /\ OwnInv /\ [Next]_vars => [ForCause]_vars
  <2> SUFFICES ASSUME TypeOK, AcceptedInv, OwnInv, Next,
                      NEW l \in DOMAIN leases, l \in DOMAIN leases',
                      ~leases[l].revoked, leases'[l].revoked
               PROVE  \/ \E r \in inbox \ inbox' :
                           \/ r.boot = leases[l].boot
                           \/ /\ r.type = "LeaseRequest"
                              /\ DestinationOf[r.worker] = leases[l].destination
                      \/ inbox' = inbox /\ \A k \in DOMAIN leases' : leases'[k].revoked
    OBVIOUS
  <2>1. CASE RevokeAll
    <3>1. \A k \in DOMAIN leases' : leases'[k].revoked
      BY <2>1, RevokingKeepsLeases DEF RevokeAll
    <3> QED
      BY <2>1, <3>1 DEF RevokeAll
  <2>2. CASE \E r \in inbox : Handle(r)
    BY <2>2, HandlerRevokesForCause
  <2>3. CASE \E w \in Workers : WorkerStep(w)
    BY <2>3, WorkerStepKeepsTable DEF coordinatorVars
  <2>4. CASE Crash
    BY <2>4 DEF Crash, EmptyTable
  <2> QED
    BY <2>1, <2>2, <2>3, <2>4 DEF Next, Start, Tick, AdvanceEpoch, coordinatorVars
<1> QED
  BY <1>1, TypeCorrect, AcceptedUnderTheTable, OwnLeasesOfOneStart, PTL
  DEF Spec, LostOnlyToRivalOrSelf
================================================================================
