------------------------------ MODULE Coordinator ------------------------------
(***************************************************************************)
(* The coordinator's lease authority and the worker clients that talk to   *)
(* it (src/src/coordinator.cpp).                                           *)
(*                                                                         *)
(* The coordinator owns an epoch, a durable epoch ledger and an in-memory  *)
(* lease table; one thread per connection handles that connection's frames *)
(* and takes mutex_ for each of them, so one handler is one action.  A     *)
(* worker process owns one GovernorWorker: it sends a frame, then blocks   *)
(* on the reply.  Sending, handling and receiving are three actions, and a *)
(* frame whose connection has died may still be handled: its thread finds  *)
(* it in the socket's buffer.  Either side may crash between any two       *)
(* steps.                                                                  *)
(***************************************************************************)
EXTENDS Naturals, FiniteSets

CONSTANTS
    Workers,        \* worker processes; a process's name is its WorkerId
    Destinations,   \* what a lease is granted for
    DestinationOf,  \* the destination each worker is configured with
    InitialEpoch,   \* CoordinatorConfig::initial_epoch
    LeaseDuration,  \* CoordinatorConfig::lease_duration, in clock ticks
    Calls,          \* the frames the workers send besides Hello
    Faults,         \* which of the epoch advances that skip the ledger happen
    MaxEpoch,       \* bound on the epoch
    MaxAdvanced,    \* bound on the epochs AdvanceEpoch leaves
    MaxLeases,      \* bound on the leases of one coordinator incarnation
    MaxBoots,       \* bound on the boot incarnations of all workers together
    MaxStarts,      \* bound on the coordinator's starts
    MaxSequence,    \* bound on the decisions one worker incarnation publishes
    MaxPublished,   \* bound on the decisions of the running workers together
    MaxTime,        \* bound on the clock
    MaxOrphans      \* bound on the unhandled requests of dead connections

ASSUME WorkersAssumption ==
    IsFiniteSet(Workers) /\ DestinationOf \in [Workers -> Destinations]
ASSUME EpochAssumption == InitialEpoch \in Nat \ {0} /\ LeaseDuration \in Nat
ASSUME FaultsAssumption == Faults \subseteq {"RevokeAll", "StoreFailure"}
ASSUME CallsAssumption ==
    Calls \subseteq {"LeaseRequest", "LeaseRenew", "DecisionPublish",
                     "UnleasedPublish", "Heartbeat"}
ASSUME BoundsAssumption ==
    {MaxEpoch, MaxAdvanced, MaxLeases, MaxBoots, MaxStarts, MaxSequence,
     MaxPublished, MaxTime, MaxOrphans} \subseteq Nat /\ Cardinality(Workers) <= MaxBoots

VARIABLES
    up,        \* the coordinator process is running
    starts,    \* coordinator incarnations started so far
    epoch,     \* Coordinator::epoch_
    ledger,    \* the epoch in coordinator.epoch; 0 when the file is absent
    leases,    \* Coordinator::leases_, by lease id
    nextLease, \* Coordinator::next_lease_
    now,       \* the monotonic clock
    inbox,     \* frames sent to the coordinator and not handled yet
    reply,     \* for each worker, the reply it has not received yet
    client,    \* each worker's GovernorWorker object
    nextBoot,  \* the next boot incarnation to be minted
    issued,    \* history: the epochs written into grants, with who wrote them
    accepted   \* history: the decisions acknowledged as accepted

coordinatorVars == <<up, starts, epoch, ledger, leases, nextLease>>
vars == <<coordinatorVars, now, inbox, reply, client, nextBoot, issued, accepted>>

NoReply == [type |-> "None", epoch |-> 0, lease |-> 0, reason |-> "None"]

Request ==
    [type : {"Hello", "LeaseRequest", "LeaseDenial", "LeaseRenew",
             "DecisionPublish", "Heartbeat"},
     worker : Workers, boot : Nat, lease : Nat, epoch : Nat, sequence : Nat,
     live : BOOLEAN]

Reply ==
    [type : {"None", "HelloAck", "LeaseGrant", "LeaseRenewed", "LeaseDenied",
             "DecisionAck", "HeartbeatAck"},
     epoch : Nat, lease : Nat,
     reason : {"None", "LeaseMissing", "EpochMismatch", "BootMismatch",
               "LeaseExpired", "ReorderedEvidence"}]

Lease ==
    [destination : Destinations, worker : Workers, boot : Nat, epoch : Nat,
     expires : Nat, sequence : Nat, revoked : BOOLEAN]

Client ==
    [boot : Nat, link : {"closed", "hello", "ready"}, epoch : Nat, lease : Nat,
     sequence : Nat, fenced : BOOLEAN, waiting : BOOLEAN]

(* History records; "by" is the coordinator incarnation. *)
Issue == [epoch : Nat, by : Nat]

Acceptance ==
    [destination : Destinations, lease : Nat, by : Nat, boot : Nat, epoch : Nat,
     granted : Nat, sequence : Nat]

FreshClient(b) ==
    [boot |-> b, link |-> "closed", epoch |-> 0, lease |-> 0, sequence |-> 0,
     fenced |-> FALSE, waiting |-> FALSE]

(* The connection is gone: a call that waited on it returns an error. *)
Unlinked(c) == [c EXCEPT !.link = "closed", !.waiting = FALSE]

EmptyTable == [l \in {} |-> 0]

-----------------------------------------------------------------------------
(* The lease table. *)

(* Mutant: the revocation flag is not looked at. *)
InTable(l) == l \in DOMAIN leases

Live(l) == l \in DOMAIN leases /\ ~leases[l].revoked

HeldBy(l, r) == leases[l].boot = r.boot /\ leases[l].worker = r.worker

LiveFor(d) == {l \in DOMAIN leases : Live(l) /\ leases[l].destination = d}

(* The unrevoked leases of the destination that the requester holds, and   *)
(* those another incarnation holds.                                        *)
Own(r) == {l \in LiveFor(DestinationOf[r.worker]) : HeldBy(l, r)}

Rivals(r) == LiveFor(DestinationOf[r.worker]) \ Own(r)

(* Mutant: a superseded lease is left as it is. *)
RevokingNothing(S) == leases

Revoking(S) ==
    [l \in DOMAIN leases |->
        [leases[l] EXCEPT !.revoked = leases[l].revoked \/ l \in S]]

(* The record a grant adds to the table. *)
NewLease(r, e) ==
    [destination |-> DestinationOf[r.worker], worker |-> r.worker,
     boot |-> r.boot, epoch |-> e, expires |-> now + LeaseDuration,
     sequence |-> 0, revoked |-> FALSE]

Adding(table, l, record) ==
    [k \in DOMAIN table \cup {l} |-> IF k = l THEN record ELSE table[k]]

Expired(l) == now > leases[l].expires

(* The outcomes of EpochLedger::store: the file is replaced atomically or  *)
(* left as it was.                                                         *)
StoreOutcomes == IF "StoreFailure" \in Faults THEN BOOLEAN ELSE {TRUE}

Stored(ok, e) == IF ok THEN e ELSE ledger

-----------------------------------------------------------------------------
(* Connections. *)

(* Lease requests that are still to be handled each need one epoch and one *)
(* lease of the bounds.                                                    *)
Unhandled == Cardinality({r \in inbox : r.type = "LeaseRequest"})

Frame(w, type, l, e, n) ==
    [type |-> type, worker |-> w, boot |-> client[w].boot, lease |-> l,
     epoch |-> e, sequence |-> n, live |-> TRUE]

Answer(type, e, l, reason) ==
    [type |-> type, epoch |-> e, lease |-> l, reason |-> reason]

(* The thread of r's connection has handled r: the reply goes back over    *)
(* the connection, if the worker still has its end open.                   *)
Finish(r, answer) ==
    /\ inbox' = inbox \ {r}
    /\ reply' = IF r.live THEN [reply EXCEPT ![r.worker] = answer] ELSE reply
    /\ UNCHANGED <<up, starts, now, client, nextBoot>>

(* A worker's connection is gone.  The request it had sent may still be    *)
(* handled, at any later time or never; a frame whose handler only replies *)
(* has nothing left to do.                                                 *)
Orphaned(w) ==
    {r \in inbox : r.worker # w}
      \cup {[r EXCEPT !.live = FALSE] : r \in
               {q \in inbox : q.worker = w /\ q.type \notin {"Hello", "Heartbeat", "LeaseDenial"}}}

-----------------------------------------------------------------------------
(* Initially nothing runs: no ledger, no coordinator, and one process per  *)
(* worker that has not connected.                                          *)
Init ==
    /\ up = FALSE
    /\ starts = 0
    /\ epoch = 0
    /\ ledger = 0
    /\ leases = EmptyTable
    /\ nextLease = 1
    /\ now = 0
    /\ inbox = {}
    /\ reply = [w \in Workers |-> NoReply]
    /\ \E boots \in [Workers -> 1..Cardinality(Workers)] :
         /\ \A v, w \in Workers : boots[v] = boots[w] => v = w
         /\ client = [w \in Workers |-> FreshClient(boots[w])]
    /\ nextBoot = Cardinality(Workers) + 1
    /\ issued = {}
    /\ accepted = {}

-----------------------------------------------------------------------------
(* The coordinator process. *)

(* Mutant: the configured epoch, whatever the ledger holds. *)
ResumedFromConfig == InitialEpoch

(* The epoch start() resumes from: above whatever the ledger holds. *)
ResumedEpoch == IF ledger >= InitialEpoch THEN ledger + 1 ELSE InitialEpoch

(* A new coordinator: the ledger is read, and written before it serves.    *)
Start ==
    /\ ~up
    /\ starts < MaxStarts
    /\ ResumedEpoch <= MaxEpoch
    /\ up' = TRUE
    /\ starts' = starts + 1
    /\ epoch' = ResumedEpoch
    /\ ledger' = ResumedEpoch
    /\ UNCHANGED <<leases, nextLease, now, inbox, reply, client, nextBoot,
                   issued, accepted>>

(* The process dies with everything it holds in memory; its connections    *)
(* die with it.  A reply already delivered was received before the crash.  *)
Crash ==
    /\ up
    /\ up' = FALSE
    /\ epoch' = 0
    /\ leases' = EmptyTable
    /\ nextLease' = 1
    /\ inbox' = {}
    /\ reply' = [w \in Workers |-> NoReply]
    /\ client' = [w \in Workers |-> Unlinked(client[w])]
    /\ UNCHANGED <<starts, ledger, now, nextBoot, issued, accepted>>

Tick ==
    /\ now < MaxTime
    /\ now' = now + 1
    /\ UNCHANGED <<coordinatorVars, inbox, reply, client, nextBoot, issued,
                   accepted>>

-----------------------------------------------------------------------------
(* Handlers: handle_connection's cases.  Each removes one frame r.         *)

HandleHello(r) ==
    /\ r.type = "Hello"
    /\ Finish(r, Answer("HelloAck", epoch, 0, "None"))
    /\ UNCHANGED <<epoch, ledger, leases, nextLease, issued, accepted>>

(* grant_lease, the requester already holds a live lease: the loop, in the *)
(* order of a hash table, revokes the rivals it has met, then prolongs the *)
(* lease, rebinds it to the epoch and ends there.                          *)
RegrantLease(r) ==
    /\ r.type = "LeaseRequest"
    /\ \E l \in Own(r), met \in SUBSET Rivals(r) :
         /\ leases' = [Revoking(met) EXCEPT ![l].epoch = epoch,
                                           ![l].expires = now + LeaseDuration]
         /\ Finish(r, Answer("LeaseGrant", epoch, l, "None"))
    /\ issued' = issued \cup {[epoch |-> epoch, by |-> starts]}
    /\ UNCHANGED <<epoch, ledger, nextLease, accepted>>

(* Mutant: next_lease_ is read and not incremented. *)
GrantReusingId(r) ==
    /\ r.type = "LeaseRequest"
    /\ LiveFor(DestinationOf[r.worker]) = {}
    /\ leases' = Adding(leases, nextLease, NewLease(r, epoch))
    /\ Finish(r, Answer("LeaseGrant", epoch, nextLease, "None"))
    /\ issued' = issued \cup {[epoch |-> epoch, by |-> starts]}
    /\ UNCHANGED <<epoch, ledger, nextLease, accepted>>

(* grant_lease, nobody holds the destination. *)
GrantFreeLease(r) ==
    /\ r.type = "LeaseRequest"
    /\ LiveFor(DestinationOf[r.worker]) = {}
    /\ leases' = Adding(leases, nextLease, NewLease(r, epoch))
    /\ nextLease' = nextLease + 1
    /\ Finish(r, Answer("LeaseGrant", epoch, nextLease, "None"))
    /\ issued' = issued \cup {[epoch |-> epoch, by |-> starts]}
    /\ UNCHANGED <<epoch, ledger, accepted>>

(* Mutant: the advance is not stored. *)
SupersedeInMemory(r) ==
    /\ r.type = "LeaseRequest"
    /\ Own(r) = {}
    /\ Rivals(r) # {}
    /\ epoch' = epoch + 1
    /\ leases' = Adding(Revoking(Rivals(r)), nextLease, NewLease(r, epoch + 1))
    /\ nextLease' = nextLease + 1
    /\ Finish(r, Answer("LeaseGrant", epoch + 1, nextLease, "None"))
    /\ issued' = issued \cup {[epoch |-> epoch + 1, by |-> starts]}
    /\ UNCHANGED <<ledger, accepted>>

(* grant_lease, another incarnation holds the destination: its lease is    *)
(* revoked, and the epoch advances and is stored before the grant.         *)
SupersedeLease(r) ==
    /\ r.type = "LeaseRequest"
    /\ Own(r) = {}
    /\ Rivals(r) # {}
    /\ epoch' = epoch + 1
    /\ ledger' = epoch + 1
    /\ leases' = Adding(Revoking(Rivals(r)), nextLease, NewLease(r, epoch + 1))
    /\ nextLease' = nextLease + 1
    /\ Finish(r, Answer("LeaseGrant", epoch + 1, nextLease, "None"))
    /\ issued' = issued \cup {[epoch |-> epoch + 1, by |-> starts]}
    /\ UNCHANGED accepted

(* The same, when the ledger cannot be written: the revocation and the     *)
(* advance stay, no lease is granted, and the thread goes on to deny the   *)
(* request.                                                                *)
SupersedeUnstored(r) ==
    /\ "StoreFailure" \in Faults
    /\ r.type = "LeaseRequest"
    /\ Own(r) = {}
    /\ Rivals(r) # {}
    /\ epoch' = epoch + 1
    /\ leases' = Revoking(Rivals(r))
    /\ inbox' = (inbox \ {r}) \cup {[r EXCEPT !.type = "LeaseDenial"]}
    /\ UNCHANGED <<up, starts, ledger, nextLease, now, reply, client, nextBoot,
                   issued, accepted>>

(* The denial reads the epoch under the lock once more. *)
HandleLeaseDenial(r) ==
    /\ r.type = "LeaseDenial"
    /\ Finish(r, Answer("LeaseDenied", epoch, 0, "None"))
    /\ UNCHANGED <<epoch, ledger, leases, nextLease, issued, accepted>>

(* A renewal is checked against the lease, the epoch and the boot, not     *)
(* against the lease's expiry; the grant keeps the epoch it was made in.   *)
Renewable(r) ==
    Live(r.lease) /\ r.epoch = epoch /\ leases[r.lease].boot = r.boot

RenewLease(r) ==
    /\ r.type = "LeaseRenew"
    /\ Renewable(r)
    /\ leases' = [leases EXCEPT ![r.lease].expires = now + LeaseDuration]
    /\ Finish(r, Answer("LeaseRenewed", leases[r.lease].epoch, r.lease, "None"))
    /\ issued' = issued \cup {[epoch |-> leases[r.lease].epoch, by |-> starts]}
    /\ UNCHANGED <<epoch, ledger, nextLease, accepted>>

(* Mutant: the thread returns without a reply. *)
DenySilently(r) ==
    /\ r.type = "LeaseRenew"
    /\ ~Renewable(r)
    /\ inbox' = inbox \ {r}
    /\ UNCHANGED <<coordinatorVars, now, reply, client, nextBoot, issued, accepted>>

(* Mutant: a denied renewal clears the destination for its worker. *)
DenyRenewalRevoking(r) ==
    /\ r.type = "LeaseRenew"
    /\ ~Renewable(r)
    /\ leases' = Revoking(LiveFor(DestinationOf[r.worker]))
    /\ Finish(r, Answer("LeaseDenied", epoch, 0, "None"))
    /\ UNCHANGED <<epoch, ledger, nextLease, issued, accepted>>

DenyRenewal(r) ==
    /\ r.type = "LeaseRenew"
    /\ ~Renewable(r)
    /\ Finish(r, Answer("LeaseDenied", epoch, 0, "None"))
    /\ UNCHANGED <<epoch, ledger, leases, nextLease, issued, accepted>>

(* A publish of a superseded epoch costs the lease it names. *)
StaleEpoch(r) == Live(r.lease) /\ r.epoch # epoch

RevokeStaleLease(r) ==
    /\ r.type = "DecisionPublish"
    /\ StaleEpoch(r)
    /\ leases' = Revoking({r.lease})
    /\ Finish(r, Answer("DecisionAck", epoch, 0, "EpochMismatch"))
    /\ UNCHANGED <<epoch, ledger, nextLease, issued, accepted>>

(* Mutant: the sequence is not compared. *)
AcceptableInAnyOrder(r) ==
    /\ Live(r.lease)
    /\ r.epoch = epoch
    /\ HeldBy(r.lease, r)
    /\ ~Expired(r.lease)

Acceptable(r) ==
    /\ Live(r.lease)
    /\ r.epoch = epoch
    /\ HeldBy(r.lease, r)
    /\ ~Expired(r.lease)
    /\ r.sequence > leases[r.lease].sequence

(* The refusals that leave the table alone, in the order they are checked. *)
Refusal(r) ==
    CASE ~Live(r.lease) -> "LeaseMissing"
      [] Live(r.lease) /\ leases[r.lease].boot # r.boot -> "BootMismatch"
      [] Live(r.lease) /\ leases[r.lease].boot = r.boot
           /\ leases[r.lease].worker # r.worker -> "EpochMismatch"
      [] Live(r.lease) /\ HeldBy(r.lease, r) /\ Expired(r.lease) -> "LeaseExpired"
      [] OTHER -> "ReorderedEvidence"

RefuseDecision(r) ==
    /\ r.type = "DecisionPublish"
    /\ ~StaleEpoch(r)
    /\ ~Acceptable(r)
    /\ Finish(r, Answer("DecisionAck", epoch, 0, Refusal(r)))
    /\ UNCHANGED <<epoch, ledger, leases, nextLease, issued, accepted>>

AcceptDecision(r) ==
    /\ r.type = "DecisionPublish"
    /\ Acceptable(r)
    /\ leases' = [leases EXCEPT ![r.lease].sequence = r.sequence]
    /\ accepted' = accepted \cup
         {[destination |-> leases[r.lease].destination, lease |-> r.lease,
           by |-> starts, boot |-> r.boot, epoch |-> epoch,
           granted |-> leases[r.lease].epoch, sequence |-> r.sequence]}
    /\ Finish(r, Answer("DecisionAck", epoch, 0, "None"))
    /\ UNCHANGED <<epoch, ledger, nextLease, issued>>

HandleHeartbeat(r) ==
    /\ r.type = "Heartbeat"
    /\ Finish(r, Answer("HeartbeatAck", epoch, 0, "None"))
    /\ UNCHANGED <<epoch, ledger, leases, nextLease, issued, accepted>>

Handle(r) ==
    \/ HandleHello(r)
    \/ RegrantLease(r)
    \/ GrantFreeLease(r)
    \/ SupersedeLease(r)
    \/ SupersedeUnstored(r)
    \/ HandleLeaseDenial(r)
    \/ RenewLease(r)
    \/ DenyRenewal(r)
    \/ RevokeStaleLease(r)
    \/ RefuseDecision(r)
    \/ AcceptDecision(r)
    \/ HandleHeartbeat(r)

-----------------------------------------------------------------------------
(* The control plane. *)

HasRoom == epoch + Unhandled < MaxEpoch

(* advance_epoch: in memory first, then in the ledger. *)
AdvanceEpoch ==
    /\ up
    /\ epoch <= MaxAdvanced
    /\ HasRoom
    /\ epoch' = epoch + 1
    /\ \E ok \in StoreOutcomes : ledger' = Stored(ok, epoch + 1)
    /\ UNCHANGED <<up, starts, leases, nextLease, now, inbox, reply, client,
                   nextBoot, issued, accepted>>

(* ControlOpcode::RevokeAll never writes the ledger. *)
RevokeAll ==
    /\ "RevokeAll" \in Faults
    /\ up
    /\ HasRoom
    /\ leases' = Revoking(DOMAIN leases)
    /\ epoch' = epoch + 1
    /\ UNCHANGED <<up, starts, ledger, nextLease, now, inbox, reply, client,
                   nextBoot, issued, accepted>>

-----------------------------------------------------------------------------
(* The worker's side: GovernorWorker's calls.  Each sends one frame and    *)
(* waits; a worker that waits does nothing else.                           *)

Send(w, frame) ==
    /\ inbox' = inbox \cup {frame}
    /\ UNCHANGED <<coordinatorVars, now, reply, nextBoot, issued, accepted>>

Connect(w) ==
    /\ up
    /\ client[w].link = "closed"
    /\ Send(w, Frame(w, "Hello", 0, 0, 0))
    /\ client' = [client EXCEPT ![w].link = "hello", ![w].waiting = TRUE]

MayCall(w, type) ==
    type \in Calls /\ client[w].link = "ready" /\ ~client[w].waiting

AcquireLease(w) ==
    /\ MayCall(w, "LeaseRequest")
    /\ HasRoom
    /\ nextLease + Unhandled <= MaxLeases
    /\ Send(w, Frame(w, "LeaseRequest", 0, 0, 0))
    /\ client' = [client EXCEPT ![w].waiting = TRUE]

AskRenewal(w) ==
    /\ MayCall(w, "LeaseRenew")
    /\ client[w].lease # 0
    /\ Send(w, Frame(w, "LeaseRenew", client[w].lease, client[w].epoch, 0))
    /\ client' = [client EXCEPT ![w].waiting = TRUE]

(* The decisions that the processes now running have published. *)
Published ==
    Cardinality({p \in Workers \X (1..MaxSequence) : p[2] <= client[p[1]].sequence})

(* publish() does not ask for a lease.  A publish before any grant names   *)
(* lease 0 and is refused; it is a call of its own, so that an instance    *)
(* may leave it out.                                                       *)
Publish(w) ==
    /\ MayCall(w, "DecisionPublish")
    /\ client[w].lease # 0 \/ "UnleasedPublish" \in Calls
    /\ client[w].sequence < MaxSequence
    /\ Published < MaxPublished
    /\ Send(w, Frame(w, "DecisionPublish", client[w].lease, client[w].epoch,
                     client[w].sequence + 1))
    /\ client' = [client EXCEPT ![w].sequence = client[w].sequence + 1,
                               ![w].waiting = TRUE]

SendHeartbeat(w) ==
    /\ MayCall(w, "Heartbeat")
    /\ Send(w, Frame(w, "Heartbeat", 0, 0, 0))
    /\ client' = [client EXCEPT ![w].waiting = TRUE]

(* What a reply does to the GovernorWorker object.  A LeaseGrant frame that *)
(* answers renew_lease is named LeaseRenewed: the two calls differ in what *)
(* they do to fenced_.                                                     *)
Received(c, m) ==
    CASE m.type = "HelloAck" ->
           [c EXCEPT !.link = "ready", !.epoch = m.epoch, !.fenced = FALSE]
      [] m.type = "LeaseGrant" ->
           [c EXCEPT !.lease = m.lease, !.epoch = m.epoch, !.fenced = FALSE]
      [] m.type = "LeaseRenewed" ->
           [c EXCEPT !.lease = m.lease, !.epoch = m.epoch]
      [] m.type = "LeaseDenied" ->
           [c EXCEPT !.epoch = m.epoch, !.fenced = TRUE]
      [] m.type = "DecisionAck" /\ m.reason \in {"EpochMismatch", "BootMismatch"} ->
           [c EXCEPT !.epoch = m.epoch, !.fenced = TRUE]
      [] m.type = "HeartbeatAck" ->
           [c EXCEPT !.epoch = m.epoch, !.fenced = c.fenced \/ m.epoch # c.epoch]
      [] OTHER -> c

Receive(w) ==
    /\ reply[w] # NoReply
    /\ client' = [client EXCEPT ![w] =
                    [Received(client[w], reply[w]) EXCEPT !.waiting = FALSE]]
    /\ reply' = [reply EXCEPT ![w] = NoReply]
    /\ UNCHANGED <<coordinatorVars, now, inbox, nextBoot, issued, accepted>>

Orphan(w) ==
    /\ Cardinality({r \in Orphaned(w) : ~r.live}) <= MaxOrphans
    /\ inbox' = Orphaned(w)

(* The connection breaks, or close() is called. *)
Disconnect(w) ==
    /\ client[w].link # "closed"
    /\ client' = [client EXCEPT ![w] = Unlinked(client[w])]
    /\ Orphan(w)
    /\ reply' = [reply EXCEPT ![w] = NoReply]
    /\ UNCHANGED <<coordinatorVars, now, nextBoot, issued, accepted>>

(* The process dies and a new one of the same name starts: a new boot.     *)
Restart(w) ==
    /\ nextBoot <= MaxBoots
    /\ client' = [client EXCEPT ![w] = FreshClient(nextBoot)]
    /\ nextBoot' = nextBoot + 1
    /\ Orphan(w)
    /\ reply' = [reply EXCEPT ![w] = NoReply]
    /\ UNCHANGED <<coordinatorVars, now, issued, accepted>>

-----------------------------------------------------------------------------
(* The thread of w's open connection. *)
Serve(w) == \E r \in inbox : r.live /\ r.worker = w /\ Handle(r)

WorkerStep(w) ==
    \/ Connect(w)
    \/ AcquireLease(w)
    \/ AskRenewal(w)
    \/ Publish(w)
    \/ SendHeartbeat(w)
    \/ Receive(w)
    \/ Disconnect(w)
    \/ Restart(w)

Next ==
    \/ Start
    \/ Crash
    \/ Tick
    \/ AdvanceEpoch
    \/ RevokeAll
    \/ \E r \in inbox : Handle(r)
    \/ \E w \in Workers : WorkerStep(w)

Spec == Init /\ [][Next]_vars

(* Every connection's thread keeps handling what it has received, and a    *)
(* blocked worker returns once its reply is there.                         *)
FairSpec ==
    /\ Spec
    /\ \A w \in Workers : WF_vars(Serve(w)) /\ WF_vars(Receive(w))

-----------------------------------------------------------------------------
(* Type correctness of the coordinator, the connections and the clients. *)
TypeOK ==
    /\ up \in BOOLEAN
    /\ {starts, epoch, ledger, now} \subseteq Nat
    /\ nextLease \in Nat \ {0}
    /\ nextBoot \in Nat
    /\ leases \in [1..(nextLease - 1) -> Lease]
    /\ inbox \subseteq Request
    /\ reply \in [Workers -> Reply]
    /\ client \in [Workers -> Client]
    /\ issued \subseteq Issue
    /\ accepted \subseteq Acceptance

(* A destination's newest lease is the only one that may be unrevoked:     *)
(* whatever requests, stale publishes and revocations interleave,          *)
(* grant_lease never leaves two live leases for one destination behind.    *)
OnlyNewestLeaseLives ==
    \A l, k \in DOMAIN leases :
        (leases[l].destination = leases[k].destination /\ k < l) => leases[k].revoked

(* No two coordinator incarnations ever write the same epoch into a grant: *)
(* start() resumes above every epoch the ledger has been told of.          *)
EpochNeverReused ==
    \A g, h \in issued : g.epoch = h.epoch => g.by = h.by

(* While the coordinator runs, nobody knows an epoch it has not reached:   *)
(* no worker, no frame or reply in flight, no lease in the table, however  *)
(* often the coordinator has restarted since.                              *)
NoEpochFromTheFuture ==
    up => /\ \A w \in Workers : client[w].epoch <= epoch /\ reply[w].epoch <= epoch
          /\ \A r \in inbox : r.epoch <= epoch
          /\ \A l \in DOMAIN leases : leases[l].epoch <= epoch

(* A lease is lost only to a request for its destination, to a frame of    *)
(* the incarnation that holds it, or to RevokeAll: no late publish, denied *)
(* renewal or other destination's handover takes it from its holder.       *)
LostOnlyToRivalOrSelf ==
    [][\A l \in DOMAIN leases :
         (l \in DOMAIN leases' /\ ~leases[l].revoked /\ leases'[l].revoked) =>
           \/ \E r \in inbox \ inbox' :
                \/ r.boot = leases[l].boot
                \/ /\ r.type = "LeaseRequest"
                   /\ DestinationOf[r.worker] = leases[l].destination
           \/ inbox' = inbox /\ \A k \in DOMAIN leases' : leases'[k].revoked]_vars

(* Once a later holder of a destination has had a decision accepted, no    *)
(* earlier lease of that destination ever has one accepted again.          *)
NoDecisionFromSupersededLease ==
    [][\A a \in accepted' \ accepted : \A b \in accepted :
         (a.by = b.by /\ a.destination = b.destination) => b.lease <= a.lease]_vars

(* Nobody else's lease is live while one is, so a destination's holder is  *)
(* the incarnation its live lease names.                                   *)
LiveLease(d) == leases[CHOOSE l \in LiveFor(d) : TRUE]

Holder(d) == IF LiveFor(d) = {} THEN 0 ELSE LiveLease(d).boot

LastAccepted(d) == IF LiveFor(d) = {} THEN 0 ELSE LiveLease(d).sequence

Authority == INSTANCE LeaseAuthority WITH
    Incarnations <- 1..MaxBoots,
    Sequences <- 1..MaxSequence,
    holder <- [d \in Destinations |-> Holder(d)],
    last <- [d \in Destinations |-> LastAccepted(d)],
    decisions <- {[destination |-> a.destination, incarnation |-> a.boot,
                   sequence |-> a.sequence] : a \in accepted}

(* The lease table, the epochs and the frames implement the abstract lease *)
(* authority: one holder per destination, whose decisions alone are        *)
(* accepted, in the order it issued them for as long as it holds the       *)
(* destination, whatever is lost, reordered or restarted.                  *)
ImplementsLeaseAuthority == Authority!Spec

(* A worker blocked on a reply is released: its frame is handled, or its   *)
(* connection ends.                                                        *)
EveryCallReturns ==
    \A w \in Workers : client[w].waiting ~> ~client[w].waiting

(* What coordinator.hpp promises of workers: they publish only decisions   *)
(* bound to the epoch of the lease they were granted.                      *)
DecisionsBoundToGrantedEpoch == \A a \in accepted : a.epoch = a.granted

================================================================================
