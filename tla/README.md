# Incast Governor: a TLA+ verification project

Incast Governor is a C++ library and a set of processes. A *coordinator* hands
out leases on destinations; a *worker* process holds a lease, evaluates evidence
windows with a *governor* engine, publishes the decisions to the coordinator and
keeps the governor's state in a *durable store*. This directory models the parts
whose correctness depends on interleavings, crashes and the order of steps.

## 1. The system

| Component | State it keeps | Operations | What makes it correct |
| --- | --- | --- | --- |
| Coordinator (`coordinator.cpp` 519-991) | `epoch_`, `leases_`, `next_lease_`, sessions | start, stop, the handlers of Hello, LeaseRequest, LeaseRenew, DecisionPublish, Heartbeat, and the control opcodes Status, AdvanceEpoch, RevokeAll, Shutdown | one holder per destination; only the holder's decisions are accepted, in order; epochs are never reused; every call is answered; shutdown terminates |
| Epoch ledger (`coordinator.cpp` 459-513) | one number in `coordinator.epoch` | load, store | a restart resumes above every epoch ever granted |
| Worker client (`coordinator.cpp` 997-1184) | `epoch_`, `lease_`, `sequence_`, `fenced_` | connect, acquire, renew, publish, heartbeat, close | a superseded worker is told so; it never knows an epoch from the future |
| Durable store (`durable.cpp`) | `governor.snapshot`, `governor.<n>.journal`, the current journal and its number | open, recover, commit, checkpoint | nothing acknowledged is ever lost; recovery never goes back |
| Governor engine (`governor.cpp`) | `GovernorState`, the authority binding, the policy | configure_policy, bind_authority, evaluate, restore_state, reset, retire, shutdown | no enforcement without live authority; nothing lapsed or restored resumes by itself; hysteresis neither flaps nor sticks |
| Intervention lifecycle (`lifecycle.cpp`) | an intervention's state, the epoch tracker, the recovery tracker | transition, is_fenced, advance, evaluate_recovery | terminal states are terminal; recovery needs consecutive clean windows |
| Detector (`detect.cpp`) | none (streaks come from the governor) | detect, classify | every refusal has a reason; the classification needs its streak |
| Mitigation (`mitigate.cpp`) | none | synthesize, clamp_to_bounds | reductions stay in the policy's bounds; protected senders are never penalised; the excess is answered in full and no more than that |
| Worker tool (`incast_governor_worker.cpp`) | a boot, a lease, a governor, a store | acquire, restore, then evaluate, publish, commit in each cycle | what a restart replays was answered; what it forgets is at most one decision per session |
| Transport (`transport.cpp`) | a socket, a receive buffer | send, receive, shutdown | a frame arrives whole or not at all |
| Policy, state codec, value types, explanation, synthetic evidence, tools | data | | formatting and validation |

How they interact: workers and control clients talk to the coordinator over one
loopback connection each, in request/reply; the coordinator runs one thread per
connection and takes `mutex_` around every access to the epoch and the lease
table. Inside a worker process the governor, the store and the client are called
one after another by one thread (`tools/incast_governor_worker.cpp`).

The hard behaviours: threads of several connections that grant, revoke and
accept against the same table; frames of connections that are already dead;
coordinators and workers that die and come back with nothing, or only with what
a file holds; a ledger write that fails; a store that dies between two file
operations, and a worker that dies between publishing and committing; a shutdown
that races an accept; windows whose senders contradict each other or that
hysteresis does not trust. `PROJECT.json` lists each at its
line, with the properties that catch it.

## 2. The modules

| Module | Models | Extends or instantiates | Instance | Theorems |
| --- | --- | --- | --- | --- |
| `LeaseAuthority` | what a coordinator promises (abstract) | | | |
| `Coordinator` | coordinator, ledger, worker clients | `LeaseAuthority` | `MCCoordinator` | `CoordinatorProofs`, `AuthorityProofs` |
| `CoordinatorShutdown` | accept loop, threads, `stop()` | | `MCCoordinatorShutdown` | `CoordinatorShutdownProofs` |
| `Enforcement` | what an engine promises of the intervention on its destination (abstract) | | | |
| `Governor` | the engine's calls, one destination, restarts | `Enforcement` | `MCGovernor` | `GovernorProofs` |
| `Detect` | metrics and classification of one window | | | |
| `Mitigate` | policies, bounds, synthesis of one intent | `Detect` | | |
| `Decision` | the engine's decisions over windows | `Mitigate`, `Enforcement` | `MCDecision` | `DecisionProofs` |
| `Evidence` | the order of evidence over deliveries and restarts | | `MCEvidence` | `EvidenceProofs` |
| `DurableStore` | journals, snapshot, recovery | | `MCDurableStore` | `DurableStoreProofs` |
| `WorkerProcess` | the worker tool | `DurableStore`, `LeaseAuthority` | `MCWorkerProcess` | `WorkerProcessProofs` |

The worker process is composed with the abstract authority and not with
`Coordinator`; that `Coordinator` implements the authority is checked and proved,
so what the worker assumes of a coordinator is what a coordinator does. Likewise
`Governor` and `Decision`, which look at one evaluation from two sides, both
implement `Enforcement`, so that they cannot tell different stories of it.

### Coordinator

`Coordinator.tla` models the coordinator, its ledger and the worker clients.

* `epoch`, `leases`, `nextLease`, `ledger` are `epoch_`, `leases_`,
  `next_lease_` and the ledger file. `client[w]` is the `GovernorWorker` object
  of process `w`. `inbox` holds the frames that were sent and not handled,
  `reply[w]` the answer `w` has not received.
* A handler is one action, because it does all its work under `mutex_`,
  including the write of the ledger. The one exception, a denied lease request
  that takes the lock a second time to read the epoch, is two actions
  (`SupersedeUnstored`, `HandleLeaseDenial`). Between the decoding of a frame
  and the sending of a reply nothing else of the coordinator's state is read
  outside the lock.
* A worker blocks on the reply (`client[w].waiting`), as `receive()` does.
* `Disconnect` and `Restart` leave the frame the worker had sent in `inbox`,
  marked as no longer `live`: its thread may have read it and be waiting for
  `mutex_` while the worker reconnects or a new process takes its place. It may
  be handled at any later time, or never.
* `Crash` clears all memory of the coordinator and breaks every connection. A
  reply that reached the worker before the crash is a `Receive` before `Crash`.
* `Start` is the constructor and `start()`. A ledger directory is assumed to be
  configured. A corrupt or unwritable ledger makes `start()` fail, which is
  `Start` not happening.
* `leases_` is a hash table, so the order in which `grant_lease` meets a
  requester's own lease and its rivals' is arbitrary (`RegrantLease`).
* Process names are worker ids. Two boots that run side by side under one name
  are two leases of different boots to the coordinator, exactly like two workers;
  the model gives every process its own name.
* `Faults` names the advances of the epoch that miss the ledger: `"RevokeAll"`
  (the opcode never stores) and `"StoreFailure"` (a write fails).
* Left out: statistics, the control token, session ids, destination and policy
  generations, and the payload of a decision, which the coordinator stores or
  ignores without comparing it.

`LeaseAuthority.tla` is the abstract specification: a holder per destination, the
number of its last decision, and the decisions accepted so far. `Coordinator`
maps the live lease of a destination to its holder, and the sequence in that
lease to `last`.

The order of decisions is promised from a grant to the loss of it, a *tenure*, and not
longer. Lease ids start over with a coordinator, so the following can happen after a
coordinator restart: a worker that still names lease 2 of the old coordinator
publishes its first decision and loses its connection, while the frame stays
with its thread; it reconnects, is granted lease 1 of the new one, and its
second decision is accepted. A rival that names lease 1 of the old coordinator
with an old epoch publishes and thereby revokes it (`coordinator.cpp` 915). The
worker acquires again, under the same epoch, and is given lease 2, and now the
delayed first decision names a live lease of the right worker and boot. The
documents promise validation against the lease's identity and a monotonic
sequence (`ARCHITECTURE.md` 144-145), which each lease keeps, so this is no finding.

### CoordinatorShutdown

`CoordinatorShutdown.tla` models the threads around the handlers: `run()` with
its accept loop, the sweep and the joins after it, the thread of each connection,
and the one `stop()` that does the work, on the thread of a session (a Shutdown
frame, or a control request with the opcode Shutdown) or of the owner.

* `sessions_mutex_` is never held across a call that blocks, so each of its
  critical sections is one action, as is each load or exchange of `stopping_`;
  `StopShutsDown` takes the sessions of `stop()`'s snapshot one by one.
* `thread[c]` is where the thread of connection `c` is; `"receive"`, `"reply"`
  and `"lastReply"` are the places where it may block for ever: a client need
  not send, read or close.
* What a frame does to leases is `Coordinator`'s. A control request and a damaged
  frame end their connection when they are answered.
* The throwaway connection of `stop()` is the connection `Wake`, which the
  accept loop may accept like any other.

### Governor

`Governor.tla` models the engine of one destination in a worker process that is
restarted. Every public method holds `mutex_` throughout, so each is one action;
`evaluate()` is one action per outcome (`Refuse`, `Fence`, `HoldBack`, `Issue`,
`Continue`, `Relax`, `Complete`, `Decline`).

* `binding` and `leaseExpiry` are the authority in `config_`, `policy` its policy,
  `stated` the policy generation in `state_`. `prior` is the kind of the last
  window in the history (of which nothing else is read; a history of one window
  at least is assumed), `clean` the clean streak. `interventions`, `next` and
  `revalidate` are the table, the counter of identities and
  `requires_revalidation`. `outcome` is the decision the last call returned.
* Epoch, boot, worker and lease are compared together wherever the code compares
  them, and come from one grant; the number of the grant stands for all four.
  `bootGrant`, the first grant of the running process, tells boots apart.
* An evidence bundle is the grant it was collected under, its time, and the kind
  its metrics classify as. `"Unknown"` stands for a bundle that is refused for
  itself (missing classes, staleness, order), and `Refuse` is one action for all
  refusals. A replayed bundle is as good as a new one here, and time may go back,
  so the properties depend on neither; what order does is `Evidence`'s.
* The magnitude of an intervention is counted in recovery steps; synthesis may
  choose any of `Levels`, and may decline for a risk. `Mitigate` and `Decision`
  have what is really chosen.
* `Restart` is the worker tool: a new boot and a new grant, the constructor, then
  either a blank state or `restore_state`. A durable state is a state the engine
  was in when it was saved, and a restored engine depends on nothing that
  happened later, so `Restart` restores the present state: the death is placed
  right after the save.
* The branch "revalidation found no incident" of `evaluate_locked` is part of
  `Decline`. `LiveFollowsIncident` shows that no window reaches it: under a live
  intervention a calm window counts as a recovery.
* The branch that moves a lapsed intervention to Revalidating (482-488) is not in
  the model: `is_fenced`, a few lines before, has the same condition and returns.

### Enforcement

`Enforcement.tla` is the abstract specification of the engine: the state of the
live intervention (`life`), how strong it is, whether the last recorded window
counts as an incident (`alarmed`), the run of quiet windows (`calm`) and the
configured dwell. It has no table, grants, clocks or demand. Its actions say what
may happen to an intervention and what calls for it: it comes into force (`Intervene`)
only under an alarm, and what is in force already takes a new magnitude only in an
incident of its own, not while an old one is held; it is eased or finished only by a
quiet window after which there is no alarm; it is fenced, retired, and after a restart
or another policy it is out of force until it is made anew.

`Governor` maps the live entry of its table to it, with the level as its strength, and
`Decision` its intent, with the reduction as its strength; `prior` and `clean` are the
alarm and the run in both. `governor_evaluate` checks the mapping of `Governor`
(`ImplementsEnforcement`), and it is proved for both.

### Detect, Mitigate, Decision

These three modules look into an evaluation that `Governor` abstracts: which
intent is decided from which demand.

`Detect.tla` has the functions of one window under one policy: aggregate demand,
oversubscription and queue pressure, the collisions of identities, the compression
of the arrivals and the senders that arrive within the bound of the earliest one
(`InBound`), the kind a window shows by itself, the severity, the affected queue and the
ranking of senders. Demand is added up row by row, by a function on the positions
(`Sums`). Sums and products saturate at `MaxWord`; all ratios are in
basis points, capped as `ratio_bp` caps them.

`Mitigate.tla` has `validate()` of a policy (`ValidPolicy`, for the fields that
matter here), `clamp_to_bounds`, `apply_bp`, and the branches of `synthesize()`:
stagger, admission reduction, priority-aware rate reduction, headroom, escalation,
and relaxation by a step. A penalised sender carries its position in the list,
because clamping cuts the list from its end. Fields that only describe an intent
are left out.

`Decision.tla` puts both under `evaluate_locked`: the hysteresis of `classify()`
(`prior`, `clean`), the live intervention and its intent, the policy and its
changes, retirement and restore. `policy` is `config_.policy`, and `stated` is
`state_.policy_generation`, the generation of the policy that the state was last
configured with. The two part in `Restore(p)`: a state brings the generation it was saved
under, and the engine it comes to runs `p`, the policy of a new process or one that
was configured since the snapshot. (An older snapshot is this state at an earlier step, so
restoring the present one under any `p` covers it.) `ConfigurePolicy(p)` compares with `stated`,
as the code does, so that after a restore it may leave in force what another policy
decided: finding 5. `overlooked`, a history, is true from then until something is
decided anew under revalidation or nothing is in force; `WithinBounds` and
`WeakensOnlyAfterCalm` except it, and an easing is in bounds even then. The actions are
the outcomes (`HoldBack`, `Intervene`, `Relax`, `Complete`, `Decline`, and `Fence` for an
evaluation that ends early) and the other calls. Who may decide, and when, is `Governor`'s. What
the detector and the synthesis say of each window under each policy is a set of
constants (`Observations`), which TLC computes once.

`MCDecision.tla` holds the windows and the policies of the instance.

### Evidence

`Evidence.tla` is the other half of what `Governor` abstracts: which bundles an
evaluation takes. `memory` has of `state_` what evaluations read and record of
order: `sequences` (`last_sequence`), `source` (`last_sequence_boot`), `generation`
(`destination_generation`) and `live`, the grant of the live intervention. `disk` is the
state saved last. `accepted`, a history inside the state, is the evaluations the
state follows from; what a crash forgets, it forgets too.

* Bundles that were collected stay in `collected` and may be evaluated in any order, again, or
  never. The source numbers its windows from 1 in each process; the number of a
  class in the code is the window's plus a constant of the class. Two classes share
  a stamp, as Destination and Capacity do.
* A bundle shows a class when the checks of `check_authority` before and behind the
  one on sequences pass (instants, window, service rate, provenance). Those compare fields of
  the bundle with each other, its own `now` included: how late it is
  evaluated changes nothing in them, and only sequences stand in the way of a late bundle.
* A refusal (`Refuse`) leaves all of this state as it is. `RefusedForCause` therefore speaks of
  every bundle that was collected and would be refused if it came now, and not of
  those that happen to come.
* Every class is recorded, shown or not (`NotedSequences`).
* `Fence` is free to happen while something is live, and must when what is live is
  of another grant. It returns before the generation is recorded.
* `EvidenceAssumption` asks that the policies share a required class, as any with
  `require_provenance` do. `validate()` does not: under a policy that requires
  nothing a replay is taken.
* `Reset` forgets the order with everything else, so that evidence may be taken
  again behind it; the properties speak of what a state remembers.

### DurableStore

`DurableStore.tla` models the store file operation by file operation; a governor
state is the number of the commit or checkpoint it was handed over with.
`write_file_atomic` is one action (the rename publishes it, a temporary file is
never read); an append is one action that either writes the record or, if the
process dies in it, leaves a damaged one. `path`, `index`, `records` are
`journal_path_`, `journal_epoch_` and `records_since_snapshot_`. A failing call
ends the process, as in the worker tool, so a failure and a death are one
action; a removal whose failure is ignored is a choice of its own. Power loss
(files whose directory entry was not synchronised) is not modelled.

### WorkerProcess

`WorkerProcess.tla` is the loop of the worker tool. A session of the store is a
boot of the process. In each cycle the governor decides, the decision is
published, the coordinator answers, and the state is committed, file operation by
file operation (`CommitStep` takes the steps of `DurableStore`). `governor` is
known by the decisions it follows from and the last evidence it took; `frames`
are decisions sent and not handled, which survive their process; `contents`
remembers which governor state each version of the store is.

* `StartWorker` opens the store, acquires and restores in one step: before its first
  decision a process changes nothing that others see but the holder.
* `AcceptDecision`, `Grant` and `Revoke` are steps of `LeaseAuthority`.
  `RefuseDecision` is an answer that the worker does not take for fencing
  (`LeaseMissing`, `LeaseExpired`): it goes on and commits. `FenceDecision` is
  `EpochMismatch`, after which it exits without a commit.
* `SupersedeWorker` gives the destination to a rival of which nothing else is
  known. `LeaseLapses` is the clock; the tool never renews.
* Worker and coordinator run on one host, so there is one clock.
* One process uses the state directory at a time.

## 3. The runs

| Run | Question | Answer |
| --- | --- | --- |
| `coordinator_authority` | Does the table of leases implement one authority per destination, with late frames, restarts and rivals? Are epochs unique across coordinator restarts, and is nobody ahead of the coordinator? | yes, when every advance of the epoch is stored |
| `coordinator_calls` | Who can make a holder lose its lease, over every call, expiry and fault? Does every blocked call return? | its rivals, itself, or RevokeAll; yes |
| `coordinator_shutdown` | Does `stop()` end `run()` and every thread, whatever the clients do? | yes, unless `accept()` failed before |
| `coordinator_reuse` | Does RevokeAll keep epochs unique? | no: finding 1 |
| `coordinator_binding` | Are accepted decisions bound to the epoch of their grant? | no: finding 2 |
| `governor_evaluate` | Who may enforce, for how long, what does a restart, a policy change or a shutdown leave alive, and does the engine implement `Enforcement`: when is an intervention made, weakened and ended? | as the documents say; yes |
| `governor_recovery` | Does relaxation wait for the recovery policy's clean windows? | no: finding 4 |
| `governor_policy` | Is what is in force always under the configured policy? | no: finding 5 |
| `decision_windows` | Is what is asked in bounds, asked only of senders that may be asked, enough, not too much, not a reaction to nothing, and taken back in time? | yes, with the exceptions the properties name |
| `evidence_order` | Is evidence taken in order and once, and refused only for cause, when bundles are late, repeated or lost and processes restart? | yes |
| `worker_durable` | Is every acknowledged state recoverable after deaths anywhere? Does a restart replay only what was answered, and forget at most one decision per session? | yes; also after a damaged record or a missed removal in the last session |
| `durable_torn` | And when a session follows a damaged record? | no: finding 3 |

### Bounds

**Coordinator.** Bounds stand in the guards of sends, advances and starts, never in a
handler, so that no frame is stuck because of a bound: a lease request is only
sent when an epoch and a lease are left for it (`HasRoom`, `Unhandled`). Two
workers are enough for every rivalry: a third would be one more rival revoked by
the same loop. Two coordinator starts let a frame of the first coordinator's
clients meet the second one's leases. Two leases per coordinator let one be
superseded; two sequence numbers let a publish be reordered; one late frame
(`MaxOrphans`) is what one dead connection leaves.

`coordinator_authority` has room for what a second coordinator does. An operator may advance
the epoch once, at epoch 1 (`MaxAdvanced`), and the ledger goes up to epoch 5, so that a
coordinator that starts behind a grant, a supersession or an advance still grants
leases, supersedes them and accepts decisions, at epochs 3 to 5, while frames, clients
and replies of its predecessor are about. Workers have two boots between them there, one process
each: a worker that restarts is one more boot to the coordinator, which tells its two
boots apart as it tells two workers, and `Restart` itself is exercised in `coordinator_calls`,
which has three boots. A worker publishes two decisions at most (`MaxPublished`), one in
`coordinator_calls`. `UnleasedPublish` among the calls lets a worker publish without a
lease, which a client of the library may and the worker tool does not; `coordinator_calls`
leaves it out.

A clock of two values and a lease duration of zero ticks make expiry happen, in
`coordinator_calls`. Heartbeats and renewals are called in `coordinator_calls` and
`coordinator_binding` only; what they do to the properties of `coordinator_authority` is
left to the theorems, which have no such bounds. `coordinator_authority` reaches about
1.5 million states and exchanges the two workers as its symmetry; `coordinator_calls`
reaches about 685 000 and has none, because of its liveness property. All instances have one destination; destinations share
nothing but the epoch and the numbering of leases, and the theorems are for any number
of them. `coordinator_calls` has one start of the coordinator on purpose: a
worker that still names a lease of the previous one *can* take the lease with the
same number from its new holder by publishing with an old epoch, as described
above, and the property is stated for one coordinator incarnation.

**Shutdown.** The instance has a worker or control client, a client that sends a
Shutdown frame, the waking connection and an owner that may stop the coordinator
at any time: the two callers of `stop()` race each other, the accept of the other
client and its blocked calls.

**Governor.** Two grants, so that one can supersede the other inside a process or
across a restart; two clock values and a duration of zero ticks, so that leases
and interventions lapse; two interventions, so that a settled one stands beside a
live one; a reduction of two recovery steps, so that it is relaxed once and then
retired; a dwell of two windows and a cap on the streak at it. Its policies are
the one a worker starts with, a second generation without recovery, and one that
is disabled. The table does not overflow in it; the proofs cover trimming.

**Decision.** Windows of up to three rows over a service rate of 3: calm ones
(empty, spread in time, small), and, at a moderate and at a high rate, pairs of
bulk senders, a bulk and a protected sender, a population with only protected senders,
a sender with one protected row, a sender of two incarnations, and a duplicated
row; two of the high ones also clipped; the calm ones also with a full queue. That makes
20 windows, of which any sequence may follow. Three policies replace each other:
one with the default thresholds; one with tighter bounds, no escalation and a
streak just long enough for the dwell; one without recovery that admits clipped
populations. Any of them may run in an engine that a state is restored to, so that what is
in force is overlooked by a change of policy and eased afterwards. `MaxWord` is far above
every product, so saturation does not occur in it. About 66 000 states.

**Evidence.** Three windows, of one process or of two, so that a bundle can come
behind a later one, twice, behind a restart, and behind one that was fenced (which
takes two: one decided under the first grant, one fenced under the second); a grant for
each process, or two for the first; two generations, the first one configured, and
windows that report none; a window with and one without the optional class, and a
policy that requires it and one that does not. About 1.5 million states. That a
sequence number is absent is left to the proofs.

**Worker and store.** Two records per snapshot, three sessions of two cycles and
six states let each session append, check point and die at every step. A damaged
record and a removal that dies happen in the third session only: what follows
such a session is `durable_torn`. `durable_torn` has the store alone, two sessions
and five states. `worker_durable` reaches about 790 000 states.

`CHECK_DEADLOCK FALSE` stands in every configuration but `Decision_windows.cfg`,
because the bounded systems come to rest: no boots, sequence numbers or versions are
left, or everything has been shut down. `Decision` never rests, and there deadlock is checked.

### Fairness

`Coordinator!FairSpec` assumes weak fairness of `Serve(w)`, the thread of `w`'s open
connection, and of `Receive(w)`, the blocked call. Every connection has an
operating system thread of its own and `mutex_` is held for bounded work, so a
thread with a frame to handle eventually handles it; a reply in the socket is
eventually read. Nothing is assumed of connecting, calling, crashing, starting
or of the frames of dead connections. Liveness is the client's: a call that
waits returns, with its answer or with the end of its connection.

In `CoordinatorShutdown` each thread is weakly fair (`run()`, the stopper, each
connection's thread), because each is a thread of the operating system; sending
a reply is left out of it, since `send()` blocks while the client does not read,
and so is everything the clients and the owner do, and the failure of `accept()`.

`Decision!FairSpec` assumes that windows go on being decided, because the fabric
reports them periodically. It says nothing of which windows come, and fencing,
policies, retirement and restores are never certain. `CalmRetires` then says that when only
calm windows are left, under a policy that permits recovery and whose cap lets
the streak reach the dwell, nothing stays in force.

### Findings

1. `ControlOpcode::RevokeAll` advances the epoch without storing it: after a
   crash the coordinator grants the same epoch again (`coordinator_reuse`).
2. A decision is checked against the coordinator's epoch, not against its
   lease's. A heartbeat after an epoch advance makes a worker's decisions
   acceptable under an epoch its lease was never granted in (`coordinator_binding`).
3. Recovery continues in a journal with a damaged tail; what is committed behind
   the damage is lost to the next recovery, until the next checkpoint
   (`durable_torn`).
4. `synthesize()` does not read the verdict of `evaluate_recovery`: with the
   recovery policy enabled an intervention relaxes as soon as the classifier
   lets go, whatever `required_clean_windows` and the recovery bands say
   (`governor_recovery`).
5. After a restore `configure_policy` compares with the restored generation and
   not with the policy in use; an intervention issued in between survives the
   change without revalidation (`governor_policy`). It may then ask for more than the
   policy allows, and be eased after fewer calm windows than its dwell: what
   `WithinBounds` and `WeakensOnlyAfterCalm` of `Decision` except (`overlooked`).

What else was met while modelling. The models have these behaviours, and the
properties are stated so as to admit them:

* A journal that a checkpoint did not remove is never removed later and is
  replayed over every later snapshot (`durable.cpp` 297). This loses acknowledged states: a
  session dies between the rotation of its journal and the removal of the old
  one; the next session recovers, commits and checkpoints again; at the next
  start the journal of the first session is replayed over the newer snapshot, and what
  was acknowledged since is gone. `ARCHITECTURE.md` 119-121 says that a crash between the steps
  of a checkpoint loses nothing, which is so for the recovery that follows the crash and not
  for later ones. `DurableStore` has this behaviour: with `Faults = {"MissedRemoval"}`
  and `FaultySessions = {1}` TLC finds `AcknowledgedIsRecoverable` violated. No session
  follows such a death in `worker_durable` (`FaultySessions = {3}` is its last), and
  `AcknowledgedIsRecoverable`, `RecoveryNeverGoesBack` and the theorems on them are
  stated for that: nothing in this project says that the store survives it.
* A checkpoint that dies after its snapshot and before the rotation lets the older
  journal win over the newer snapshot. Nothing acknowledged is lost then, which is
  what `RecoveryNeverGoesBack` and `AcknowledgedIsRecoverable` say; that recovery
  is never older than the snapshot does not hold and is not promised.
* While an intervention is relaxed or held, its list of penalised senders is not
  looked at again: one that has become protected, contradictory or part of a
  clipped population stays on it. `PenalizesOnlyProvable` is about new decisions.
* An admission reduction of a whole destination may cut into protected demand,
  without escalation; only reductions of a set of senders keep it whole
  (`ProtectedDemandIsKept`), although `protected_floor_preserved` is set on each.
* After `retire()` or a fencing the history still ends in an incident, so a calm
  window that hysteresis holds issues a *new* intervention (the second alternative of
  `IssuedOnlyWhenCompressed`).
* A revalidating intervention is recomputed from a window that hysteresis holds,
  that is, from one the classifier does not trust (`governor.cpp` 588).
* A superseded worker is answered `LeaseMissing` (`coordinator.cpp` 905-915),
  which its client does not count as fenced: it goes on and commits, contrary to the comment
  in `incast_governor_worker.cpp` 213-215.
* A worker that dies between publishing and committing forgets the published
  decision, and its successor gives its intervention's identity to another one.
* A fenced evaluation records the sequences of its evidence but not its destination
  generation, which is recorded behind the early return (`governor.cpp` 673).
* `validate()` admits a cap on the clean streak below the dwell (`policy.cpp` 70):
  the dwell is then never met, and an intervention is never taken back. `CalmRetires`
  excepts such policies.
* The remark of `ARCHITECTURE.md` (93-94) that `run()` shuts sessions down outside
  the lock is not what the code does (it holds `sessions_mutex_`); `shutdown()`
  does not block, so nothing follows from it.

## 4. What is proved

All theorems are for every value of the constants that the assumptions of the
modules admit, unless a further assumption is named.

**Coordinator** (`CoordinatorProofs.tla`).

* `TypeCorrect`: `Spec => []TypeOK`. One lemma per helper (`FinishType`,
  `RevokingType`, ...), one case per handler and per call of a worker.
* `SingleHolder`: `Spec => []OnlyNewestLeaseLives`, all faults included. The
  property says more than that no destination has two live leases, so that it is
  inductive with the types: a new lease has the greatest number, and every grant
  that makes one has revoked the rest; everything else only revokes.
* `EpochsAreUnique` and `EpochsAreKnown`, under `Faults = {}`: epochs are never
  granted by two coordinator incarnations, and nobody knows one the coordinator
  has not reached. Neither is inductive. `EpochInv` strengthens them: while the
  coordinator runs its epoch *is* the ledger's; every epoch known to anyone,
  alive or dead, is at most the ledger's; and the epochs of earlier incarnations
  are strictly below the present one's. `EpochStep` abstracts what any step may
  do to epochs; each handler and each worker step is shown to be one, and one
  lemma shows that `EpochStep` preserves `EpochInv`. `coordinator_reuse` is the
  counterexample without the assumption.

**The lease authority** (`AuthorityProofs.tla`), with every fault.

* `SupersededLeaseDecidesNothing`: `Spec => NoDecisionFromSupersededLease`.
* `CoordinatorImplementsAuthority`: `Spec => ImplementsLeaseAuthority`, the
  refinement. Its initial states map to initial states; every handler maps to a
  grant, a revocation, an acceptance or a stutter, and everything else but a
  crash, which is a revocation, to a stutter.

  They rest on which identities are about: a boot names one process (`IdentityInv`),
  what has been accepted was published under a lease that is still in the table of this incarnation
  (`AcceptedInv`, with `SequenceInv` for its number), and a destination has one live lease
  (`TheLiveLease`, from `SingleHolder`), so that a handler changes the one holder or none.
* `LeasesAreLostForCause`: `Spec => LostOnlyToRivalOrSelf` under `MaxStarts <= 1`, for any number of
  destinations. While the first coordinator runs, clients, frames and
  replies name only leases of their own boot (`OwnInv`), so that a frame with an old epoch
  can cost nobody else a lease. A second start breaks `OwnInv`, as section 2 describes.

**Shutdown** (`CoordinatorShutdownProofs.tla`), for every set of clients and whatever
they send.

* `TypeCorrect`: `Spec => []TypeOK`.
* `NoThreadLeftBlocked`: `Spec => []NoSessionEscapesTheSweeps`. Inductive with
  three more facts: a connection is in one place (its client, the backlog,
  `run()`'s hand, its thread: `OnePlace`), a thread that runs is in the session
  list (`Listed`), and one thread at most is in `stop()` (`StopOnce`). The sweep
  of `run()` then covers every thread there is, and none is started after it.

**Governor** (`GovernorProofs.tla`), for every policy set, duration, table bound and
number of grants.

* The invariants `TypeCorrect`, `AtMostOneLive`, `EarlierBootsAreOver`,
  `RevalidationAlwaysFlagged`, `ShutdownIsComplete` and `LiveHasItsIncident` are
  inductive together with one fact that none of them states, `BoundSinceBoot`: the
  authority that is bound is one the running process was granted. Without it an
  evaluation could keep an intervention of an earlier boot. What happens to the
  table is said once (`Rewrites`: same interventions, none comes to life); every call
  but the ones that issue or trim is such a step.
* From that invariant follow the action properties `DwellComesFirst`,
  `OnlyTheOwnerEnforces` and `SettledStaysSettled`.
* `GovernorImplementsEnforcement`: `Spec => ImplementsEnforcement`, the refinement.
  The state of the live intervention is that of whichever entry of the table is alive,
  so the proof first says what a step that rewrites, replaces or moves that entry does to it
  (`LifeFollowsTheLive`, `LifeIsReplaced`, `LifeIsMoved`); this is where `AtMostOneLive`
  is needed, and where trimming could go wrong. The alarm is a fact about `classify()`
  (`KindIsAlarm`): a window counts as an incident if it is one in itself, or if the last one
  counted and the dwell is not over. Each outcome of an evaluation is then one action of
  `Enforcement`, and each other call another one. `DwellComesFirst` is what it says of
  weakening alone.

**Decisions** (`DecisionProofs.tla`), for every window, policy and history.

* `TypeCorrect`, `AlwaysWithinBounds`, `OnlyProvablePenalized` and
  `ExcessAlwaysAnswered`. What `synthesize()` returns for one window has these
  properties (`IntentIsSound`, `PenalizedIsProvable`, `RefusedForProtection`), a
  relaxation keeps the bounds (`RelaxedIsSound`), and the bounds and the types are inductive together.
  What is in force is in bounds unless a change of policy overlooked it (finding 5).
  `WithinBoundsUnlessRestored` says when that cannot be: if no state is restored and no
  two policies share a generation, `stated` is always that of the running policy, every
  change of policy sends what is in force to revalidation, and bounds hold without exception.
* `NothingIssuedWithoutCompression` and `NothingWeakenedTooSoon`. Their invariant
  (`Steady`) says that an intervention in force has a history that ends in an incident or
  the recovery from one, that a streak is within its cap, and that a recovery, unless
  overlooked, has lasted the dwell. Without the last an intervention could be
  relaxed on the first calm window. That is also why the exception is there: an
  overlooked recovery lasted the dwell of the policy before.
* `ReductionAlwaysNeeded` and `ProtectedDemandAlwaysKept`, the two that compare amounts.
  `Decided` is the invariant that connects them to the state: what was decided last is
  what `synthesize()` returned for the current window, policy and kind. The rest is
  arithmetic of one window: the quotient that is rounded up is the least that is enough
  (`NeededIsLeast`, with the saturated product), and a share of an amount is a part of it
  (`ShareIsPart`).
* What a window offers is a sum over its rows, however many there are. The library's
  induction theorems cannot be used with these provers, so induction is done with sets: a
  set of naturals that is not empty has a least element (`LeastExists`, from the
  library's theorem that `<` is well founded there), hence a set that holds 0 and each
  successor holds all (`Stepwise`). `SumsType` and `SumsOfParts` (disjoint parts offer no more
  than the whole) are proved that way, and so is that some queue is the worst one
  (`SomeQueueIsWorst`). All that is assumed of windows is that they are typed
  (`EvidenceAssumption`).
* `ProtectedDemandAlwaysKept` has a hypothesis, `DemandFits`: the demand of a window can be
  counted in a word. It is needed: when the sum saturates, the aggregate is less than its
  parts, and what is left of it after a reduction may be less than the protected part of it.
  A sum of rates does not come near 2^64, and the instance of `decision_windows` is far below.
* `DecisionImplementsEnforcement`: the decisions are those of `Enforcement` too, with the
  same argument about the alarm and, for an easing, that a relaxed intent never asks for more.

**The order of evidence** (`EvidenceProofs.tla`), for any classes, policies and deliveries.

* `EvidenceIsOrdered`, `NeverDeaf`, `GenerationsAreMonotone` and `TypeCorrect`. `Lineage` says
  what a state, in memory or saved, remembers of its history: each recorded sequence is
  the greatest its boot has shown and was shown by an evaluation, the generation
  likewise, and boots rise. Covering the history gives the order; being shown by it
  gives a refusal its cause. Every process starts with a lineage, because it takes it from the disk.

**The store** (`DurableStoreProofs.tla`), for every threshold and any number of sessions,
under `FaultsComeLast`: deaths inside a record and before a removal happen in the last
session only, and a removal never fails in a session that lives on. This is what
`worker_durable` checks too.

* `NothingAcknowledgedIsLost`, `RecoveryIsMonotone`, `JournalsAreAppendOnly`. The
  invariant says that there is one journal between calls and that a rotation adds an
  empty one (`OneJournal`), that journals hold whole records (`Whole`), and what
  recovery would read at each step of a commit. A damaged record breaks
  `Whole` and a missed removal `OneJournal`. Recovery still reads the same after them
  (`TornRecordReadsTheSame`, `RecoveryReadsLatest`), so the invariant of the proofs is that
  either holds: the regular one, or that no session is left and recovery reads
  what was acknowledged (`SInv`, with `AtTheEnd`). In a session that follows neither
  holds, and with reason: `durable_torn` is its counterexample.

**The worker** (`WorkerProcessProofs.tla`).

* `WorkerImplementsStore` and `WorkerImplementsAuthority`: the worker only takes steps of
  the store, and asks of the coordinator only steps of `LeaseAuthority`, whatever faults
  the store has. With `CoordinatorImplementsAuthority` this is what joins the three models.
  `WorkerLosesNothingAcknowledged` follows, under `FaultsComeLast`.
* `WorkerTypeCorrect`, `OnlyAnsweredIsDurable`, `OneDecisionLostPerSession` and
  `RestoredTakesOwnEvidence`, under `FaultsComeLast`. The invariant (`WInv`) follows a
  decision through the places where it can be: in a frame under way, in the
  governor in memory, among those accepted, and in the state that
  recovery would read; each was made in a session and a cycle that have begun. While a reply is
  awaited the state on disk is the one before; when a session is over, all it had
  accepted but the last is on disk.

Every safety property that a run expects to hold is stated by a theorem. Only
model-checked are `EveryCallReturns`, `StopEndsRun` and `CalmRetires`: liveness under
fairness is out of the prover's reach.

## 5. Not modelled

* The comparison of instants inside a bundle (freshness, horizon, clock skew):
  functions of the bundle alone, whose verdict is an input of `Evidence`. Which of
  several reasons a refusal names first.
* Sizes: the bound on an encoded state and the smaller one on a journal record
  (`durable.cpp` 275, 234). The encoding itself is formatting.
* Power loss: the models lose processes and not the file system's caches. Two
  processes on one state directory.
* The cost of a lease table that only grows; session ids, whose counter is
  incremented without the lock and which nothing reads; the threads that `run()`
  does not join after an accept error (modelled, but no document says what should
  hold).
* Sockets, framing and checksums beyond "a frame arrives whole or the connection
  breaks". Statistics, the observer, the control token.
* Explanation, synthetic evidence, the benchmark, the control and offline tools:
  they format or generate data and keep no state.
* `EpochTracker`, which has no caller, and the table of legal transitions, which
  the governor overrides wherever it applies it.

## 6. Plan

What a continuation would add, in this order:

1. The store in more sessions after a missed removal alone: which orders of journals
   keep what was acknowledged, as an invariant.
2. Sizes of states in `DurableStore`, so that a commit can fail for good while
   the process lives on.
3. A store that loses directory entries, and a second process in the state
   directory.
4. The safety parts of the liveness arguments as theorems: that a measure of the calls
   under way, and of the intervention under calm windows, never rises.
