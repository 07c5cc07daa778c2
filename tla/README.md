# Rota in TLA+

Rota is a work broker with fair scheduling and durable execution on one Raft log.
This directory holds TLA+ modules for the parts of it that decide whether work is
lost, done twice, starved or stuck, TLC configurations that check them on small
instances, and TLAPS proofs of the results that hold for every instance.
`PROJECT.json` maps each definition to the source lines it stands for.

File names are relative to `src/internal/` unless they say otherwise; `DESIGN.md`,
`README.md` and `docs/` are the repository's.

## The system and its parts

A write is a command: a leader method (`node/node.go`, `control.go`, `workflow.go`)
stamps it with the leader's clock, proposes it to Raft and waits; the FSM
(`fsm/fsm.go`, `apply_phase4.go`, `apply_workflow.go`) applies it on every replica as
one Pebble batch against the committed state. Reads go to the leader's store without
the log. So one command is one atomic step, and everything hard happens between a
read and the command built from it, or between a command and its answer.

| Part | State it keeps | Operations | Talks to |
|---|---|---|---|
| Message state machine | message, lease and group-metadata rows | publish, lease, ack, nack (retry, dead-letter, requeue), extend | timers, tokens, scheduler |
| Due-time index and sweep | rows (due, kind, ref, epoch) | the leader's sweep fires what is due | every handler that waits for time |
| Completion tokens | token -> lease | issue or register, complete | settles leases |
| Deduplication | (lane, key) -> message id, expiry | checked and recorded by publish, expired by a timer | publish |
| Dead-letter queue | dead-letter rows | filled by nack, lifetime cap, TTL; redrive, purge | message state machine, workflow bridge |
| Group lifecycle | group metadata | pause, resume, config, purge, idle reap, teardown | scheduler reads it |
| Fair scheduler | virtual time per group, policy, fault breaker; leader memory | pick, charge, set policy, quarantine | leases what it picked |
| Policy engine | compiled policies, stored bindings, the version each leader has loaded | validate, set, ensure, evaluate | scheduler |
| Publish batch | one Raft entry; metadata and keys of its own items | publish many | message state machine, deduplication |
| Workflow engine | runs, histories, done-markers, tasks, timers | start, append, complete activity, signal, cancel, continue-as-new | publishes tasks through the broker |
| Workflow workers | a leased task and the history read for it | poll, replay, decide, settle | engine, broker |
| Cron | cron records and due rows | schedule, pause, resume, delete, fire | sweep, publish |
| Singleton leases | holder, deadline, fence | acquire, renew, release | clients |
| Raft, snapshots, log store | the log and its Pebble store | apply, snapshot, restore | all |
| Lane gate | replicated limits; buckets and pauses in each node's memory | set limit, pause, resume, pass | lease calls |
| Principals | rows of tokens, tags and grants | create, rotate, disable, grant, revoke, list, bootstrap, authorise | every call and stream |
| Worker stream | lane, filters, credit and in-flight count of one stream | lease request, settlements, deliver | principals, gate, message state machine |
| Fairness projection and stream | a ring of served events, rolling counts, console connections | record, snapshot, nudge, emit | leases record into it |
| Other transport, HTTP, CLI, SDKs, meters | counters | decode and forward | all |

### What is hard, and what must be right

- **Leases, delays and their timers.** An ack, a nack, an extend, the visibility
  timer, the lifetime cap and a completion callback may all be on their way for one
  message. Whatever commits first must make the others harmless; a leased or
  delayed message must keep the one timer row that frees it; a delay or TTL must not
  end early; no accepted message may vanish or exist twice.
- **Ids that start again.** Message ids are per group and live in metadata that a reap
  or teardown deletes, while timer rows, leases and dead letters survive.
- **Counters kept by hand.** `READY`, `LEASED`, `DELAYED` and total counts are updated
  in every handler and saturate at zero; the scheduler and the reaper trust them.
- **Decisions against a moving history.** A workflow worker reads the run, then the
  history, then proposes; signals, timers, results and a second worker intervene.
- **Two deliveries of one activity**, late results, and the dead-letter bridge racing.
- **Failover around a cron fire**: the same slot proposed twice.
- **Mutual exclusion over a log**: a client's call times out, its request commits later.
- **A node and its log**: entries replayed after a restart, a crash in the middle of Restore,
  a snapshot written while Apply goes on, a log cut behind it.
- **Fairness while everything changes**: groups come and go, weights change, policies
  fault and are replaced; operators and lease calls install them without a common lock.
- **A batch that reads what it has not written yet**: its own items are in two maps, the rest
  of the world in the committed store.
- **Rights that change under a stream.** Frames are authorised one by one, the stream keeps what
  earlier frames asked for, grants are revoked by their place in a list read elsewhere, and a
  node behind the log decides whether there is any principal at all.
- **Leader memory in front of a replicated store**: limits, pauses, loaded versions and counts
  are read, compared and installed in separate steps, and outlive the time a node leads.

`PROJECT.json` lists each of these at its line under `hazards`.

## Modules

| Module | Models | Used by |
|---|---|---|
| `Broker` | message state machine, timers, tokens, dedup, DLQ, group lifecycle | `MCBroker`, `BrokerProofs` |
| `Workflow` | workflow engine and workers | `MCWorkflow`, `WorkflowProofs` |
| `Cron` | cron | `MCCron`, `CronProofs` |
| `Singleton` | singleton leases | `MCGateway`, `SingletonProofs` |
| `Scheduler` | fair scheduler and breaker of one lane | `PolicyInstall`, `PolicyProofs` |
| `Replica` | one node between the Raft log and its store | `MCReplica`, `ReplicaProofs` |
| `PublishBatch` | `Broker` with batches; extends it | `MCBatch`, `BatchProofs` |
| `Intake` | abstract: what a producer is promised | `PublishBatch` instantiates it |
| `PolicyInstall` | `Scheduler` with the way a policy reaches it; extends it | `MCPolicy`, `PolicyProofs` |
| `Observatory` | fairness projection and the console's stream | `MCPolicy`, `PolicyProofs` |
| `Auth` | principals, authorisation, the start of a node | `WorkStream` |
| `LaneGate` | limits and pauses | `WorkStream` |
| `WorkStream` | a worker's stream; composes `Auth` and `LaneGate` | `MCGateway`, `GatewayProofs` |

A definition whose name has the form `Operation_Variant`, marked "Mutant", is a plausible
bug in that operation; it is not part of any specification and is there to show that
the property it is paired with can fail.

### Broker

Rows are functions from keys to records, with a sentinel for "absent". `readyAt`,
`leaseDeadline`, `leaseMaxLife`, `msgExpiry` and `dedupExpiry` are the rows of the due-time
index by kind. One FSM command is one action. Two things are read by the leader before
it proposes and may be stale when the command is applied: the group the scheduler
chose (`picked`, between `Pick` and `Lease` or `LeaseEmpty`) and the group the reaper found
drained (`reapCmds`). `Complete` runs the whole of the ack or nack it leads to.
`FireX` actions model `sweepTimers` proposing a due row and `applyFireTimer` applying it;
a row that fires in vain is deleted by the action exactly where the code deletes it.
A payload is a number given to each accepted publish, so "lost" and "forked" can be
stated although keys are reused. The lane a workflow uses is `Workflow`'s business.

### Workflow

A worker is a small automaton: leased, run loaded, history replayed, proposed, settle.
Between any two steps everything else may happen. A proposal whose worker gave up or
died stays in `proposals` and may still commit. Every decision records which events its
worker had replayed (`saw`). From the broker it keeps what the engine needs: publish to
the next id of a queue (`TaskPublished`, `DispatchActivities`, with the id taken from
committed metadata as `publishReady` does), lease the lowest ready message, ack, requeue,
dead-letter. Delays are left out: an armed timer may fire at any later step. Whether a
lease owns its message is `LeaseOwnsMessage` of `Broker`.

### Cron

`Sweep` reads the due rows, `ProposeFire` proposes for one of them and waits, `ApplyFire`
is the FSM's half. Entries queue in `log`; `LeaderChange` keeps any prefix of it. A
schedule is a period, and `Following` stands for the cron library's next instant.

### Singleton

Clients, the requests on their way, the stamped entries of the log, and `applySingleton`.
A client counts its lease from the moment it called. `skew` is the largest error of a
leader's clock, fixed in each behaviour, so one run covers clocks that agree and
clocks that do not.

### Scheduler

The state of one lane under the scheduler's lock. Virtual time is an integer in units in which
every charge 1/weight is whole. Policies are told apart by how they rank: by virtual
time, mostly by weight, or at will (lottery, CEL, WASM), the last kind possibly faulting.
`Arrive`, `Leave` and `SetWeight` are what the rest of the system does to the candidates.

### Replica

One node: `Apply` against the log, `Snapshot` and `Persist`, the cut of the log, `InstallSnapshot`,
`Restore` in batches and `Open`, each durable write a step of its own and `Stop` possible between any
two. The application keyspace is abstracted to how often the effect of each command is in it,
which is what "exactly once" is about; which commands a handler rejects is part of the log,
since every node sees the same state. The consensus library's half (feeding, saving the
snapshot, restoring the newest one at start, sending one to a node that is behind) is
modelled from how `node.go` and `raftpebble/store.go` use it.

`SeedAccepted` is a precondition: a command is accepted before any is rejected. Without it a
snapshot may lack `applied_index`, `Restore` then keeps the index it has in memory
(fsm.go:835), and a node that restarts skips what the log replays. It takes a log that starts
with rejected commands and a snapshot before the first accepted one.

### PublishBatch and Intake

`applyPublishBatch` is a loop, so it is one here: an item is a duplicate (`ItemDuplicate`), is
published (`ItemPublished`) or ends an atomic batch (`ItemAborts`), and `BatchCommit` makes all of
it visible. `cache` and `batchDedup` are the handler's two maps; `b` is the Pebble batch. Reads are of
the committed rows, as in the code, which is why the maps are there. `BatchCrash` throws the memory
away and the log gives the entry again. No other action runs between two items: commands are
applied one at a time, and a leader's read in between sees what one before the batch saw.

The handler's `batchDedup` maps a key to the id its answer repeats. Nothing but the answer reads the id,
so the model keeps the set of keys. `KeyAssumption` says that a publish without a key is no key of a lane.

`Intake` says what a producer may rely on, without rows, ids, leases or timers: queues to which a
call is appended at once and in order, each key once while it is remembered, and from which messages
leave without changing the order of the rest. A queue there is an order, the set of pairs <<a, b>> in which b is a
or stands behind it: appending adds pairs and leaving removes some, so neither the run nor the proof walks a
sequence. `Producer == INSTANCE Intake WITH ...` maps the batch in progress to the call, the bodies of a
group's rows in id order to its queue, and the keys whose window is open to the remembered ones;
`AcceptsAsOne` is `Producer!Spec` as a property of the broker with all its leases, requeues, reaps and sweeps.
A redrive gives a message a new id and so moves it to the end, and after a teardown ids start again while rows
remain: with either the property does not hold, and the run and the theorem exclude both.

### PolicyInstall

`Node.SetPolicy` is five steps (`SetBegin`, `SetCommit` or `SetFails`, `SetInstall`, `SetRecord`) and
`ensurePolicy` two (`EnsureRead`, then `EnsureInstall` or `EnsureLoaded`), because neither holds
a lock from its read to its install. Bindings are entries of one log of which each node has applied a prefix;
proposals of a leader that steps down may still commit, in any order, and the next leader applies them later: a
lease call does not wait for them.

Nothing resets a node's memory when it steps down (node.go:71, 166-169), so neither does the model. `Scheduler`'s
variables and `loaded` are the leader's; `memory` holds what the other nodes keep, and `Failover(n, restarted)`
gives the lead to any node, with the memory it kept or, after a restart, with that of `Open`. Calls past their
proposal outlast the tenure: each of their steps touches the memory of their node only, so it is taken before
the node stepped down or when it leads again, possibly after a policy was set elsewhere. A lease call
that passed the leader check and had not yet read the store when its node stepped down is left out.

`NewLeaderPicksUp` is what node.go:541-543 claims ("makes a freshly-elected leader pick up policies set while it
was a follower"), for a node that leads for the first time and for one that comes back with an older policy and
its version in memory. The code keeps it under four conditions, and TLC breaks it when any one of them is
dropped: no SetPolicy has begun on this leader or reached its store since it took over, and no call of its earlier
time as leader is left (`calm`); its last install did not come between the install and the record of another SetPolicy
(`torn`); and the stored version was never given to another policy (`OneName`). `torn` and `OneName` outlive
the tenure, because the memory does.

### Observatory

`record` and `snapshot` are atomic under the projection's lock; a frame is two snapshots
(`EmitSnapshot`, `EmitFrame`), and serves fall between them. The channel of one nudge per
subscriber is a Boolean. A served event is known by its number in the order of service, and a ribbon is the
function from the numbers of a lane's latest events to their groups.

### Auth

The log of principal commands and each node's applied prefix of it, so that nodes lag. A call
authorises on the rows of the node it reaches (`Call`, `CallRevoke`) and is proposed in a later
step; a proposal answered with an error may still commit (`CallFails`). `Open`, `Boot`, `Bootstrap`, `Serve` and
`Exit` are cmdServe: the leader creates root when *its own* rows hold no principal, everyone else
waits, which is what the repository's README.md:186 says ("followers wait for replicated auth state
before serving"). A pattern is the set of names it matches, any set, as `validateGrants` takes any regular
expression. The empty name is among the names: a request that leaves out its lane or its groups is checked with it.

### LaneGate and WorkStream

`ensureLaneConfig` is two steps, its read of the store and its install under the lock; `PassGate`
is the rest of `laneGate`. A stream is the reader, which authorises frames and queues them, and the
loop: `TakeLeaseRequest`, `TakeSettlement` or `Ticker`, then `Begin`, `Ensure`, `Gate` and `Lease` as
long as there is credit. What a settlement does to a message beyond freeing or removing it is
`Broker`'s. A worker may settle any lease, once or repeatedly, whether it holds it or not, and the loop gives a
credit back for it as the code does. `held`, `stray` and `cleared` are history: the leases the worker was sent, those it
settled without holding them, and the (lane, group) pairs, empty names included, that its token could consume when a
lease request of the stream was authorised.

`StreamWithinGrants` has two halves. Whatever the patterns, each message sent lies in a lane and group for which a
check passed that names both, or names one and has the other empty. A pattern that is anchored around the empty
name (`^$`, `^b?$`, `^[a-z]*$`) passes such a check without matching what is then leased. If no such grant was ever
given (`OnlyOpen`), the token could consume the two by name. TLC breaks the second half without `OnlyOpen`, and the
first without either of the two forms that leave a name out.

## Runs

All runs set `CHECK_DEADLOCK FALSE`: every counter and clock is bounded, so behaviours
end at the bound, and an idle broker really has nothing to do.

`MCBroker`, `MCWorkflow`, `MCPolicy` and `MCGateway` give each behaviour a *family*, chosen initially
and constant, which restricts the features or the components it uses. One run then covers several
combinations without paying for their product. The specification's own actions are
taken unchanged; a family only excludes successor states. Two families of `MCGateway` start in
the middle: `stream` on a leader whose log holds the administrator's and the worker's principals, `gate` with two streams
that have credit; both are states a serving cluster reaches.

| Run | Checks | Bounds and why they are enough |
|---|---|---|
| `broker` | `LeaseOwnsMessage`, `NoMessageLost`, `NoMessageForked`, `TtlHonest`, `DelayServed` | two publishes and a redrive (ids up to 3), three leases, time up to 3 with delays and up to 4 with caps. Retry with backoff, extend, expiry and a second delivery of the same message all fit; two messages suffice for a mix-up of rows. Teardown and reap are excluded here: with them `NoMessageLost` fails (next section) |
| `broker_rows` | `LeasedReclaimable`, `DelayedWakes`, `TokenNeverDangles`, `DedupWindowHeld` | every operation with teardown and reap, so ids are reused; one producer token, one key, two groups for the key |
| `batch` | `CountersExact`, `AcceptsAsOne`, `WaitsEnd` | batches of two items over two groups and one key, so both a group and a key are repeated; one crash; one lease, two publishes in all, the idle reaper, time up to 3; fair sweep |
| `wf` | eight properties of `Workflow` | two workers, one fault; single commands up to five events and four tasks, decisions of several commands up to seven, continue-as-new with two runs of up to four events each. Two workers are the smallest number that can race; a fault may be a crash, a rejection, a lost answer or an early timeout |
| `wf_live` | `EventsDecided` | one run, two workers, one fault; fair workers |
| `cron` | `ArmedHasRow`, `OncePerSlotOneLeader`, `FiredOnTime`, `SlotServed` | one cron (crons do not interact), two periods, two leaders, two entries in flight |
| `policy` | `WaitBounded`, `QuarantineJustified`, `NewLeaderPicksUp`, `ViewerCatchesUp` | *rank*: two groups, two weights, every kind of policy, a consumer that filters, threshold 2. *install*: two operators and two lease calls, two versions, three calls in progress at once, two kinds of policy, a log of two entries, two nodes that lead any number of times, back again with old memory or restarted; weights and ready groups fixed once anything has happened, picks and faults where calls come one by one. Two of each call is what a race takes, and two entries what a version shared by two policies takes. *observe*: a ring of three for two lanes, a ribbon of two and five serves, so both wrap |
| `gateway` | `RotationSticks`, `RevokesNamed` | *auth*: two nodes, one administrator, three entries: bootstrap, a rotation and a second bootstrap of a node that lags, or two grants and a revoke |
| | `StreamWithinGrants`, `CreditBounds` | *stream*: two lanes, two groups, four grants, one of them anchored, three principals to start from, five kinds of request with lanes and filters left out, two leases. Either the principal changes once, by a revoke or a grant, or leases end, the worker settles one it does not hold and the leadership moves |
| | `PauseDrains`, `LimitTakesHold` | *gate*: two streams and one operator, pauses with and without an end, a limit set and lifted, two ticks |
| | `MutualExclusion`, `FenceOutranks` | *lock*: two clients, two requests in flight, three instants, clock error 0 or 1 |
| `replica` | `ExactlyOnce`, `Recoverable`, `CatchesUp` | every log of four entries, one entry kept behind a snapshot, two crashes. Two snapshots, a restore cut off and begun again, and entries after it all fit |

Each module states its type invariant. Those of `Broker` (with and without batches), `Workflow`, `Cron`, `Singleton`,
`Scheduler`, `PolicyInstall` and `Replica` are theorems; the others are there for the reader and hold in the runs of their modules, which spend
their properties on what could go wrong.

Two kinds of condition in properties deserve a word. `OncePerSlotOneLeader` and
`FiredOnTime` ask for `tidy`: operators arm a cron only when it is not armed and nothing
about it is in flight; and for one leader. Both conditions are needed, see below.
`MutualExclusion` is about clocks that agree and one TTL in use; `FenceOutranks` is not. `NewLeaderPicksUp`
has the four conditions given under PolicyInstall; `CreditBounds` bounds the in-flight count for every worker and the
live leases for one that settled only leases it held; `StreamWithinGrants` asks for the check by both names only if
every grant is open. `RevokesNamed` speaks of a revoke with no other revoke
of the principal in between, and `LimitTakesHold` of the time after the last call that read the
old limit: without these, the races listed below break them.

### Where the code and its documentation disagree

Three runs are expected to end in a violation. Each checks a sentence of the repository.

- `teardown_lost`: DESIGN.md:284 "we never lose an accepted message". `TeardownGroup`
  deletes metadata and leaves leases, ids start at 1 again, and the ack of an old lease
  deletes the message that took its key.
- `wf_fan_out`: apply_workflow.go:133-135 "no orphaned event, no lost task". Two activities
  of one type in one decision get the same message id, since `publishReady` reads committed
  metadata inside a batch; one task is overwritten and its activity never ends.
- `cron_failover`: DESIGN.md:451 "A single message is published per scheduled instant". A
  second fire of one slot finds the row of the *next* slot and fires that one early; the
  fence row `cfence` the design describes is not in the code.

Others met while modelling, which the models follow the code in and no run carries:

- the activity worker built into the node ignores the error of `CompleteActivityTask` and acks the
  task all the same, so a failed proposal loses the result and the task with it
  (node/workflow.go:381; 367-368 "records the result (idempotently, by scheduled_event_id)").
  `AckUnrecorded` = TRUE models that worker, and `ActivityNotLost` fails with it;
  FALSE models `RespondActivityTask` (transport/workflow.go:147), which `wf` checks;
- a nack after a teardown leaves a READY message in a group without metadata, which
  `ListGroups` does not offer (DESIGN.md:19 "can never be invisible"); fsm.go:506;
- the READY_AT row of a dropped message wakes the message that reuses its id
  (apply_phase4.go:184 calls such rows harmless); apply_phase4.go:183;
- the TTL row of a dropped or settled message dead-letters the message that reuses its id after a reap,
  before its time (fsm.go:672); and a dead letter is keyed by group, millisecond and id
  (storage/keys.go:167), so one of a reused id in the same millisecond overwrites the older one;
- a producer token used again lets the late completion of the first submission settle the
  second lease (DESIGN.md:475 says it is rejected; apply_phase4.go:338 concedes it);
- DESIGN.md:473 says tokens go with a purge or teardown; neither touches token rows;
- DESIGN.md:183 calls message ids monotonic; they restart after a reap or teardown;
- DESIGN.md:517 describes a re-lease when a stream is cancelled; the code waits for the timeout;
- a workflow task dead-lettered by the lifetime cap leaves its run without a task: the
  bridge is for `__act/` lanes only (README.md:146 "can never silently wedge"); fsm.go:750.
  `NeverWedged` makes an exception for it;
- a second task of a run is leased while the first is out, since `headReady` skips leased
  messages (apply_workflow.go:18-20 "at most one workflow task in flight per run"); the
  version fence makes this harmless, which is `DecisionSawHistory`;
- scheduling a cron again leaves its old row, which fires the new slot early and again
  (docs/tutorial/04-reliability-and-scheduling.md:201-203); hence `tidy`;
- a group that returns keeps its old virtual time and may take many turns in a row
  (docs/tutorial/03-fairness-and-policies.md:20 "round-robin"); `WaitBounded` says how many;
- a late acquire or renew of one holder with a shorter TTL cuts the record's deadline below
  what the client counts on (apply_phase4.go:385, 392); hence one TTL in `MutualExclusion`;
- DESIGN.md:397 records quarantine in FSM config; it is in the leader's memory;
- SetPolicy and ensurePolicy (node.go:501, 545) share no lock: a lease call that read the
  old binding may install it after the setter's install and before the setter records the new
  version, and two sets may get one version. The leader then runs one policy and takes the
  store's for loaded (node.go:541-543 "when the stored version differs from what this node currently has
  loaded" takes the record for the fact). Stepping down and coming back does not cure it, since memory and recorded
  version stay; the next SetPolicy or a restart of the node does, and so does a leader that never had it. A node that
  led when one of two policies of one version was set keeps it when it leads again, although the store has the other;
- a lease request without groups, or without a lane, is authorised with the empty name (transport/auth.go:129), and
  then leases from every group, or from the lane of an earlier request. A grant for `^h?$` or `^[a-z]*$` passes that check
  and so lets a worker be sent messages of groups it does not match, which a check by name would have refused;
- a settlement of a lease the worker does not hold, or a repeated one, gives a credit back (transport/broker.go:178-205),
  so such a worker may hold more than its credit (DESIGN.md:505 "strictly serial" for a credit of 1); hence `stray`;
- a pause is the memory of the node that led when PauseLane came; ResumeLane on a later leader
  does not lift it, and the lane is paused again when the first node leads (node/control.go:285);
- a stream tells its worker of a pause by comparing with the last lane it looked at, so a worker that
  changes lanes is told of a flip that did not happen (transport/broker.go:216);
- a lease that expires, or is completed by token outside the stream, keeps its credit: a worker of
  credit 1 waits until it settles the lease in the stream (transport/broker.go:177-212);
- a leader that boots while behind the log proposes root again; the entry is refused, as it must be
  (`RotationSticks`), but serve exits with that error (node/auth.go:55, cmd/rota/main.go:151);
- two administrators that revoke by index on one list: the second takes another grant than the one
  it saw, or none (fsm/apply_auth.go:119);
- the ring of served events is shared by all lanes; a lane's streams are not told when another lane
  evicts their events, and the shares of a frame come from a later snapshot than its ribbon
  (node/fairness.go:78, httpapi/fairness.go:129);
- a best-effort batch goes on after an item whose row cannot be encoded with that item's counters
  kept in its map (fsm.go:300-315); no request is known to reach it;
- the TTL timer is consumed while its message is leased (fsm.go:188-190), so a requeued
  message outlives its TTL.

## Fairness

- `PublishBatch.BatchFairSpec`: `chronosLoop` (node.go:573) runs every 25 ms on the leader and proposes every
  due row; the state machine finishes the entry it applies (weak fairness of the loop and the
  commit). `Tick` and `SweepNext` are strongly fair because they are disabled while a batch is applied:
  the sweep proposes again on every tick, Raft applies in log order, so no number of batches
  keeps a fire out for ever. Workers, producers and operators owe nothing: `WaitsEnd` holds with
  workers that never answer. The sweep's limit of 256 rows is not modelled.
- `Workflow.FairSpec`: each worker's own loop (`RunWorkflowWorker`), the application of a
  proposed entry, and the visibility timer of a lease. Faults are bounded and owe nothing.
- `Replica.FairSpec`: the library's feed, a restore that has begun, and the start of a process that
  stopped (an operator or a supervisor). Snapshots, log cuts and commits owe nothing, and
  crashes are bounded: a node that crashed for ever in `Restore` would never catch up.
- `Cron.FairSpec`: the ticker, and the leader's sweep, proposals and the log's application.

`MCBatch` has no families and the family used with fairness in `MCWorkflow` (`any`) excludes no step, so
no fair action is cut off by a bound of the MC module. `MCPolicy` and `MCGateway` state no fairness.

## Proofs

TLAPS checks eight modules, for every value of the constants that satisfies the named assumptions of the modules
proved about: `BrokerProofs`, `BatchProofs` (about `PublishBatch`, on top of `BrokerProofs`), `PolicyProofs` (about
`Scheduler`, `PolicyInstall` and `Observatory`), `GatewayProofs` (about `Auth`, `LaneGate` and `WorkStream`), `ReplicaProofs`,
`SingletonProofs`, `CronProofs` and `WorkflowProofs`. The assumptions say that bounds and clocks are naturals,
sentinels differ from values, the visibility timeout, the dedup window and the backoff are positive, a
weight's cost divides the unit, and the enumerated inputs are of their types. TLC evaluates them in the runs.
Every safety property that a passing run checks, and the refinement, is a theorem. Beyond them are the type
invariants, `FairUnderInstallation`, `CountsAreRolling`, and the broker's own properties proved again for the
broker with batches.

| Theorem | Property | Argument |
|---|---|---|
| `BrokerProofs!TypeCorrect` | `TypeOK` | one lemma per action |
| `LeasedMessagesReclaimable` | `LeasedReclaimable` | from `TimersHeld` |
| `DelayedMessagesWake` | `DelayedWakes` | from `TimersHeld` |
| `TokensNeverDangle` | `TokenNeverDangles` | `TokensHeld`: with every live lease below the counter, a new lease cannot take a row a token names |
| `DedupWindowAlwaysHeld` | `DedupWindowHeld` | inductive as it stands; the case that matters is a late expiry timer of a renewed key |
| `CountersStayExact` | `CountersExact`, if `NoTeardown` | `QueueInv` |
| `LeasesOwnTheirMessages` | `LeaseOwnsMessage`, if `NoTeardown` | `QueueInv` |
| `NeverForked` | `NoMessageForked`, if `NoTeardown` | `ForkInv`: queue, dead letters and acked payloads are apart, and every payload was accepted |
| `NothingLost` | `NoMessageLost`, if `NoReuse` | `IdInv` |
| `TtlStaysHonest` | `TtlHonest`, if `NoReuse` | `IdInv`: a time-to-live row holds the time of the message of its key |
| `DelaysAreServed` | `DelayServed` (action), if `NoReuse` | `IdInv`: a ready-at row of the epoch of a delayed message holds its time |
| `PolicyProofs!TypeCorrect` | `TypeOK` | with `BreakerOpen`: below the threshold unless quarantined |
| `NoGroupStarves` | `WaitBounded` | `TurnsPaid`: each turn taken ahead of a waiting group raised the taker's virtual time by at least one |
| `QuarantineIsEarned` | `QuarantineJustified` | `FaultsCounted`: the counter counts the newest faults, all inside the window |
| `InstallTypeCorrect` | `InstallTypeOK` | with `CallsOK`: the binding each call holds, and that the log has it |
| `NewLeaderPicksUpAlways` | `NewLeaderPicksUp` | `RecordOK` of every node, leader or not, and `CalmOK` of the leader; below |
| `FairUnderInstallation` | both of `Scheduler`'s, for `InstallSpec` | each step of installing is a step of the lane, or leaves it alone; what a node keeps is a lane state (`MemoryOK`), so a takeover goes on from one |
| `NoNudgeLost` | `ViewerCatchesUp` | `ObsInv`: the latest events of a lane grow by its serves only, and each serve nudges every stream of its lane |
| `CountsAreRolling` | `CountsMatchRing` | with `RingOK`: the slot about to be overwritten holds the oldest event, so what the counts lose is what the ring loses |
| `BatchLoopHeld` | `BatchInv` | the broker as the batch will commit it is well formed, and ahead of the committed one by at most the items so far |
| `BatchTypeCorrect`, `BatchTimersHeld`, `BatchTokensNeverDangle`, `BatchDedupWindowHeld` | the broker's, for `BatchSpec` | the invariant of both brokers at once, below |
| `BatchCountersExact`, `BatchLeasesOwnTheirMessages`, `BatchNeverForks` | `CountersExact`, `LeaseOwnsMessage`, `NoMessageForked`, if `NoTeardown` | the same with `QueueInv`, `ForkInv` |
| `BatchOverwritesNothing` | `NothingOverwritten`, if `NoTeardown` | with `QueueInv` of both brokers: the next id of the metadata map is ahead of every row, written or committed |
| `BatchLosesNothing`, `BatchTtlStaysHonest`, `BatchDelaysAreServed` | `NoMessageLost`, `TtlHonest`, `DelayServed` (action), if `NoReuse` | the same with `IdInv`; a commit touches no message that waits (`NothingOverwritten`) |
| `BatchesAreAccepted` | `AcceptsAsOne` (refinement), if `NoTeardown` and no redrives | `AcceptInv`: after each item the batch holds what `Intake` will have appended |
| `ReplicaProofs!TypeCorrect` | `TypeOK` | from `IndInv` |
| `AppliedExactlyOnce` | `ExactlyOnce`, for logs with `SeedAccepted` | from `IndInv`; the accepted command after a quiet stretch (`ExactGrows`) |
| `AlwaysRecoverable` | `Recoverable` | from `IndInv`; snapshots, on disk or in the making, are faithful |
| `SingletonProofs!TypeCorrect` | `TypeOK` | from `FenceInv` |
| `FencesOutrank` | `FenceOutranks` | `FenceInv`: a fence goes to one client, and a pending release names a fence its client no longer has |
| `MutualExclusionHolds` | `MutualExclusion`, if `OneTtl` | `MutexInv`: what a client counts on ends before the record's deadline |
| `CronProofs!TypeCorrect` | `TypeOK` | with the entries of the log |
| `ScheduleNeverDies` | `ArmedHasRow` | inductive with the types |
| `PublishedOnce`, `NeverEarly` | `OncePerSlotOneLeader`, `FiredOnTime` | `CalmInv`: while operators are tidy and the first leader is in office, rows, the batch being fired, the log and what was published agree on one slot per cron |
| `WorkflowProofs!TypeCorrect` | `TypeOK` | with the owners of proposals and fresh run ids |
| `NoGaps`, `HistoryIsFinal` | `HistoryGapFree`, `HistoryFinal` (action) | `GapInv`: a run's rows are those up to its sequence number |
| `DecisionsSawTheirHistory` | `DecisionSawHistory` | `SawInv`: what a worker read at an epoch is the whole history as long as the epoch stands |
| `OneAnswerEach` | `AnsweredOnce` | `AnswerInv`: an answer leaves its done-marker or takes its timer row |
| `SleepsAreKept` | `TimerNotLost` | `SleepInv` |
| `NoRunWedges` | `NeverWedged` | `WedgeInv`: a pending run is attended by a task, or by a worker that will see the run has moved on |
| `OneSuccessorEach` | `OneSuccessor`, if `ContinueCloses` | `HandInv`: a run with a successor is closed |
| `ActivitiesAreKept` | `ActivityNotLost`, if `OneOfEachType` and not `AckUnrecorded` | `CarryInv`: messages have ids below the next one |
| `RotationIsFinal` | `RotationSticks` | `TokenInv`: minted tokens are apart, and every row is minted by the log |
| `RevokesWhatWasListed` | `RevokesNamed` | `GrantInv`: one history of the rows, of which each node and each call has seen a prefix |
| `LimitHolds` | `LimitTakesHold` | `LimitInv` |
| `PauseHolds` | `PauseDrains` | `PauseInv`: one lease at most was past the gate |
| `CreditIsKept` | `CreditBounds` | `CreditInv`: the in-flight count is within the credit, and with no stray settlement what is held and not on its way back is at most that count |
| `WorkStaysWithinGrants` | `StreamWithinGrants` | `GrantedInv`: queued requests and the loop's lane and filters are covered by what was cleared, and while every grant given is open, so is every grant in a row (`RowsOpen`) |

Some theorems have a hypothesis on the constants. Each one is the configuration of the run that checks the
property, or weaker, and each one is needed:

- `NoTeardown`: no operator tears a group down. `teardown_lost` shows a message lost without it; by the same way a
  lease comes to name another message, and the counters lose rows. Reaping is allowed: it deletes a group with
  counters at zero, and exact counters make that an empty group.
- `NoReuse`: groups are not reaped either, by the reaper (`IdleReapMs` = 0, the default) or by an operator.
  Message ids restart after a reap, and a row that outlives its message (a time-to-live row, a ready-at row
  of a dropped message, a dead letter of the same millisecond) meets another message of its key. TLC breaks
  each of the three properties as soon as `broker` may reap.
- No redrives in `BatchesAreAccepted`: a redrive brings an accepted message back behind newer ones, which is neither
  accepting nor leaving, and a queue that keeps its order is what `Intake` promises.
- `OneTtl`: all calls ask for one TTL; see above for the late call with a shorter one.
- `ContinueCloses`: no complete or fail follows a continue-as-new in one decision. The tutorial asks it of deciders;
  the server does not check it, and the run would then be closed otherwise than by handing over.
- `OneOfEachType`, and not `AckUnrecorded`: `wf_fan_out` shows the activity lost without the first, and the built-in
  activity worker loses one without the second.

`IndInv` of `ReplicaProofs` says what each phase owes the next: while the node serves, the index in
memory is the one on disk and covers what it was fed; in `Restore`, the rows are the batches
committed so far and no older snapshot still in the making can replace the one that is
being loaded; a stopped process has no memory; and every snapshot is the state at its index.
`SeedAccepted` enters once, where a snapshot is taken: it must hold `applied_index`.

`NewLeaderPicksUpAlways` needs an invariant of every node, because a node is back with what it kept. `RecordOn(n)` says
of a node that is not torn: an install that is not recorded yet is of the policy in force there, and if there is none, some
entry of the log has both the recorded version and the policy in force. `CalmOK` says of a calm leader that no SetPolicy is on
its way there, that each of its lease calls read the stored binding, and that once one is through `ensurePolicy` the recorded
version is the stored one. The two meet in `OneName`: the entry that has the recorded version has the stored policy.

`TimersHeld` joins the two timer invariants per message, because a requeue moves a message
from one to the other in one step, and keeps for a leased message which lease and epoch
its deadline row has. The action lemmas show for each handler that the rows of *other*
messages survive (`DelOther`, `AddOther`, `Frame`) and that its own row is replaced by the
right one. It holds with teardown and id reuse, which is not obvious: an old lease may
name a key that now belongs to another message.

`QueueInv` (types, exact counters, no row above the next id, `LeaseOwnsMessage`) has to be proved as one. A
reap trusts the counters, so ids are reused safely only while the counters are exact; and the
counters an ack or a nack changes are right only while the lease still owns the message it names. Its proof
does not go handler by handler: `StepMoves` shows that a step without teardown is one of six moves (a message
arrives, turns from one state to another, leaves; a purge; a reap; or the messages rest), with what it
does to counters, leases, ledgers and rows. Each invariant of the queue then has one lemma per move.

`BatchProofs` uses one idea twice. A batch writes into a private copy, so there are two brokers: the committed one, and the
one that would be there if the batch were committed now. The second is `Applied == INSTANCE BrokerProofs WITH ...`, with
the Pebble batch and the metadata map substituted for the rows. `StepKinds` shows that a step of `BatchNext` is a step of the
committed broker with no batch under way, or the start, a crash, an abort or the commit, after which the two
brokers agree (`Settled`), or an item, which is a `Publish` of the second broker or nothing to it. Every step lemma of
`BrokerProofs` then holds of the second broker by instantiation, and an invariant of both is inductive. `LoopInv`
keeps what this needs: the bounds that `Room` checked when the batch began still leave room for the items to
come, and a key is remembered by the second broker exactly if it is by the first or is in `batchDedup`. The last
conjunct is why the code's two lookups, in the committed rows and in the map, make an item a `Publish` that the second
broker would accept; with the second lookup dropped (`InBatch_Unchecked`) the refinement fails.

The refinement goes by the two halves of `Intake`. `AcceptInv` says, of a batch after some of its items, that the messages
written are those that `Intake` calls fresh among them, numbered as `Intake` numbers them, and stand in each group
behind what waits there in the order of the call. So the commit is `EndCall`, an abort is an `EndCall` that appends
nothing, and items and crashes are stutters. For the commands outside batches, `StepSorts` of `BrokerProofs` says which
messages arrive and which leave: a publish is `AcceptOne`, a step in which the messages that stay keep key and body
is `Depart`, and the passing of time and the expiry of keys are `Forget`. It rests on `ForkInv`, since a queue of
payloads is an order only if no payload is in it twice. An earlier form of the model marked an absent key of `batchDedup`
by id 0, and the attempt to prove `AcceptInv` showed that this is inexact for a message of id 0; the set of keys has no such case.

Model-checked only: liveness (`WaitsEnd`, `EventsDecided`, `SlotServed`, `CatchesUp`), which is beyond this prover.
Not theorems of their own are the type invariants of `Observatory`, `Auth`, `LaneGate` and `WorkStream`, of which the proofs
carry the parts they need inside their inductive invariants (the sum in `Observatory`'s frames is a recursion
over a set, whose type would take an induction).

## Not modelled

Raft itself (external; commands apply one at a time in log order, and lost or late
proposals are modelled where clients see them), writes of the store that fail with an I/O error,
the CEL and WASM engines (a policy of theirs picks at will or faults), the crontab parser, hashing and
TLS, the HTTP handlers but for the fairness stream, meters and exported metrics, the console's code, the
SDKs, and of the generated code everything but the shapes of messages. The command-line tools are
process and file I/O: `rota backup` copies a stopped node's files (it does not check the error of the
final close, and a forced restore writes over what is there without removing the rest), `doctor` reads,
`bench` and `soak` generate load. None of them has state that interleaves with the system's, so
there is nothing for TLC to explore. The sweep's limit of 256 rows would need 256 orphan rows.
`PROJECT.json` gives the reason for each part under `components`.

## Plan

Done: `Broker`, `Workflow`, `Cron`, `Singleton`, `Scheduler`, `Replica`; then `PublishBatch` with its
abstract specification `Intake`, `PolicyInstall`, `Observatory`, `Auth`, `LaneGate` and `WorkStream`; and the proofs above,
which cover every safety property of the runs and the refinement.

What could follow: a liveness argument on paper beside the runs that check it; the type invariants named above as
theorems of their own; the three hazards that `PROJECT.json` lists without a property.
