------------------------------ MODULE Workflow ------------------------------
(***************************************************************************)
(* Durable execution: workflow runs, their event histories, the tasks that *)
(* drive them and the workers that answer (internal/fsm/apply_workflow.go, *)
(* internal/node/workflow.go, internal/transport/workflow.go).             *)
(*                                                                         *)
(* An FSM command is one action.  A worker's decision is not: it leases a  *)
(* task, reads the run, reads the history, passes the leader's gate,       *)
(* waits for its proposal to commit and settles the lease, and everything  *)
(* else may happen between two of these steps.  A proposal whose answer    *)
(* the worker gave up on may still commit later.                           *)
(*                                                                         *)
(* Task messages live on the broker.  What is kept of it here is what      *)
(* publishReady, the lease and the settle commands do to them; that a live *)
(* lease owns its message is LeaseOwnsMessage of module Broker.  Delays    *)
(* and due times are left out: a requeued task is ready again and an armed *)
(* timer may fire at any later step.                                       *)
(***************************************************************************)
EXTENDS Integers, Sequences, FiniteSets

CONSTANTS
    MaxRun,             \* bound on run ids
    MaxEvent,           \* bound on the events of one history
    MaxTask,            \* bound on the messages of one task queue
    MaxFaults,          \* bound on crashes, premature timeouts and rejections
    Workers, NoWorker,  \* workflow workers
    ActTypes, NoType,   \* activity types
    Tenants,
    Decisions,          \* command sequences workers answer with
    LifetimeCap,        \* TRUE iff MaxLeaseLifetimeMs is configured
    AckUnrecorded       \* TRUE iff an activity worker acks after a failed proposal

RunIds    == 1..MaxRun
EventIds  == 1..MaxEvent
TaskIds   == 1..MaxTask
EventKeys == RunIds \X EventIds             \* storage.WFHistoryKey
TaskKeys  == RunIds \X TaskIds              \* lane __wf/<type>, group run id
ActQueues == ActTypes \X Tenants            \* lane __act/<type>, group tenant
ActKeys   == ActQueues \X TaskIds

CommandKinds == {"schedule_activity", "start_timer", "continue_as_new",
                 "complete_workflow", "fail_workflow"}
Commands == [kind: CommandKinds, type: ActTypes \cup {NoType}]

ASSUME WorkflowAssumption ==
    /\ {MaxRun, MaxEvent, MaxTask} \subseteq Nat \ {0} /\ MaxFaults \in Nat
    /\ NoWorker \notin Workers /\ NoType \notin ActTypes
    /\ Decisions \subseteq Seq(Commands)
    /\ {LifetimeCap, AckUnrecorded} \subseteq BOOLEAN

VARIABLES
    runs,       \* RunIds -> WorkflowRun or NoRun
    hist,       \* EventKeys -> HistoryEvent or NoEvent
    done,       \* activity done-markers: (run, scheduled event id)
    nextRun,    \* meta:next_run_id
    taskNext, tasks,    \* workflow-task queues: next id and messages
    actNext, acts,      \* activity queues: next id and messages
    timers,     \* TimerWFFired rows: (run, started event id)
    worker,     \* what each workflow worker is doing
    proposals,  \* CmdWFAppendEvents proposed and not yet applied
    faults      \* counts against MaxFaults

queues == <<taskNext, tasks, actNext, acts>>
vars   == <<runs, hist, done, nextRun, queues, timers, worker, proposals, faults>>

-----------------------------------------------------------------------------
(* Rows                                                                    *)

NoRun == [status |-> "NONE"]
ClosedStatus == {"COMPLETED", "FAILED", "CANCELED", "CONTINUED"}
Run == [status: {"RUNNING"} \cup ClosedStatus, epoch: Nat, seq: Nat,
        pending: BOOLEAN, tenant: Tenants, parent: 0..MaxRun]

NoEvent == [type |-> "NONE"]
EventTypes ==
    {"WORKFLOW_STARTED", "WORKFLOW_TASK_COMPLETED", "ACTIVITY_SCHEDULED",
     "ACTIVITY_COMPLETED", "ACTIVITY_FAILED", "TIMER_STARTED", "TIMER_FIRED",
     "SIGNAL_RECEIVED", "WORKFLOW_COMPLETED", "WORKFLOW_FAILED",
     "WORKFLOW_CANCELED", "WORKFLOW_CONTINUED_AS_NEW"}
Event == [type: EventTypes,
          ref: 0..MaxEvent,         \* scheduled or started event id, 0 is none
          saw: SUBSET EventIds]     \* history: the events a decision replayed
NewEvent(type, ref) == [type |-> type, ref |-> ref, saw |-> {}]

NoTask == [state |-> "NONE"]
ReadyTask == [state |-> "READY", holder |-> NoWorker]
DeadTask  == [state |-> "DEAD", holder |-> NoWorker]
Task == [state: {"READY", "LEASED", "DEAD"}, holder: Workers \cup {NoWorker}]
NoAct == [state |-> "NONE"]
Act == [state: {"READY", "LEASED"}, run: RunIds, event: EventIds]

Idle == [phase |-> "idle"]
Busy == [phase: {"leased", "loaded", "replayed", "proposed", "ack", "nack"},
         key: TaskKeys, epoch: Nat, seq: Nat, saw: SUBSET EventIds]
Proposal == [by: Workers \cup {NoWorker}, run: RunIds, epoch: Nat, seq: Nat,
             saw: SUBSET EventIds, cmds: Decisions]

Running(r) == runs[r].status = "RUNNING"
Written(r) == {i \in EventIds : hist[<<r, i>>] # NoEvent}

-----------------------------------------------------------------------------
(* Runs and their histories: the FSM commands                              *)

\* The bound on histories leaves room for a last decision that closes the run.
Room(r, n) == runs[r].seq + n <= MaxEvent - 2

\* publishReady on the queue of run r.
TaskPublished(r) ==
    /\ taskNext[r] \in TaskIds
    /\ tasks' = [tasks EXCEPT ![<<r, taskNext[r]>>] = ReadyTask]
    /\ taskNext' = [taskNext EXCEPT ![r] = @ + 1]

\* createRun: the record of a new run, its first event and its first task.
NewRun(tenant, parent) ==
    [status |-> "RUNNING", epoch |-> 0, seq |-> 1, pending |-> TRUE,
     tenant |-> tenant, parent |-> parent]

\* applyWFStartRun.
StartRun(tenant) ==
    /\ nextRun \in RunIds
    /\ nextRun' = nextRun + 1
    /\ runs' = [runs EXCEPT ![nextRun] = NewRun(tenant, 0)]
    /\ hist' = [hist EXCEPT ![<<nextRun, 1>>] = NewEvent("WORKFLOW_STARTED", 0)]
    /\ TaskPublished(nextRun)
    /\ UNCHANGED <<done, actNext, acts, timers, worker, proposals, faults>>

\* Mutant: the new event does not ask for a decision.
AppendExternal_NoDispatch(r, type, ref) ==
    /\ Room(r, 1)
    /\ hist' = [hist EXCEPT ![<<r, runs[r].seq + 1>>] = NewEvent(type, ref)]
    /\ runs' = [runs EXCEPT ![r].seq = @ + 1, ![r].epoch = @ + 1]
    /\ IF runs[r].pending THEN UNCHANGED <<tasks, taskNext>> ELSE TaskPublished(r)

\* Mutant: the event is written and the run's sequence number is not.
AppendExternal_SeqKept(r, type, ref) ==
    /\ Room(r, 1)
    /\ hist' = [hist EXCEPT ![<<r, runs[r].seq + 1>>] = NewEvent(type, ref)]
    /\ runs' = [runs EXCEPT ![r].epoch = @ + 1, ![r].pending = TRUE]
    /\ TaskPublished(r)

\* appendExternalEvent: the event supersedes any task in flight, so a fresh one
\* is dispatched against the new version.
AppendExternal(r, type, ref) ==
    /\ Room(r, 1)
    /\ hist' = [hist EXCEPT ![<<r, runs[r].seq + 1>>] = NewEvent(type, ref)]
    /\ runs' = [runs EXCEPT ![r].seq = @ + 1, ![r].epoch = @ + 1,
                            ![r].pending = TRUE]
    /\ TaskPublished(r)

\* Mutant: only the schedule is checked, not the done-marker.
TerminalDue_Unmarked(r, e) ==
    Running(r) /\ hist[<<r, e>>].type = "ACTIVITY_SCHEDULED"

\* recordActivityTerminal: the run is open, the activity was scheduled and has
\* no terminal event yet.
TerminalDue(r, e) ==
    /\ Running(r)
    /\ <<r, e>> \notin done
    /\ hist[<<r, e>>].type = "ACTIVITY_SCHEDULED"

RecordActivityTerminal(r, e, type) ==
    IF TerminalDue(r, e)
    THEN AppendExternal(r, type, e) /\ done' = done \cup {<<r, e>>}
    ELSE UNCHANGED <<hist, runs, tasks, taskNext, done>>

\* applyWFCompleteActivity: the worker's answer, perhaps late or repeated.
CompleteActivity(r, e, type) ==
    /\ TerminalDue(r, e)
    /\ RecordActivityTerminal(r, e, type)
    /\ UNCHANGED <<nextRun, actNext, acts, timers, worker, proposals, faults>>

\* applyFireTimer of a TimerWFFired row: the row is the once-only guard.
FireTimer(t) ==
    /\ timers' = timers \ {t}
    /\ IF Running(t[1]) THEN AppendExternal(t[1], "TIMER_FIRED", t[2])
       ELSE UNCHANGED <<hist, runs, tasks, taskNext>>
    /\ UNCHANGED <<done, nextRun, actNext, acts, worker, proposals, faults>>

\* applyWFSignal.
Signal(r) ==
    /\ Running(r)
    /\ AppendExternal(r, "SIGNAL_RECEIVED", 0)
    /\ UNCHANGED <<done, nextRun, actNext, acts, timers, worker, proposals, faults>>

\* applyWFCancel: closes the run and dispatches nothing.
Cancel(r) ==
    /\ Running(r) /\ runs[r].seq < MaxEvent
    /\ hist' = [hist EXCEPT ![<<r, runs[r].seq + 1>>] =
                    NewEvent("WORKFLOW_CANCELED", 0)]
    /\ runs' = [runs EXCEPT ![r].seq = @ + 1, ![r].epoch = @ + 1,
                            ![r].status = "CANCELED", ![r].pending = FALSE]
    /\ UNCHANGED <<done, nextRun, queues, timers, worker, proposals, faults>>

-----------------------------------------------------------------------------
(* A decision: from the worker's commands to the committed events          *)

LastIn(S) == CHOOSE i \in S : \A j \in S : j <= i
CommandsOf(d, kinds) == {i \in DOMAIN d : d[i].kind \in kinds}

\* translateCommands: a WORKFLOW_TASK_COMPLETED frame, then one event a command.
EventOf == [schedule_activity |-> "ACTIVITY_SCHEDULED",
            start_timer       |-> "TIMER_STARTED",
            continue_as_new   |-> "WORKFLOW_CONTINUED_AS_NEW",
            complete_workflow |-> "WORKFLOW_COMPLETED",
            fail_workflow     |-> "WORKFLOW_FAILED"]
TranslateCommands(d, saw) ==
    [i \in 1..(Len(d) + 1) |->
        IF i = 1
        THEN [type |-> "WORKFLOW_TASK_COMPLETED", ref |-> 0, saw |-> saw]
        ELSE NewEvent(EventOf[d[i - 1].kind], 0)]

\* The status the last closing command leaves.
StatusOf == [continue_as_new   |-> "CONTINUED",
             complete_workflow |-> "COMPLETED",
             fail_workflow     |-> "FAILED"]
Closing(d) == CommandsOf(d, DOMAIN StatusOf)
StatusAfter(d) ==
    IF Closing(d) = {} THEN "RUNNING" ELSE StatusOf[d[LastIn(Closing(d))].kind]
Continues(d) == CommandsOf(d, {"continue_as_new"}) # {}

\* The commands of d that schedule an activity on queue q.
ScheduledOn(d, q, tenant) ==
    {i \in CommandsOf(d, {"schedule_activity"}) : <<d[i].type, tenant>> = q}

\* dispatchActivity for every ACTIVITY_SCHEDULED of the batch.  publishReady
\* takes the id from the COMMITTED metadata, so commands that share a queue
\* write the same row and the last one stands.
DispatchActivities(p) ==
    LET On(q) == ScheduledOn(p.cmds, q, runs[p.run].tenant)
    IN  /\ \A q \in ActQueues : On(q) # {} => actNext[q] \in TaskIds
        /\ acts' = [k \in ActKeys |->
              IF On(k[1]) # {} /\ k[2] = actNext[k[1]]
              THEN [state |-> "READY", run |-> p.run,
                    event |-> p.seq + 1 + LastIn(On(k[1]))]
              ELSE acts[k]]
        /\ actNext' = [q \in ActQueues |->
              IF On(q) # {} THEN actNext[q] + 1 ELSE actNext[q]]

\* Mutant: the version the worker replayed is not compared again.
Fence_OpenOnly(p) == Running(p.run)

\* The re-check against committed state: the run is open and at the version
\* the worker replayed.
Fence(p) ==
    /\ Running(p.run)
    /\ p.epoch = runs[p.run].epoch /\ p.seq = runs[p.run].seq

\* Mutant: the timer's reference lacks the event id.
ArmTimers_SharedRef(p) ==
    IF CommandsOf(p.cmds, {"start_timer"}) = {} THEN timers
    ELSE timers \cup {<<p.run, p.seq + 2>>}

\* armWFTimer for every TIMER_STARTED of the batch.
ArmTimers(p) ==
    timers \cup {<<p.run, p.seq + 1 + i>> : i \in CommandsOf(p.cmds, {"start_timer"})}

\* Mutant: the successor is started by a later command, not in this batch.
Successor_Later(p) == FALSE

\* continue-as-new starts the successor in the same batch.
Successor(p) == Continues(p.cmds)

\* applyWFAppendEvents of a decision that passes the fence.
AppendEvents(p) ==
    LET r   == p.run
        evs == TranslateCommands(p.cmds, p.saw)
        end == p.seq + Len(evs)
    IN  /\ end <= MaxEvent
        /\ Successor(p) => nextRun \in RunIds
        /\ hist' = [k \in EventKeys |->
              IF k[1] = r /\ k[2] \in (p.seq + 1)..end THEN evs[k[2] - p.seq]
              ELSE IF Successor(p) /\ k = <<nextRun, 1>>
              THEN NewEvent("WORKFLOW_STARTED", 0)
              ELSE hist[k]]
        /\ runs' = [x \in RunIds |->
              IF x = r
              THEN [runs[r] EXCEPT !.status = StatusAfter(p.cmds), !.seq = end,
                                   !.epoch = @ + 1, !.pending = FALSE]
              ELSE IF Successor(p) /\ x = nextRun
              THEN NewRun(runs[r].tenant, r)
              ELSE runs[x]]
        /\ IF Successor(p)
           THEN nextRun' = nextRun + 1 /\ TaskPublished(nextRun)
           ELSE UNCHANGED <<nextRun, tasks, taskNext>>
        /\ DispatchActivities(p)
        /\ timers' = ArmTimers(p)

\* The proposal reaches the log: applied once, or a no-op (closed, stale).  A
\* worker that still waits for it may now ack its task.
ApplyAppend(p) ==
    /\ proposals' = proposals \ {p}
    /\ worker' = IF p.by = NoWorker THEN worker
                 ELSE [worker EXCEPT ![p.by].phase = "ack"]
    /\ IF Fence(p) THEN AppendEvents(p)
       ELSE UNCHANGED <<hist, runs, nextRun, queues, timers>>
    /\ UNCHANGED <<done, faults>>

-----------------------------------------------------------------------------
(* Workflow workers: driveWorkflowTask and settleWorkflowTask, or          *)
(* PollWorkflowTask and RespondWorkflowTask over gRPC                      *)

\* LeaseOne: the lowest READY message of the run's queue.
LeaseTask(w, r, i) ==
    /\ worker[w] = Idle
    /\ tasks[<<r, i>>].state = "READY"
    /\ \A j \in TaskIds : tasks[<<r, j>>].state = "READY" => i <= j
    /\ tasks' = [tasks EXCEPT ![<<r, i>>] = [state |-> "LEASED", holder |-> w]]
    /\ worker' = [worker EXCEPT ![w] =
          [phase |-> "leased", key |-> <<r, i>>, epoch |-> 0, seq |-> 0,
           saw |-> {}]]
    /\ UNCHANGED <<runs, hist, done, nextRun, taskNext, actNext, acts, timers,
                   proposals, faults>>

\* GetRun: the version the decision will be made against; the task of a closed
\* run is dropped.
LoadRun(w) ==
    LET r == worker[w].key[1]
    IN  /\ worker[w].phase = "leased"
        /\ worker' = [worker EXCEPT ![w] = IF Running(r)
              THEN [@ EXCEPT !.phase = "loaded", !.epoch = runs[r].epoch,
                             !.seq = runs[r].seq]
              ELSE [@ EXCEPT !.phase = "ack"]]
        /\ UNCHANGED <<runs, hist, done, nextRun, queues, timers, proposals, faults>>

\* GetRunHistory: a second read, perhaps of a later version.
ReplayHistory(w) ==
    /\ worker[w].phase = "loaded"
    /\ worker' = [worker EXCEPT ![w] =
          [@ EXCEPT !.phase = "replayed", !.saw = Written(worker[w].key[1])]]
    /\ UNCHANGED <<runs, hist, done, nextRun, queues, timers, proposals, faults>>

\* CompleteWorkflowTask, the leader's gate, reads the run once more.
AtVersion(w) ==
    LET r == worker[w].key[1]
    IN  Running(r) /\ worker[w].epoch = runs[r].epoch /\ worker[w].seq = runs[r].seq

Propose(w, d) ==
    /\ worker[w].phase = "replayed" /\ AtVersion(w)
    /\ worker[w].seq + Len(d) + 1 <= MaxEvent
    /\ Closing(d) # {} \/ Room(worker[w].key[1], Len(d) + 1)
    /\ proposals' = proposals \cup
          {[by |-> w, run |-> worker[w].key[1], epoch |-> worker[w].epoch,
            seq |-> worker[w].seq, saw |-> worker[w].saw, cmds |-> d]}
    /\ worker' = [worker EXCEPT ![w].phase = "proposed"]
    /\ UNCHANGED <<runs, hist, done, nextRun, queues, timers, faults>>

\* The gate refuses: closed or stale.
GateStale(w) ==
    /\ worker[w].phase = "replayed" /\ ~AtVersion(w)
    /\ worker' = [worker EXCEPT ![w].phase = "ack"]
    /\ UNCHANGED <<runs, hist, done, nextRun, queues, timers, proposals, faults>>

\* The gate refuses a faulty worker: a missing or divergent checksum or an
\* unknown command.  The task is requeued.
GateReject(w) ==
    /\ faults < MaxFaults /\ faults' = faults + 1
    /\ worker[w].phase = "replayed" /\ AtVersion(w)
    /\ worker' = [worker EXCEPT ![w].phase = "nack"]
    /\ UNCHANGED <<runs, hist, done, nextRun, queues, timers, proposals>>

\* The lease is still the worker's.
Holds(w) == tasks[worker[w].key] = [state |-> "LEASED", holder |-> w]

\* Mutant: a rejected task is acked like an accepted one.
SettleTask_AlwaysAck(w) ==
    /\ worker[w].phase \in {"ack", "nack"}
    /\ tasks' = IF Holds(w) THEN [tasks EXCEPT ![worker[w].key] = NoTask]
                ELSE tasks
    /\ worker' = [worker EXCEPT ![w] = Idle]
    /\ UNCHANGED <<runs, hist, done, nextRun, taskNext, actNext, acts, timers,
                   proposals, faults>>

\* Ack and Nack of a lease that is gone change nothing.
SettleTask(w) ==
    /\ worker[w].phase \in {"ack", "nack"}
    /\ tasks' = IF Holds(w)
                THEN [tasks EXCEPT ![worker[w].key] =
                        IF worker[w].phase = "ack" THEN NoTask ELSE ReadyTask]
                ELSE tasks
    /\ worker' = [worker EXCEPT ![w] = Idle]
    /\ UNCHANGED <<runs, hist, done, nextRun, taskNext, actNext, acts, timers,
                   proposals, faults>>

\* What the worker proposed stays in the log when the worker is gone.
Disowned(w) ==
    {[p EXCEPT !.by = IF p.by = w THEN NoWorker ELSE @] : p \in proposals}

\* The proposal returns an error (leadership lost, enqueue timeout): the task is
\* requeued, the entry may commit all the same.
GiveUp(w) ==
    /\ faults < MaxFaults /\ faults' = faults + 1
    /\ worker[w].phase = "proposed"
    /\ worker' = [worker EXCEPT ![w].phase = "nack"]
    /\ proposals' = Disowned(w)
    /\ UNCHANGED <<runs, hist, done, nextRun, queues, timers>>

\* A worker dies, or its answer never arrives: its lease is left behind.
WorkerCrash(w) ==
    /\ faults < MaxFaults /\ faults' = faults + 1
    /\ worker[w] # Idle
    /\ worker' = [worker EXCEPT ![w] = Idle]
    /\ proposals' = Disowned(w)
    /\ UNCHANGED <<runs, hist, done, nextRun, queues, timers>>

\* The visibility timeout of a lease.  One that hits a worker still at work is
\* a fault, one that takes the lease of a dead worker back is not.
TaskExpires(k) ==
    /\ tasks[k].state = "LEASED"
    /\ LET w == tasks[k].holder
           working == worker[w] # Idle /\ worker[w].key = k
       IN  /\ working => faults < MaxFaults
           /\ faults' = IF working THEN faults + 1 ELSE faults
    /\ tasks' = [tasks EXCEPT ![k] = ReadyTask]
    /\ UNCHANGED <<runs, hist, done, nextRun, taskNext, actNext, acts, timers,
                   worker, proposals>>

\* The lifetime cap dead-letters the task; deadLetter has no bridge for __wf/, so
\* the run learns nothing of it.
TaskDeadLettered(k) ==
    /\ LifetimeCap /\ tasks[k].state = "LEASED"
    /\ tasks' = [tasks EXCEPT ![k] = DeadTask]
    /\ UNCHANGED <<runs, hist, done, nextRun, taskNext, actNext, acts, timers,
                   worker, proposals, faults>>

-----------------------------------------------------------------------------
(* Activity tasks                                                          *)

\* PollActivityTask.
LeaseActivity(k) ==
    /\ acts[k].state = "READY"
    /\ \A j \in TaskIds : acts[<<k[1], j>>].state = "READY" => k[2] <= j
    /\ acts' = [acts EXCEPT ![k].state = "LEASED"]
    /\ UNCHANGED <<runs, hist, done, nextRun, taskNext, tasks, actNext, timers,
                   worker, proposals, faults>>

\* RespondActivityTask acks once the FSM answered; RunActivityWorker also acks
\* when the proposal failed.
AckActivity(k) ==
    /\ acts[k].state = "LEASED"
    /\ AckUnrecorded \/ ~TerminalDue(acts[k].run, acts[k].event)
    /\ acts' = [acts EXCEPT ![k] = NoAct]
    /\ UNCHANGED <<runs, hist, done, nextRun, taskNext, tasks, actNext, timers,
                   worker, proposals, faults>>

\* A retry or a visibility timeout.
ActivityReturned(k) ==
    /\ acts[k].state = "LEASED"
    /\ acts' = [acts EXCEPT ![k].state = "READY"]
    /\ UNCHANGED <<runs, hist, done, nextRun, taskNext, tasks, actNext, timers,
                   worker, proposals, faults>>

\* Mutant: deadLetter without the bridge.
Bridge_Missing(a) == UNCHANGED <<hist, runs, tasks, taskNext, done>>

\* The liveness bridge of deadLetter.
Bridge(a) == RecordActivityTerminal(a.run, a.event, "ACTIVITY_FAILED")

\* Attempts exhausted, a terminal nack or the lifetime cap.
ActivityDeadLettered(k) ==
    /\ acts[k].state = "LEASED"
    /\ acts' = [acts EXCEPT ![k] = NoAct]
    /\ Bridge(acts[k])
    /\ UNCHANGED <<nextRun, actNext, timers, worker, proposals, faults>>

-----------------------------------------------------------------------------
(* Specification                                                           *)

Init ==
    /\ runs = [r \in RunIds |-> NoRun]
    /\ hist = [k \in EventKeys |-> NoEvent]
    /\ done = {} /\ nextRun = 1
    /\ taskNext = [r \in RunIds |-> 1] /\ tasks = [k \in TaskKeys |-> NoTask]
    /\ actNext = [q \in ActQueues |-> 1] /\ acts = [k \in ActKeys |-> NoAct]
    /\ timers = {}
    /\ worker = [w \in Workers |-> Idle]
    /\ proposals = {} /\ faults = 0

ClientNext ==
    \/ \E t \in Tenants : StartRun(t)
    \/ \E r \in RunIds : Signal(r) \/ Cancel(r)

WorkerStep(w) ==
    \/ \E r \in RunIds, i \in TaskIds : LeaseTask(w, r, i)
    \/ LoadRun(w) \/ ReplayHistory(w)
    \/ \E d \in Decisions : Propose(w, d)
    \/ GateStale(w)
    \/ SettleTask(w)

FaultNext == \E w \in Workers : GateReject(w) \/ GiveUp(w) \/ WorkerCrash(w)

BrokerNext ==
    \/ \E p \in proposals : ApplyAppend(p)
    \/ \E t \in timers : FireTimer(t)
    \/ \E k \in TaskKeys : TaskExpires(k) \/ TaskDeadLettered(k)

ActivityNext ==
    \/ \E r \in RunIds, e \in EventIds :
          \E type \in {"ACTIVITY_COMPLETED", "ACTIVITY_FAILED"} :
              CompleteActivity(r, e, type)
    \/ \E k \in ActKeys :
          LeaseActivity(k) \/ AckActivity(k) \/ ActivityReturned(k)
             \/ ActivityDeadLettered(k)

Next ==
    \/ ClientNext
    \/ \E w \in Workers : WorkerStep(w)
    \/ FaultNext \/ BrokerNext \/ ActivityNext

Spec == Init /\ [][Next]_vars

\* Workers poll and answer (the loops of RunWorkflowWorker), the raft log
\* applies what was proposed, the sweep takes a dead worker's lease back.
FairSpec ==
    /\ Spec
    /\ \A w \in Workers : WF_vars(WorkerStep(w))
    /\ WF_vars(\E p \in proposals : ApplyAppend(p))
    /\ WF_vars(\E k \in TaskKeys : TaskExpires(k))

-----------------------------------------------------------------------------
(* Properties                                                              *)

\* Every variable keeps its type.
TypeOK ==
    /\ runs \in [RunIds -> Run \cup {NoRun}]
    /\ hist \in [EventKeys -> Event \cup {NoEvent}]
    /\ done \subseteq EventKeys /\ nextRun \in 1..(MaxRun + 1)
    /\ taskNext \in [RunIds -> 1..(MaxTask + 1)]
    /\ tasks \in [TaskKeys -> Task \cup {NoTask}]
    /\ actNext \in [ActQueues -> 1..(MaxTask + 1)]
    /\ acts \in [ActKeys -> Act \cup {NoAct}]
    /\ timers \subseteq EventKeys
    /\ worker \in [Workers -> Busy \cup {Idle}]
    /\ proposals \subseteq Proposal
    /\ faults \in 0..MaxFaults

\* The history of a run has no gap: its rows are exactly 1..cur_history_seq.
HistoryGapFree ==
    \A r \in RunIds :
        Written(r) = IF runs[r] = NoRun THEN {} ELSE 1..runs[r].seq

\* History is append-only and final: a written event never changes, and a closed
\* run gets no event and no other status.
HistoryFinal ==
    [][/\ \A k \in EventKeys : hist[k] # NoEvent => hist'[k] = hist[k]
       /\ \A r \in RunIds : runs[r].status \in ClosedStatus =>
             runs'[r] = runs[r] /\ Written(r)' = Written(r)]_vars

\* Committed divergence is impossible: every decision in a history was made by a
\* worker that had replayed exactly the events before it, no fewer (a signal or a
\* result it did not see) and no more.
DecisionSawHistory ==
    \A k \in EventKeys : hist[k].type = "WORKFLOW_TASK_COMPLETED" =>
        hist[k].saw = 1..(k[2] - 1)

\* The event an ACTIVITY_COMPLETED, ACTIVITY_FAILED or TIMER_FIRED answers.
Answers(e) ==
    IF e = "TIMER_FIRED" THEN "TIMER_STARTED" ELSE "ACTIVITY_SCHEDULED"

\* An activity gets at most one terminal event and a timer fires at most once,
\* whatever redeliveries, late answers and dead letters race; each answers an
\* earlier event of its run.
AnsweredOnce ==
    \A r \in RunIds : \A i, j \in EventIds :
        LET a == hist[<<r, i>>]
            b == hist[<<r, j>>]
        IN  a # NoEvent /\ a.ref # 0 =>
                /\ a.ref < i /\ hist[<<r, a.ref>>].type = Answers(a.type)
                /\ b # NoEvent /\ b.ref = a.ref => i = j

\* What a decision has to react to.
External == {"WORKFLOW_STARTED", "ACTIVITY_COMPLETED", "ACTIVITY_FAILED",
             "TIMER_FIRED", "SIGNAL_RECEIVED"}
Undecided(r) ==
    \E i \in EventIds :
        /\ hist[<<r, i>>].type \in External
        /\ \A j \in EventIds :
              hist[<<r, j>>].type = "WORKFLOW_TASK_COMPLETED" => j < i

\* A run never wedges: while some event waits for a decision, a task for the run
\* is queued or leased (and Broker shows that a lease always ends), unless the
\* lifetime cap has moved one to the dead-letter queue.
NeverWedged ==
    \A r \in RunIds : Running(r) /\ Undecided(r) =>
        \E i \in TaskIds : tasks[<<r, i>>] # NoTask

\* No activity is lost: until its terminal event is written, a task message
\* carries it ("no orphaned event, no lost task").
ActivityNotLost ==
    \A k \in EventKeys : TerminalDue(k[1], k[2]) =>
        \E a \in ActKeys : /\ acts[a] # NoAct
                           /\ acts[a].run = k[1] /\ acts[a].event = k[2]

\* No sleep is lost: a started timer that has not fired is armed.
TimerNotLost ==
    \A k \in EventKeys : Running(k[1]) /\ hist[k].type = "TIMER_STARTED" =>
        \/ k \in timers
        \/ \E i \in EventIds : /\ hist[<<k[1], i>>].type = "TIMER_FIRED"
                               /\ hist[<<k[1], i>>].ref = k[2]

\* continue-as-new hands over exactly once: a continued run has one successor
\* and no other run has any.
OneSuccessor ==
    \A r \in RunIds :
        Cardinality({x \in RunIds : runs[x] # NoRun /\ runs[x].parent = r})
            = IF runs[r].status = "CONTINUED" THEN 1 ELSE 0

\* Every event that needs a decision gets one, or the run closes.
EventsDecided ==
    \A r \in RunIds : (Running(r) /\ Undecided(r)) ~> ~(Running(r) /\ Undecided(r))
=============================================================================
