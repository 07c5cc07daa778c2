--------------------------- MODULE WorkflowProofs ---------------------------
(***************************************************************************)
(* Proofs about Workflow, for any number of runs, workers, activity types  *)
(* and tenants and any decisions workers may take.                         *)
(***************************************************************************)
EXTENDS Workflow, TLAPS, FiniteSetTheorems, WellFoundedInduction

-----------------------------------------------------------------------------
(* Decisions and their commands                                            *)

\* A set of naturals that is not empty and bounded has a greatest element.
LEMMA GreatestNatural ==
    ASSUME NEW n \in Nat, NEW T, T \subseteq 1..n, T # {}
    PROVE  \E x \in T : \A y \in T : y <= x
<1>. DEFINE R == {ss \in Nat \X Nat : ss[1] < ss[2]}
            U == {m \in Nat : m <= n /\ n - m \in T}
<1>1. IsWellFoundedOn(R, Nat)
  BY NatLessThanWellFounded DEF OpToRel
<1>2. U \subseteq Nat /\ U # {}
  <2>1. PICK t \in T : TRUE
    OBVIOUS
  <2>2. n - t \in Nat /\ n - t <= n /\ n - (n - t) = t
    BY <2>1
  <2>. QED  BY <2>1, <2>2
<1>3. PICK x \in U : \A y \in U : ~(<<y, x>> \in R)
  <2>. HIDE DEF R, U
  <2>. QED  BY <1>1, <1>2, WFMin
<1>4. ASSUME NEW y \in T PROVE y <= n - x
  <2>1. y \in Nat /\ y <= n /\ n - y \in Nat /\ n - (n - y) = y /\ x \in Nat
    OBVIOUS
  <2>2. n - y \in U
    BY <2>1
  <2>3. ~(n - y < x)
    BY <1>3, <2>1, <2>2
  <2>. QED  BY <2>1, <2>3
<1>. QED  BY <1>4

\* LastIn picks a member.
LEMMA LastInSet ==
    ASSUME NEW n \in Nat, NEW T, T \subseteq 1..n, T # {}
    PROVE  LastIn(T) \in T /\ LastIn(T) \in Nat /\ LastIn(T) >= 1 /\ LastIn(T) <= n
<1>1. \E x \in T : \A y \in T : y <= x
  BY GreatestNatural
<1>2. LastIn(T) \in T
  BY <1>1 DEF LastIn
<1>3. LastIn(T) \in 1..n
  BY <1>2
<1>. QED  BY <1>2, <1>3

\* What a decision is made of.
LEMMA DecisionShape ==
    ASSUME NEW d \in Decisions
    PROVE  /\ d \in Seq(Commands) /\ Len(d) \in Nat /\ DOMAIN d = 1..Len(d)
           /\ \A i \in 1..Len(d) : d[i].kind \in CommandKinds /\ d[i].type \in ActTypes \cup {NoType}
           /\ \A kinds : CommandsOf(d, kinds) \subseteq 1..Len(d)
<1>1. d \in Seq(Commands)
  BY WorkflowAssumption
<1>2. Len(d) \in Nat /\ DOMAIN d = 1..Len(d) /\ \A i \in 1..Len(d) : d[i] \in Commands
  BY <1>1
<1>. QED  BY <1>1, <1>2 DEF Commands, CommandsOf

\* The events that commands become.
LEMMA EventOfKind ==
    ASSUME NEW k \in CommandKinds
    PROVE  /\ EventOf[k] \in {"ACTIVITY_SCHEDULED", "TIMER_STARTED", "WORKFLOW_CONTINUED_AS_NEW",
                              "WORKFLOW_COMPLETED", "WORKFLOW_FAILED"}
           /\ EventOf[k] = "ACTIVITY_SCHEDULED" => k = "schedule_activity"
           /\ EventOf[k] = "TIMER_STARTED" => k = "start_timer"
  BY DEF CommandKinds, EventOf

\* The statuses a decision may leave, and which one continues.
LEMMA StatusAfterType ==
    ASSUME NEW d \in Decisions
    PROVE  /\ StatusAfter(d) \in {"RUNNING", "CONTINUED", "COMPLETED", "FAILED"}
           /\ StatusAfter(d) = "CONTINUED" => Continues(d)
<1>1. CASE Closing(d) = {}
  BY <1>1 DEF StatusAfter
<1>2. CASE Closing(d) # {}
  <2>. DEFINE i == LastIn(Closing(d))
  <2>1. Closing(d) \subseteq 1..Len(d) /\ Len(d) \in Nat
    BY DecisionShape DEF Closing
  <2>2. i \in Closing(d)
    BY <1>2, <2>1, LastInSet
  <2>3. i \in DOMAIN d /\ d[i].kind \in {"continue_as_new", "complete_workflow", "fail_workflow"}
    BY <2>2 DEF Closing, CommandsOf, StatusOf
  <2>4. StatusAfter(d) = StatusOf[d[i].kind]
    BY <1>2 DEF StatusAfter
  <2>5. StatusOf[d[i].kind] \in {"CONTINUED", "COMPLETED", "FAILED"}
        /\ (StatusOf[d[i].kind] = "CONTINUED" => d[i].kind = "continue_as_new")
    BY <2>3 DEF StatusOf
  <2>. HIDE DEF i
  <2>6. d[i].kind = "continue_as_new" => Continues(d)
    BY <2>3 DEF Continues, CommandsOf
  <2>. QED  BY <2>4, <2>5, <2>6
<1>. QED  BY <1>1, <1>2

-----------------------------------------------------------------------------
(* Rows and what a command does to them                                    *)

\* The bounds as numbers.
LEMMA Bounds ==
    /\ MaxRun \in Nat /\ MaxRun >= 1 /\ MaxEvent \in Nat /\ MaxEvent >= 1
    /\ MaxTask \in Nat /\ MaxTask >= 1 /\ MaxFaults \in Nat
    /\ NoWorker \notin Workers /\ 1 \in EventIds
  BY WorkflowAssumption DEF EventIds

\* A run row has the fields of its kind.
LEMMA RunShape ==
    ASSUME TypeOK, NEW r \in RunIds
    PROVE  /\ runs[r] = NoRun <=> runs[r].status = "NONE"
           /\ runs[r] # NoRun =>
                /\ runs[r] \in Run /\ runs[r].status \in {"RUNNING"} \cup ClosedStatus
                /\ runs[r].epoch \in Nat /\ runs[r].seq \in Nat
                /\ runs[r].tenant \in Tenants /\ runs[r].parent \in 0..MaxRun
           /\ Running(r) => runs[r] # NoRun
<1>1. runs[r] = NoRun \/ runs[r] \in Run
  BY DEF TypeOK
<1>2. runs[r] = NoRun => runs[r].status = "NONE"
  BY DEF NoRun
<1>3. runs[r] \in Run => /\ runs[r].status \in {"RUNNING"} \cup ClosedStatus
                         /\ runs[r].epoch \in Nat /\ runs[r].seq \in Nat
                         /\ runs[r].tenant \in Tenants /\ runs[r].parent \in 0..MaxRun
  BY DEF Run
<1>4. "NONE" \notin {"RUNNING"} \cup ClosedStatus
  BY DEF ClosedStatus
<1>. QED  BY <1>1, <1>2, <1>3, <1>4 DEF Running

\* A history row has the fields of its kind.
LEMMA EventShape ==
    ASSUME TypeOK, NEW k \in EventKeys
    PROVE  /\ hist[k] = NoEvent <=> hist[k].type = "NONE"
           /\ hist[k] # NoEvent => /\ hist[k] \in Event /\ hist[k].type \in EventTypes
                                   /\ hist[k].ref \in 0..MaxEvent /\ hist[k].saw \subseteq EventIds
<1>1. hist[k] = NoEvent \/ hist[k] \in Event
  BY DEF TypeOK
<1>2. hist[k] = NoEvent => hist[k].type = "NONE"
  BY DEF NoEvent
<1>3. hist[k] \in Event => /\ hist[k].type \in EventTypes
                           /\ hist[k].ref \in 0..MaxEvent /\ hist[k].saw \subseteq EventIds
  BY DEF Event
<1>4. "NONE" \notin EventTypes
  BY DEF EventTypes
<1>. QED  BY <1>1, <1>2, <1>3, <1>4

\* A new event is an event of its type.
LEMMA NewEventShape ==
    ASSUME NEW type \in EventTypes, NEW ref \in 0..MaxEvent
    PROVE  /\ NewEvent(type, ref) \in Event /\ NewEvent(type, ref) # NoEvent
           /\ NewEvent(type, ref).type = type /\ NewEvent(type, ref).ref = ref
<1>1. NewEvent(type, ref) \in Event
  BY DEF NewEvent, Event
<1>2. NewEvent(type, ref).type = type /\ NewEvent(type, ref).ref = ref
  BY DEF NewEvent
<1>3. type # "NONE" /\ NoEvent.type = "NONE"
  BY DEF EventTypes, NoEvent
<1>. QED  BY <1>1, <1>2, <1>3

\* The parts of the composite keys.
LEMMA KeyParts ==
    /\ \A r \in RunIds, i \in EventIds :
          <<r, i>> \in EventKeys /\ <<r, i>>[1] = r /\ <<r, i>>[2] = i
    /\ \A k \in EventKeys : k[1] \in RunIds /\ k[2] \in EventIds /\ k = <<k[1], k[2]>>
    /\ \A r \in RunIds, i \in TaskIds :
          <<r, i>> \in TaskKeys /\ <<r, i>>[1] = r /\ <<r, i>>[2] = i
    /\ \A k \in TaskKeys : k[1] \in RunIds /\ k[2] \in TaskIds /\ k = <<k[1], k[2]>>
  BY DEF EventKeys, TaskKeys

\* The record of an open run after n more events.
Grown(r, status, n) ==
    /\ runs'[r] \in Run /\ runs'[r].status = status
    /\ runs'[r].seq = runs[r].seq + n /\ runs'[r].epoch = runs[r].epoch + 1
    /\ runs'[r].tenant = runs[r].tenant /\ runs'[r].parent = runs[r].parent

\* One event is written at the end of the history of an open run.
Appended(r, type, ref, status) ==
    /\ r \in RunIds /\ Running(r) /\ runs[r].seq + 1 \in EventIds
    /\ hist'[<<r, runs[r].seq + 1>>] = NewEvent(type, ref)
    /\ \A k \in EventKeys : k # <<r, runs[r].seq + 1>> => hist'[k] = hist[k]
    /\ Grown(r, status, 1)
    /\ \A x \in RunIds : x # r => runs'[x] = runs[x]

\* A run row with changed fields is a run row.
LEMMA GrownRecord ==
    ASSUME NEW x, NEW y, x \in Run, DOMAIN y = DOMAIN x, y.seq \in Nat, y.epoch \in Nat,
           y.pending \in BOOLEAN, y.status \in {"RUNNING"} \cup ClosedStatus,
           y.tenant = x.tenant, y.parent = x.parent, y = [k \in DOMAIN x |-> y[k]]
    PROVE  y \in Run
  BY DEF Run

\* An external append adds one event and publishes a task.
LEMMA ExternalEffect ==
    ASSUME TypeOK, NEW r \in RunIds, Running(r), NEW type \in EventTypes, NEW ref \in 0..MaxEvent,
           AppendExternal(r, type, ref)
    PROVE  /\ Appended(r, type, ref, "RUNNING")
           /\ runs' \in [RunIds -> Run \cup {NoRun}] /\ hist' \in [EventKeys -> Event \cup {NoEvent}]
           /\ TaskPublished(r)
<1>1. runs[r] \in Run /\ runs[r].seq \in Nat /\ runs[r].epoch \in Nat
  BY RunShape
<1>2. runs \in [RunIds -> Run \cup {NoRun}] /\ hist \in [EventKeys -> Event \cup {NoEvent}]
  BY DEF TypeOK
<1>3. runs[r].seq + 1 \in EventIds
  BY <1>1, Bounds DEF AppendExternal, Room, EventIds
<1>4. <<r, runs[r].seq + 1>> \in EventKeys
  BY <1>3, KeyParts
<1>5. hist' = [hist EXCEPT ![<<r, runs[r].seq + 1>>] = NewEvent(type, ref)]
  BY DEF AppendExternal
<1>6. hist' \in [EventKeys -> Event \cup {NoEvent}]
  BY <1>2, <1>4, <1>5, NewEventShape
<1>7. /\ hist'[<<r, runs[r].seq + 1>>] = NewEvent(type, ref)
      /\ \A k \in EventKeys : k # <<r, runs[r].seq + 1>> => hist'[k] = hist[k]
  BY <1>2, <1>4, <1>5
<1>8. runs' = [runs EXCEPT ![r] = [runs[r] EXCEPT !.seq = runs[r].seq + 1, !.epoch = runs[r].epoch + 1, !.pending = TRUE]]
  BY <1>1, <1>2 DEF AppendExternal, Run
<1>9. runs'[r] = [runs[r] EXCEPT !.seq = runs[r].seq + 1, !.epoch = runs[r].epoch + 1, !.pending = TRUE]
  BY <1>2, <1>8
<1>10. Grown(r, "RUNNING", 1)
  <2>1. /\ runs'[r].status = runs[r].status /\ runs'[r].tenant = runs[r].tenant
        /\ runs'[r].parent = runs[r].parent /\ runs'[r].pending = TRUE
        /\ runs'[r].seq = runs[r].seq + 1 /\ runs'[r].epoch = runs[r].epoch + 1
    BY <1>1, <1>9 DEF Run
  <2>2. DOMAIN runs'[r] = DOMAIN runs[r] /\ runs'[r] = [k \in DOMAIN runs[r] |-> runs'[r][k]]
    BY <1>9
  <2>3. runs'[r].seq \in Nat /\ runs'[r].epoch \in Nat
        /\ runs'[r].status \in {"RUNNING"} \cup ClosedStatus
    BY <1>1, <2>1 DEF Running, ClosedStatus
  <2>4. runs'[r].pending \in BOOLEAN
    BY <2>1, Zenon
  <2>5. runs'[r] \in Run
    BY <1>1, <2>1, <2>2, <2>3, <2>4, GrownRecord
  <2>. QED  BY <2>1, <2>5 DEF Grown, Running
<1>11. runs' \in [RunIds -> Run \cup {NoRun}] /\ \A x \in RunIds : x # r => runs'[x] = runs[x]
  BY <1>2, <1>8, <1>9, <1>10 DEF Grown
<1>12. TaskPublished(r)
  BY DEF AppendExternal
<1>. QED  BY <1>3, <1>6, <1>7, <1>10, <1>11, <1>12 DEF Appended

\* A cancel adds one event and closes the run.
LEMMA CancelEffect ==
    ASSUME TypeOK, NEW r \in RunIds, Cancel(r)
    PROVE  /\ Appended(r, "WORKFLOW_CANCELED", 0, "CANCELED")
           /\ runs' \in [RunIds -> Run \cup {NoRun}] /\ hist' \in [EventKeys -> Event \cup {NoEvent}]
<1>0. Running(r) /\ runs[r].seq < MaxEvent
  BY DEF Cancel
<1>1. runs[r] \in Run /\ runs[r].seq \in Nat /\ runs[r].epoch \in Nat
  BY <1>0, RunShape
<1>2. runs \in [RunIds -> Run \cup {NoRun}] /\ hist \in [EventKeys -> Event \cup {NoEvent}]
  BY DEF TypeOK
<1>3. runs[r].seq + 1 \in EventIds
  BY <1>0, <1>1, Bounds DEF EventIds
<1>4. <<r, runs[r].seq + 1>> \in EventKeys
  BY <1>3, KeyParts
<1>5. hist' = [hist EXCEPT ![<<r, runs[r].seq + 1>>] = NewEvent("WORKFLOW_CANCELED", 0)]
  BY DEF Cancel
<1>6. NewEvent("WORKFLOW_CANCELED", 0) \in Event
  <2>1. "WORKFLOW_CANCELED" \in EventTypes /\ 0 \in 0..MaxEvent
    BY Bounds DEF EventTypes
  <2>. QED  BY <2>1, NewEventShape
<1>7. /\ hist' \in [EventKeys -> Event \cup {NoEvent}]
      /\ hist'[<<r, runs[r].seq + 1>>] = NewEvent("WORKFLOW_CANCELED", 0)
      /\ \A k \in EventKeys : k # <<r, runs[r].seq + 1>> => hist'[k] = hist[k]
  BY <1>2, <1>4, <1>5, <1>6
<1>8. runs' = [runs EXCEPT ![r] = [runs[r] EXCEPT !.seq = runs[r].seq + 1, !.epoch = runs[r].epoch + 1,
                                                  !.status = "CANCELED", !.pending = FALSE]]
  BY <1>1, <1>2 DEF Cancel, Run
<1>9. runs'[r] = [runs[r] EXCEPT !.seq = runs[r].seq + 1, !.epoch = runs[r].epoch + 1,
                                 !.status = "CANCELED", !.pending = FALSE]
  BY <1>2, <1>8
<1>10. Grown(r, "CANCELED", 1)
  <2>1. /\ runs'[r].status = "CANCELED" /\ runs'[r].tenant = runs[r].tenant
        /\ runs'[r].parent = runs[r].parent /\ runs'[r].pending = FALSE
        /\ runs'[r].seq = runs[r].seq + 1 /\ runs'[r].epoch = runs[r].epoch + 1
    BY <1>1, <1>9 DEF Run
  <2>2. DOMAIN runs'[r] = DOMAIN runs[r] /\ runs'[r] = [k \in DOMAIN runs[r] |-> runs'[r][k]]
    BY <1>9
  <2>3. runs'[r].seq \in Nat /\ runs'[r].epoch \in Nat
        /\ runs'[r].status \in {"RUNNING"} \cup ClosedStatus
    BY <1>1, <2>1 DEF Running, ClosedStatus
  <2>4. runs'[r].pending \in BOOLEAN
    BY <2>1, Zenon
  <2>5. runs'[r] \in Run
    BY <1>1, <2>1, <2>2, <2>3, <2>4, GrownRecord
  <2>. QED  BY <2>1, <2>5 DEF Grown, Running
<1>11. runs' \in [RunIds -> Run \cup {NoRun}] /\ \A x \in RunIds : x # r => runs'[x] = runs[x]
  BY <1>2, <1>8, <1>9, <1>10 DEF Grown
<1>. QED  BY <1>0, <1>3, <1>7, <1>10, <1>11 DEF Appended

\* A run is created with its first event and its first task.
Created(x, tenant, parent) ==
    /\ x \in RunIds /\ x = nextRun /\ nextRun' = nextRun + 1
    /\ runs'[x] = NewRun(tenant, parent)
    /\ hist'[<<x, 1>>] = NewEvent("WORKFLOW_STARTED", 0)
    /\ \A i \in EventIds : i # 1 => hist'[<<x, i>>] = hist[<<x, i>>]
    /\ TaskPublished(x)

\* The row of a new run.
LEMMA NewRunShape ==
    ASSUME NEW t \in Tenants, NEW p \in 0..MaxRun
    PROVE  /\ NewRun(t, p) \in Run /\ NewRun(t, p) # NoRun /\ NewRun(t, p).status = "RUNNING"
           /\ NewRun(t, p).seq = 1 /\ NewRun(t, p).epoch = 0 /\ NewRun(t, p).parent = p
<1>1. NewRun(t, p) \in Run
  BY DEF NewRun, Run
<1>2. /\ NewRun(t, p).status = "RUNNING" /\ NewRun(t, p).seq = 1 /\ NewRun(t, p).epoch = 0
      /\ NewRun(t, p).parent = p
  BY DEF NewRun
<1>3. NoRun.status = "NONE"
  BY DEF NoRun
<1>. QED  BY <1>1, <1>2, <1>3

\* The first event of a run is an event.
LEMMA StartedEvent == NewEvent("WORKFLOW_STARTED", 0) \in Event
<1>1. "WORKFLOW_STARTED" \in EventTypes /\ 0 \in 0..MaxEvent
  BY Bounds DEF EventTypes
<1>. QED  BY <1>1, NewEventShape

\* A start creates one run and touches no other.
LEMMA StartEffect ==
    ASSUME TypeOK, NEW t \in Tenants, StartRun(t)
    PROVE  /\ Created(nextRun, t, 0)
           /\ \A x \in RunIds : x # nextRun => runs'[x] = runs[x]
           /\ \A k \in EventKeys : k[1] # nextRun => hist'[k] = hist[k]
           /\ runs' \in [RunIds -> Run \cup {NoRun}] /\ hist' \in [EventKeys -> Event \cup {NoEvent}]
<1>1. runs \in [RunIds -> Run \cup {NoRun}] /\ hist \in [EventKeys -> Event \cup {NoEvent}]
  BY DEF TypeOK
<1>2. /\ nextRun \in RunIds /\ nextRun' = nextRun + 1
      /\ runs' = [runs EXCEPT ![nextRun] = NewRun(t, 0)]
      /\ hist' = [hist EXCEPT ![<<nextRun, 1>>] = NewEvent("WORKFLOW_STARTED", 0)]
      /\ TaskPublished(nextRun)
  BY DEF StartRun
<1>3. <<nextRun, 1>> \in EventKeys
  BY <1>2, Bounds, KeyParts
<1>4. NewRun(t, 0) \in Run
  BY Bounds, NewRunShape
<1>5. \A i \in EventIds : <<nextRun, i>> \in EventKeys /\ (i # 1 => <<nextRun, i>> # <<nextRun, 1>>)
  BY <1>2, KeyParts
<1>6. \A k \in EventKeys : k[1] # nextRun => k # <<nextRun, 1>>
  OBVIOUS
<1>. QED  BY <1>1, <1>2, <1>3, <1>4, <1>5, <1>6, StartedEvent DEF Created

\* publishReady.
LEMMA PublishedEffect ==
    ASSUME TypeOK, NEW r \in RunIds, TaskPublished(r)
    PROVE  /\ tasks' \in [TaskKeys -> Task \cup {NoTask}] /\ taskNext' \in [RunIds -> 1..(MaxTask + 1)]
           /\ taskNext[r] \in TaskIds /\ taskNext'[r] = taskNext[r] + 1
           /\ tasks'[<<r, taskNext[r]>>] = ReadyTask
           /\ \A k \in TaskKeys : k # <<r, taskNext[r]>> => tasks'[k] = tasks[k]
           /\ \A x \in RunIds : x # r => taskNext'[x] = taskNext[x]
<1>1. tasks \in [TaskKeys -> Task \cup {NoTask}] /\ taskNext \in [RunIds -> 1..(MaxTask + 1)]
  BY DEF TypeOK
<1>2. /\ taskNext[r] \in TaskIds /\ tasks' = [tasks EXCEPT ![<<r, taskNext[r]>>] = ReadyTask]
      /\ taskNext' = [taskNext EXCEPT ![r] = taskNext[r] + 1]
  BY DEF TaskPublished
<1>3. <<r, taskNext[r]>> \in TaskKeys /\ taskNext[r] + 1 \in 1..(MaxTask + 1)
  BY <1>2, Bounds, KeyParts DEF TaskIds
<1>4. ReadyTask \in Task
  BY DEF ReadyTask, Task
<1>. QED  BY <1>1, <1>2, <1>3, <1>4

-----------------------------------------------------------------------------
(* What a committed decision does                                          *)

\* Run ids are handed out in order.
Fresh == \A r \in RunIds : runs[r] = NoRun <=> r >= nextRun

TaskCompleted(saw) == [type |-> "WORKFLOW_TASK_COMPLETED", ref |-> 0, saw |-> saw]

\* The events of decision p are written at the end of the history of its run.
Recorded(p) ==
    /\ p.run \in RunIds /\ Running(p.run) /\ p.seq = runs[p.run].seq /\ p.seq \in Nat
    /\ p.seq + Len(p.cmds) + 1 \in EventIds /\ Len(p.cmds) \in Nat
    /\ \A i \in EventIds : i <= p.seq \/ i > p.seq + Len(p.cmds) + 1 =>
          hist'[<<p.run, i>>] = hist[<<p.run, i>>]
    /\ hist'[<<p.run, p.seq + 1>>] = TaskCompleted(p.saw)
    /\ \A i \in EventIds : i > p.seq + 1 /\ i <= p.seq + Len(p.cmds) + 1 =>
          /\ i - p.seq - 1 \in 1..Len(p.cmds)
          /\ hist'[<<p.run, i>>] = NewEvent(EventOf[p.cmds[i - p.seq - 1].kind], 0)
    /\ Grown(p.run, StatusAfter(p.cmds), Len(p.cmds) + 1)

\* The event a command becomes.
LEMMA CommandEvent ==
    ASSUME NEW d \in Decisions, NEW i \in 1..Len(d)
    PROVE  /\ NewEvent(EventOf[d[i].kind], 0) \in Event
           /\ NewEvent(EventOf[d[i].kind], 0) # NoEvent
           /\ NewEvent(EventOf[d[i].kind], 0).ref = 0
           /\ NewEvent(EventOf[d[i].kind], 0).type = EventOf[d[i].kind]
           /\ EventOf[d[i].kind] \in EventTypes
           /\ EventOf[d[i].kind] \notin External \cup {"WORKFLOW_TASK_COMPLETED"}
<1>1. d[i].kind \in CommandKinds
  BY DecisionShape
<1>2. EventOf[d[i].kind] \in {"ACTIVITY_SCHEDULED", "TIMER_STARTED", "WORKFLOW_CONTINUED_AS_NEW",
                              "WORKFLOW_COMPLETED", "WORKFLOW_FAILED"}
  BY <1>1, EventOfKind
<1>3. EventOf[d[i].kind] \in EventTypes /\ 0 \in 0..MaxEvent
      /\ EventOf[d[i].kind] \notin External \cup {"WORKFLOW_TASK_COMPLETED"}
  BY <1>2, Bounds DEF EventTypes, External
<1>. QED  BY <1>3, NewEventShape

\* The event that frames a decision.
LEMMA FrameEvent ==
    ASSUME NEW saw \in SUBSET EventIds
    PROVE  /\ TaskCompleted(saw) \in Event /\ TaskCompleted(saw) # NoEvent
           /\ TaskCompleted(saw).type = "WORKFLOW_TASK_COMPLETED"
           /\ TaskCompleted(saw).ref = 0 /\ TaskCompleted(saw).saw = saw
<1>1. TaskCompleted(saw) \in Event
  BY Bounds DEF TaskCompleted, Event, EventTypes
<1>2. /\ TaskCompleted(saw).type = "WORKFLOW_TASK_COMPLETED"
      /\ TaskCompleted(saw).ref = 0 /\ TaskCompleted(saw).saw = saw
  BY DEF TaskCompleted
<1>3. NoEvent.type = "NONE"
  BY DEF NoEvent
<1>. QED  BY <1>1, <1>2, <1>3

\* The fields of a proposal.
LEMMA ProposalShape ==
    ASSUME TypeOK, NEW p \in proposals
    PROVE  /\ p \in Proposal /\ p.by \in Workers \cup {NoWorker} /\ p.run \in RunIds
           /\ p.epoch \in Nat /\ p.seq \in Nat /\ p.saw \in SUBSET EventIds /\ p.cmds \in Decisions
  BY DEF TypeOK, Proposal

\* A fenced append records the decision, and creates its successor if it has one.
LEMMA DecisionEffect ==
    ASSUME TypeOK, Fresh, NEW p \in proposals, Fence(p), AppendEvents(p)
    PROVE  /\ Recorded(p)
           /\ Successor(p) => Created(nextRun, runs[p.run].tenant, p.run) /\ nextRun # p.run
           /\ ~Successor(p) => UNCHANGED <<nextRun, tasks, taskNext>>
           /\ \A k \in EventKeys : k[1] # p.run /\ (Successor(p) => k[1] # nextRun) =>
                 hist'[k] = hist[k]
           /\ \A x \in RunIds : x # p.run /\ (Successor(p) => x # nextRun) => runs'[x] = runs[x]
           /\ runs' \in [RunIds -> Run \cup {NoRun}] /\ hist' \in [EventKeys -> Event \cup {NoEvent}]
<1>. DEFINE r == p.run
            s == p.seq
            d == p.cmds
            n == Len(p.cmds)
            evs == TranslateCommands(d, p.saw)
<1>1. /\ p.run \in RunIds /\ s \in Nat /\ p.saw \in SUBSET EventIds /\ d \in Decisions /\ n \in Nat
  BY ProposalShape, DecisionShape
<1>2. /\ Running(r) /\ s = runs[r].seq
  BY DEF Fence
<1>3. /\ runs[r] \in Run /\ runs[r].epoch \in Nat /\ runs[r].tenant \in Tenants /\ runs[r] # NoRun
  BY <1>1, <1>2, RunShape
<1>4. /\ runs \in [RunIds -> Run \cup {NoRun}] /\ hist \in [EventKeys -> Event \cup {NoEvent}]
      /\ nextRun \in 1..(MaxRun + 1)
  BY DEF TypeOK
<1>5. /\ evs = [i \in 1..(n + 1) |-> IF i = 1 THEN TaskCompleted(p.saw)
                                     ELSE NewEvent(EventOf[d[i - 1].kind], 0)]
      /\ Len(evs) = n + 1
  BY <1>1 DEF TranslateCommands, TaskCompleted
<1>. HIDE DEF evs
<1>6. /\ s + n + 1 <= MaxEvent
      /\ Successor(p) => nextRun \in RunIds
      /\ hist' = [k \in EventKeys |->
            IF k[1] = r /\ k[2] \in (s + 1)..(s + n + 1) THEN evs[k[2] - s]
            ELSE IF Successor(p) /\ k = <<nextRun, 1>> THEN NewEvent("WORKFLOW_STARTED", 0)
            ELSE hist[k]]
      /\ runs' = [x \in RunIds |->
            IF x = r
            THEN [runs[r] EXCEPT !.status = StatusAfter(d), !.seq = s + n + 1,
                                 !.epoch = @ + 1, !.pending = FALSE]
            ELSE IF Successor(p) /\ x = nextRun THEN NewRun(runs[r].tenant, r)
            ELSE runs[x]]
      /\ IF Successor(p) THEN nextRun' = nextRun + 1 /\ TaskPublished(nextRun)
         ELSE UNCHANGED <<nextRun, tasks, taskNext>>
  <2>1. s + Len(evs) = s + n + 1
    BY <1>1, <1>5
  <2>. QED  BY <2>1 DEF AppendEvents, evs
<1>7. s + n + 1 \in EventIds /\ s + 1 \in EventIds /\ MaxEvent \in Nat
  <2>1. MaxEvent \in Nat /\ s \in Nat /\ n \in Nat /\ s + n + 1 <= MaxEvent
    BY <1>1, <1>6, Bounds
  <2>. HIDE DEF s, n
  <2>. QED  BY <2>1 DEF EventIds
<1>8. nextRun \in RunIds => nextRun # r
  BY <1>1, <1>3, <1>4 DEF Fresh, RunIds
<1>9. \A i \in (s + 1)..(s + n + 1) : i - s \in 1..(n + 1) /\ evs[i - s] \in Event
  <2>. SUFFICES ASSUME NEW i \in (s + 1)..(s + n + 1) PROVE i - s \in 1..(n + 1) /\ evs[i - s] \in Event
    OBVIOUS
  <2>1. i - s \in 1..(n + 1)
    BY <1>1
  <2>2. CASE i - s = 1
    BY <1>1, <1>5, <2>1, <2>2, FrameEvent
  <2>3. CASE i - s # 1
    <3>1. i - s - 1 \in 1..n
      BY <1>1, <2>1, <2>3
    <3>2. evs[i - s] = NewEvent(EventOf[d[i - s - 1].kind], 0)
      BY <1>5, <2>1, <2>3
    <3>. QED  BY <1>1, <2>1, <3>1, <3>2, CommandEvent
  <2>. QED  BY <2>2, <2>3
<1>10. hist' \in [EventKeys -> Event \cup {NoEvent}]
  BY <1>4, <1>6, <1>9, StartedEvent
<1>11. \A i \in EventIds : i <= s \/ i > s + n + 1 => hist'[<<r, i>>] = hist[<<r, i>>]
  <2>. SUFFICES ASSUME NEW i \in EventIds, i <= s \/ i > s + n + 1
                PROVE  hist'[<<r, i>>] = hist[<<r, i>>]
    OBVIOUS
  <2>1. <<r, i>> \in EventKeys /\ <<r, i>>[1] = r /\ <<r, i>>[2] = i
    BY <1>1, KeyParts
  <2>2. i \notin (s + 1)..(s + n + 1)
    BY <1>1 DEF EventIds
  <2>3. ~(Successor(p) /\ <<r, i>> = <<nextRun, 1>>)
    BY <1>6, <1>8
  <2>. QED  BY <1>6, <2>1, <2>2, <2>3
<1>12. hist'[<<r, s + 1>>] = TaskCompleted(p.saw)
  <2>1. <<r, s + 1>> \in EventKeys /\ <<r, s + 1>>[1] = r /\ <<r, s + 1>>[2] = s + 1
    BY <1>1, <1>7, KeyParts
  <2>2. s + 1 \in (s + 1)..(s + n + 1) /\ s + 1 - s = 1
    BY <1>1
  <2>3. evs[1] = TaskCompleted(p.saw)
    BY <1>1, <1>5
  <2>. DEFINE k == <<r, s + 1>>
  <2>4. k \in EventKeys /\ k[1] = r /\ k[2] = s + 1
    BY <2>1
  <2>. HIDE DEF k
  <2>5. hist'[k] = evs[k[2] - s]
    BY <1>6, <2>2, <2>4
  <2>6. k[2] - s = 1
    BY <1>1, <2>4
  <2>. QED  BY <2>3, <2>5, <2>6 DEF k
<1>13. \A i \in EventIds : i > s + 1 /\ i <= s + n + 1 =>
          i - s - 1 \in 1..n /\ hist'[<<r, i>>] = NewEvent(EventOf[d[i - s - 1].kind], 0)
  <2>. SUFFICES ASSUME NEW i \in EventIds, i > s + 1, i <= s + n + 1
                PROVE  i - s - 1 \in 1..n /\ hist'[<<r, i>>] = NewEvent(EventOf[d[i - s - 1].kind], 0)
    OBVIOUS
  <2>1. <<r, i>> \in EventKeys /\ <<r, i>>[1] = r /\ <<r, i>>[2] = i
    BY <1>1, KeyParts
  <2>2. i \in (s + 1)..(s + n + 1) /\ i - s \in 1..(n + 1) /\ i - s # 1 /\ i - s - 1 \in 1..n
    BY <1>1 DEF EventIds
  <2>. QED  BY <1>5, <1>6, <2>1, <2>2
<1>14. Grown(r, StatusAfter(d), n + 1)
  <2>1. runs'[r] = [runs[r] EXCEPT !.status = StatusAfter(d), !.seq = s + n + 1,
                                   !.epoch = runs[r].epoch + 1, !.pending = FALSE]
    BY <1>1, <1>6
  <2>2. /\ runs'[r].status = StatusAfter(d) /\ runs'[r].tenant = runs[r].tenant
        /\ runs'[r].parent = runs[r].parent /\ runs'[r].pending = FALSE
        /\ runs'[r].seq = s + n + 1 /\ runs'[r].epoch = runs[r].epoch + 1
    BY <1>3, <2>1 DEF Run
  <2>3. DOMAIN runs'[r] = DOMAIN runs[r] /\ runs'[r] = [k \in DOMAIN runs[r] |-> runs'[r][k]]
    BY <2>1
  <2>4. runs'[r].seq \in Nat /\ runs'[r].epoch \in Nat
        /\ runs'[r].status \in {"RUNNING"} \cup ClosedStatus
    BY <1>1, <1>3, <2>2, StatusAfterType DEF ClosedStatus
  <2>5. runs'[r].pending \in BOOLEAN
    BY <2>2, Zenon
  <2>6. runs'[r] \in Run
    BY <1>3, <2>2, <2>3, <2>4, <2>5, GrownRecord
  <2>7. runs'[r].seq = runs[r].seq + (n + 1)
    BY <1>1, <1>2, <2>2
  <2>. QED  BY <2>2, <2>6, <2>7 DEF Grown
<1>15. \A x \in RunIds : x # r /\ (Successor(p) => x # nextRun) => runs'[x] = runs[x]
  BY <1>6
<1>16. \A k \in EventKeys : k[1] # r /\ (Successor(p) => k[1] # nextRun) => hist'[k] = hist[k]
  <2>1. \A k \in EventKeys : k[1] # nextRun => k # <<nextRun, 1>>
    OBVIOUS
  <2>. QED  BY <1>6, <2>1
<1>17. ASSUME Successor(p) PROVE Created(nextRun, runs[r].tenant, r) /\ nextRun # r
  <2>1. nextRun \in RunIds /\ nextRun # r /\ nextRun' = nextRun + 1 /\ TaskPublished(nextRun)
    BY <1>6, <1>8, <1>17
  <2>2. runs'[nextRun] = NewRun(runs[r].tenant, r)
    BY <1>6, <1>17, <2>1
  <2>3. <<nextRun, 1>> \in EventKeys /\ <<nextRun, 1>>[1] = nextRun
    BY <2>1, Bounds, KeyParts
  <2>4. hist'[<<nextRun, 1>>] = NewEvent("WORKFLOW_STARTED", 0)
    BY <1>6, <1>17, <2>1, <2>3
  <2>5. \A i \in EventIds : i # 1 => hist'[<<nextRun, i>>] = hist[<<nextRun, i>>]
    <3>1. \A i \in EventIds : <<nextRun, i>> \in EventKeys /\ <<nextRun, i>>[1] = nextRun
                                /\ (i # 1 => <<nextRun, i>> # <<nextRun, 1>>)
      BY <2>1, KeyParts
    <3>. QED  BY <1>6, <2>1, <3>1
  <2>. QED  BY <2>1, <2>2, <2>4, <2>5 DEF Created
<1>18. runs' \in [RunIds -> Run \cup {NoRun}]
  <2>1. runs'[r] \in Run
    BY <1>14 DEF Grown
  <2>2. Successor(p) => runs'[nextRun] \in Run
    <3>1. r \in 0..MaxRun
      BY <1>1 DEF RunIds
    <3>. QED  BY <1>3, <1>17, <3>1, NewRunShape DEF Created
  <2>3. \A x \in RunIds : runs'[x] \in Run \cup {NoRun}
    BY <1>4, <1>15, <2>1, <2>2
  <2>. QED  BY <1>6, <2>3
<1>19. Recorded(p)
  BY <1>1, <1>2, <1>7, <1>11, <1>12, <1>13, <1>14 DEF Recorded
<1>20. ~Successor(p) => UNCHANGED <<nextRun, tasks, taskNext>>
  BY <1>6
<1>. QED  BY <1>10, <1>15, <1>16, <1>17, <1>18, <1>19, <1>20

\* dispatchActivity: the row of the last command on each queue.
OnQueue(p, q) == ScheduledOn(p.cmds, q, runs[p.run].tenant)

\* Dispatching publishes one activity for each queue the decision names.
LEMMA DispatchEffect ==
    ASSUME TypeOK, NEW p \in proposals, p.seq + Len(p.cmds) + 1 \in EventIds, DispatchActivities(p)
    PROVE  /\ acts' \in [ActKeys -> Act \cup {NoAct}] /\ actNext' \in [ActQueues -> 1..(MaxTask + 1)]
           /\ \A q \in ActQueues : OnQueue(p, q) # {} =>
                 actNext[q] \in TaskIds /\ actNext'[q] = actNext[q] + 1
           /\ \A q \in ActQueues : OnQueue(p, q) = {} => actNext'[q] = actNext[q]
           /\ \A k \in ActKeys : OnQueue(p, k[1]) # {} /\ k[2] = actNext[k[1]] =>
                 acts'[k] = [state |-> "READY", run |-> p.run,
                             event |-> p.seq + 1 + LastIn(OnQueue(p, k[1]))]
           /\ \A k \in ActKeys : ~(OnQueue(p, k[1]) # {} /\ k[2] = actNext[k[1]]) => acts'[k] = acts[k]
<1>1. /\ \A q \in ActQueues : OnQueue(p, q) # {} => actNext[q] \in TaskIds
      /\ acts' = [k \in ActKeys |->
            IF OnQueue(p, k[1]) # {} /\ k[2] = actNext[k[1]]
            THEN [state |-> "READY", run |-> p.run, event |-> p.seq + 1 + LastIn(OnQueue(p, k[1]))]
            ELSE acts[k]]
      /\ actNext' = [q \in ActQueues |-> IF OnQueue(p, q) # {} THEN actNext[q] + 1 ELSE actNext[q]]
  BY DEF DispatchActivities, OnQueue
<1>2. /\ acts \in [ActKeys -> Act \cup {NoAct}] /\ actNext \in [ActQueues -> 1..(MaxTask + 1)]
      /\ p.run \in RunIds /\ p.seq \in Nat /\ p.cmds \in Decisions /\ Len(p.cmds) \in Nat
  BY ProposalShape, DecisionShape DEF TypeOK
<1>3. ASSUME NEW q, OnQueue(p, q) # {} PROVE p.seq + 1 + LastIn(OnQueue(p, q)) \in EventIds
  <2>1. OnQueue(p, q) \subseteq 1..Len(p.cmds)
    BY <1>2, DecisionShape DEF OnQueue, ScheduledOn
  <2>. DEFINE m == LastIn(OnQueue(p, q))
  <2>2. m \in Nat /\ m >= 1 /\ m <= Len(p.cmds)
    BY <1>2, <1>3, <2>1, LastInSet
  <2>. HIDE DEF m
  <2>3. p.seq + 1 + m \in EventIds
    BY <1>2, <2>2, Bounds DEF EventIds
  <2>. QED  BY <2>3 DEF m
<1>. HIDE DEF OnQueue
<1>4. ASSUME NEW k \in ActKeys PROVE acts'[k] \in Act \cup {NoAct}
  <2>1. CASE OnQueue(p, k[1]) # {} /\ k[2] = actNext[k[1]]
    <3>. DEFINE e == p.seq + 1 + LastIn(OnQueue(p, k[1]))
    <3>1. e \in EventIds
      BY <1>3, <2>1
    <3>2. acts'[k] = [state |-> "READY", run |-> p.run, event |-> e]
      BY <1>1, <2>1
    <3>. HIDE DEF e
    <3>. QED  BY <1>2, <3>1, <3>2 DEF Act
  <2>2. CASE ~(OnQueue(p, k[1]) # {} /\ k[2] = actNext[k[1]])
    BY <1>1, <1>2, <2>2
  <2>. QED  BY <2>1, <2>2
<1>5. acts' \in [ActKeys -> Act \cup {NoAct}]
  BY <1>1, <1>4
<1>6. ASSUME NEW q \in ActQueues PROVE actNext'[q] \in 1..(MaxTask + 1)
  <2>1. OnQueue(p, q) # {} => actNext[q] + 1 \in 1..(MaxTask + 1)
    BY <1>1, Bounds DEF TaskIds
  <2>. QED  BY <1>1, <1>2, <2>1
<1>7. actNext' \in [ActQueues -> 1..(MaxTask + 1)]
  BY <1>1, <1>6
<1>. QED  BY <1>1, <1>5, <1>7

\* The timers a decision arms name event keys.
LEMMA ArmEffect ==
    ASSUME TypeOK, NEW p \in proposals, p.seq + Len(p.cmds) + 1 \in EventIds
    PROVE  ArmTimers(p) \subseteq EventKeys
<1>1. /\ p.run \in RunIds /\ p.seq \in Nat /\ p.cmds \in Decisions /\ Len(p.cmds) \in Nat
      /\ CommandsOf(p.cmds, {"start_timer"}) \subseteq 1..Len(p.cmds) /\ timers \subseteq EventKeys
  BY ProposalShape, DecisionShape DEF TypeOK
<1>2. \A i \in 1..Len(p.cmds) : p.seq + 1 + i \in EventIds
  BY <1>1, Bounds DEF EventIds
<1>3. \A i \in 1..Len(p.cmds) : <<p.run, p.seq + 1 + i>> \in EventKeys
  BY <1>1, <1>2, KeyParts
<1>. QED  BY <1>1, <1>3 DEF ArmTimers

-----------------------------------------------------------------------------
(* Types                                                                   *)

Phases == {"leased", "loaded", "replayed", "proposed", "ack", "nack"}

\* A busy worker has a task, and what it read.
LEMMA WorkerShape ==
    ASSUME TypeOK, NEW w \in Workers
    PROVE  /\ worker[w] = Idle <=> worker[w].phase = "idle"
           /\ worker[w] # Idle =>
                /\ worker[w] \in Busy /\ worker[w].phase \in Phases /\ worker[w].key \in TaskKeys
                /\ worker[w].epoch \in Nat /\ worker[w].seq \in Nat
                /\ worker[w].saw \in SUBSET EventIds /\ worker[w].key[1] \in RunIds
<1>1. worker[w] = Idle \/ worker[w] \in Busy
  BY DEF TypeOK
<1>2. worker[w] = Idle => worker[w].phase = "idle"
  BY DEF Idle
<1>3. worker[w] \in Busy =>
         /\ worker[w].phase \in Phases /\ worker[w].key \in TaskKeys
         /\ worker[w].epoch \in Nat /\ worker[w].seq \in Nat /\ worker[w].saw \in SUBSET EventIds
  BY DEF Busy, Phases
<1>4. "idle" \notin Phases
  BY DEF Phases
<1>. QED  BY <1>1, <1>2, <1>3, <1>4, KeyParts

\* A worker's phase changes and nothing else of it.
LEMMA PhaseEffect ==
    ASSUME TypeOK, NEW w \in Workers, worker[w] # Idle, NEW ph \in Phases,
           worker' = [worker EXCEPT ![w].phase = ph]
    PROVE  /\ worker' \in [Workers -> Busy \cup {Idle}]
           /\ worker'[w] \in Busy /\ worker'[w].phase = ph /\ worker'[w].key = worker[w].key
           /\ worker'[w].epoch = worker[w].epoch /\ worker'[w].seq = worker[w].seq
           /\ worker'[w].saw = worker[w].saw
           /\ \A v \in Workers : v # w => worker'[v] = worker[v]
<1>1. worker \in [Workers -> Busy \cup {Idle}] /\ worker[w] \in Busy
  BY WorkerShape DEF TypeOK
<1>2. worker'[w] = [worker[w] EXCEPT !.phase = ph]
  BY <1>1
<1>3. worker'[w] \in Busy
  BY <1>1, <1>2 DEF Busy, Phases
<1>4. /\ worker'[w].phase = ph /\ worker'[w].key = worker[w].key
      /\ worker'[w].epoch = worker[w].epoch /\ worker'[w].seq = worker[w].seq
      /\ worker'[w].saw = worker[w].saw
  BY <1>1, <1>2 DEF Busy
<1>. QED  BY <1>1, <1>3, <1>4

\* A proposal a worker still waits for is the one of its decision.
OwnedBy(p, w) ==
    /\ worker[w].phase = "proposed" /\ worker[w].key[1] = p.run
    /\ worker[w].epoch = p.epoch /\ worker[w].seq = p.seq /\ worker[w].saw = p.saw

Owners ==
    \A p \in proposals : p.by \in Workers =>
        OwnedBy(p, p.by) /\ \A q \in proposals : q.by = p.by => q = p

Typed == TypeOK /\ Fresh /\ Owners

\* What the worker proposed loses its owner.
LEMMA DisownedEffect ==
    ASSUME TypeOK, NEW w \in Workers
    PROVE  /\ Disowned(w) \subseteq Proposal
           /\ \A q \in Disowned(w) : \E p \in proposals :
                 /\ q.run = p.run /\ q.epoch = p.epoch /\ q.seq = p.seq /\ q.saw = p.saw
                 /\ q.cmds = p.cmds /\ q.by # w /\ (q.by # NoWorker => q = p)
<1>1. ASSUME NEW q \in Disowned(w)
      PROVE  q \in Proposal /\ \E p \in proposals :
                 /\ q.run = p.run /\ q.epoch = p.epoch /\ q.seq = p.seq /\ q.saw = p.saw
                 /\ q.cmds = p.cmds /\ q.by # w /\ (q.by # NoWorker => q = p)
  <2>1. PICK p \in proposals : q = [p EXCEPT !.by = IF p.by = w THEN NoWorker ELSE p.by]
    BY <1>1 DEF Disowned
  <2>2. p \in Proposal
    BY ProposalShape
  <2>3. /\ q.run = p.run /\ q.epoch = p.epoch /\ q.seq = p.seq /\ q.saw = p.saw /\ q.cmds = p.cmds
        /\ q.by = IF p.by = w THEN NoWorker ELSE p.by
    BY <2>1, <2>2 DEF Proposal
  <2>4. q \in Proposal
    BY <2>1, <2>2 DEF Proposal
  <2>5. q.by # w
    BY <2>3, Bounds
  <2>6. p.by # w => q = p
    BY <2>1, <2>2 DEF Proposal
  <2>. QED  BY <2>3, <2>4, <2>5, <2>6
<1>. QED  BY <1>1

\* Owners depends on the workers and the proposals only.
LEMMA OwnersUntouched ==
    ASSUME Owners, UNCHANGED <<worker, proposals>> PROVE Owners'
  BY DEF Owners, OwnedBy

\* Fresh depends on the runs only.
LEMMA FreshUntouched ==
    ASSUME Fresh, UNCHANGED <<runs, nextRun>> PROVE Fresh'
  BY DEF Fresh

\* An append to a running run takes no new run id.
LEMMA FreshAppended ==
    ASSUME TypeOK, Fresh, UNCHANGED nextRun, NEW r \in RunIds, Running(r), runs'[r] \in Run,
           \A x \in RunIds : x # r => runs'[x] = runs[x]
    PROVE  Fresh'
<1>1. runs[r] # NoRun
  BY RunShape
<1>2. NoRun \notin Run
  BY DEF NoRun, Run, ClosedStatus
<1>. QED  BY <1>1, <1>2 DEF Fresh

\* The external event of any command.
LEMMA ExternalTyped ==
    ASSUME Typed, NEW r \in RunIds, Running(r), NEW type \in EventTypes, NEW ref \in 0..MaxEvent,
           AppendExternal(r, type, ref), UNCHANGED <<nextRun, actNext, worker, proposals, faults>>,
           done' \subseteq EventKeys, timers' \subseteq EventKeys, acts' \in [ActKeys -> Act \cup {NoAct}]
    PROVE  Typed'
<1>0. TypeOK /\ Fresh /\ Owners
  BY DEF Typed
<1>1. /\ Appended(r, type, ref, "RUNNING")
      /\ runs' \in [RunIds -> Run \cup {NoRun}] /\ hist' \in [EventKeys -> Event \cup {NoEvent}]
      /\ TaskPublished(r)
  BY <1>0, ExternalEffect
<1>2. tasks' \in [TaskKeys -> Task \cup {NoTask}] /\ taskNext' \in [RunIds -> 1..(MaxTask + 1)]
  BY <1>0, <1>1, PublishedEffect
<1>3. TypeOK'
  BY <1>0, <1>1, <1>2 DEF TypeOK
<1>4. Fresh'
  BY <1>0, <1>1, FreshAppended DEF Appended, Grown
<1>. QED  BY <1>0, <1>3, <1>4, OwnersUntouched DEF Typed

\* A leased activity names its run and event.
LEMMA DeadLetterTyped ==
    ASSUME TypeOK, NEW k \in ActKeys, acts[k].state = "LEASED"
    PROVE  acts[k] \in Act /\ acts[k].run \in RunIds /\ acts[k].event \in EventIds
<1>1. acts[k] \in Act \/ acts[k] = NoAct
  BY DEF TypeOK
<1>2. acts[k] # NoAct
  BY DEF NoAct
<1>. QED  BY <1>1, <1>2 DEF Act

\* Recording the end of an activity keeps the types.
LEMMA TerminalTyped ==
    ASSUME Typed, NEW r \in RunIds, NEW e \in EventIds,
           NEW type \in {"ACTIVITY_COMPLETED", "ACTIVITY_FAILED"},
           RecordActivityTerminal(r, e, type), UNCHANGED <<nextRun, actNext, timers, worker, proposals, faults>>,
           acts' \in [ActKeys -> Act \cup {NoAct}]
    PROVE  Typed'
<1>0. TypeOK /\ Fresh /\ Owners
  BY DEF Typed
<1>1. CASE TerminalDue(r, e)
  <2>1. AppendExternal(r, type, e) /\ done' = done \cup {<<r, e>>} /\ Running(r)
    BY <1>1 DEF RecordActivityTerminal, TerminalDue
  <2>2. type \in EventTypes /\ e \in 0..MaxEvent
    BY Bounds DEF EventTypes, EventIds
  <2>3. done' \subseteq EventKeys /\ timers' \subseteq EventKeys
    BY <1>0, <2>1, KeyParts DEF TypeOK
  <2>. QED  BY <2>1, <2>2, <2>3, ExternalTyped
<1>2. CASE ~TerminalDue(r, e)
  <2>1. UNCHANGED <<hist, runs, tasks, taskNext, done>>
    BY <1>2 DEF RecordActivityTerminal
  <2>2. TypeOK'
    BY <1>0, <2>1 DEF TypeOK
  <2>. QED  BY <1>0, <2>1, <2>2, OwnersUntouched, FreshUntouched DEF Typed
<1>. QED  BY <1>1, <1>2

\* A client call keeps the types.
LEMMA ClientTyped ==
    ASSUME Typed, ClientNext PROVE Typed'
<1>0. TypeOK /\ Fresh /\ Owners
  BY DEF Typed
<1>1. ASSUME NEW t \in Tenants, StartRun(t) PROVE Typed'
  <2>1. /\ Created(nextRun, t, 0)
        /\ \A x \in RunIds : x # nextRun => runs'[x] = runs[x]
        /\ runs' \in [RunIds -> Run \cup {NoRun}] /\ hist' \in [EventKeys -> Event \cup {NoEvent}]
    BY <1>0, <1>1, StartEffect
  <2>2. nextRun \in RunIds /\ nextRun' = nextRun + 1 /\ TaskPublished(nextRun)
        /\ runs'[nextRun] = NewRun(t, 0)
    BY <2>1 DEF Created
  <2>3. tasks' \in [TaskKeys -> Task \cup {NoTask}] /\ taskNext' \in [RunIds -> 1..(MaxTask + 1)]
    BY <1>0, <2>2, PublishedEffect
  <2>4. nextRun' \in 1..(MaxRun + 1)
    BY <2>2, Bounds DEF RunIds
  <2>5. TypeOK'
    BY <1>0, <1>1, <2>1, <2>3, <2>4 DEF StartRun, TypeOK
  <2>6. Fresh'
    <3>1. runs'[nextRun] # NoRun
      BY <2>2, Bounds, NewRunShape
    <3>2. \A x \in RunIds : x >= nextRun + 1 <=> (x >= nextRun /\ x # nextRun)
      BY <2>2 DEF RunIds
    <3>3. nextRun \in Nat
      BY <2>2 DEF RunIds
    <3>. QED  BY <1>0, <2>1, <2>2, <3>1, <3>2, <3>3 DEF Fresh
  <2>7. Owners'
    BY <1>0, <1>1, OwnersUntouched DEF StartRun
  <2>. QED  BY <2>5, <2>6, <2>7 DEF Typed
<1>2. ASSUME NEW r \in RunIds, Signal(r) PROVE Typed'
  <2>1. "SIGNAL_RECEIVED" \in EventTypes /\ 0 \in 0..MaxEvent
    BY Bounds DEF EventTypes
  <2>2. /\ Running(r) /\ AppendExternal(r, "SIGNAL_RECEIVED", 0)
        /\ UNCHANGED <<done, nextRun, actNext, acts, timers, worker, proposals, faults>>
    BY <1>2 DEF Signal
  <2>3. done' \subseteq EventKeys /\ timers' \subseteq EventKeys /\ acts' \in [ActKeys -> Act \cup {NoAct}]
    BY <1>0, <2>2 DEF TypeOK
  <2>. QED  BY <2>1, <2>2, <2>3, ExternalTyped
<1>3. ASSUME NEW r \in RunIds, Cancel(r) PROVE Typed'
  <2>1. /\ Appended(r, "WORKFLOW_CANCELED", 0, "CANCELED")
        /\ runs' \in [RunIds -> Run \cup {NoRun}] /\ hist' \in [EventKeys -> Event \cup {NoEvent}]
    BY <1>0, <1>3, CancelEffect
  <2>2. UNCHANGED <<done, nextRun, taskNext, tasks, actNext, acts, timers, worker, proposals, faults>>
    BY <1>3 DEF Cancel, queues
  <2>3. TypeOK'
    BY <1>0, <2>1, <2>2 DEF TypeOK
  <2>4. Fresh'
    BY <1>0, <2>1, <2>2, FreshAppended DEF Appended, Grown
  <2>. QED  BY <1>0, <2>2, <2>3, <2>4, OwnersUntouched DEF Typed
<1>. QED  BY <1>1, <1>2, <1>3 DEF ClientNext

\* An activity worker keeps the types.
LEMMA ActivityTyped ==
    ASSUME Typed, ActivityNext PROVE Typed'
<1>0. TypeOK /\ Fresh /\ Owners /\ acts \in [ActKeys -> Act \cup {NoAct}]
  BY DEF Typed, TypeOK
<1>1. ASSUME NEW r \in RunIds, NEW e \in EventIds,
             NEW type \in {"ACTIVITY_COMPLETED", "ACTIVITY_FAILED"}, CompleteActivity(r, e, type)
      PROVE  Typed'
  <2>1. /\ RecordActivityTerminal(r, e, type)
        /\ UNCHANGED <<nextRun, actNext, acts, timers, worker, proposals, faults>>
    BY <1>1 DEF CompleteActivity
  <2>. QED  BY <1>0, <2>1, TerminalTyped
<1>2. ASSUME NEW k \in ActKeys, ActivityDeadLettered(k) PROVE Typed'
  <2>1. /\ acts[k].state = "LEASED" /\ acts' = [acts EXCEPT ![k] = NoAct]
        /\ RecordActivityTerminal(acts[k].run, acts[k].event, "ACTIVITY_FAILED")
        /\ UNCHANGED <<nextRun, actNext, timers, worker, proposals, faults>>
    BY <1>2 DEF ActivityDeadLettered, Bridge
  <2>2. acts[k].run \in RunIds /\ acts[k].event \in EventIds
    BY <1>0, <2>1, DeadLetterTyped
  <2>3. acts' \in [ActKeys -> Act \cup {NoAct}]
    BY <1>0, <2>1
  <2>. QED  BY <2>1, <2>2, <2>3, TerminalTyped
<1>3. ASSUME NEW k \in ActKeys, LeaseActivity(k) \/ AckActivity(k) \/ ActivityReturned(k) PROVE Typed'
  <2>1. /\ acts[k].state \in {"READY", "LEASED"}
        /\ \/ acts' = [acts EXCEPT ![k] = NoAct]
           \/ \E st \in {"READY", "LEASED"} : acts' = [acts EXCEPT ![k].state = st]
        /\ UNCHANGED <<runs, hist, done, nextRun, taskNext, tasks, actNext, timers, worker,
                       proposals, faults>>
    BY <1>3 DEF LeaseActivity, AckActivity, ActivityReturned
  <2>2. acts[k] \in Act
    BY <1>0, <2>1 DEF NoAct
  <2>3. \A st \in {"READY", "LEASED"} : [acts[k] EXCEPT !.state = st] \in Act
    BY <2>2 DEF Act
  <2>4. acts' \in [ActKeys -> Act \cup {NoAct}]
    BY <1>0, <2>1, <2>3
  <2>5. TypeOK'
    BY <1>0, <2>1, <2>4 DEF TypeOK
  <2>. QED  BY <1>0, <2>1, <2>5, OwnersUntouched, FreshUntouched DEF Typed
<1>. QED  BY <1>1, <1>2, <1>3 DEF ActivityNext

\* The steps of one worker leave runs and histories alone.
LEMMA WorkerTyped ==
    ASSUME Typed, NEW w \in Workers, WorkerStep(w) PROVE Typed'
<1>0. TypeOK /\ Fresh /\ Owners /\ worker \in [Workers -> Busy \cup {Idle}]
      /\ tasks \in [TaskKeys -> Task \cup {NoTask}]
  BY DEF Typed, TypeOK
<1>1. ASSUME NEW r \in RunIds, NEW i \in TaskIds, LeaseTask(w, r, i) PROVE Typed'
  <2>. DEFINE b == [phase |-> "leased", key |-> <<r, i>>, epoch |-> 0, seq |-> 0, saw |-> {}]
  <2>1. /\ worker[w] = Idle /\ worker' = [worker EXCEPT ![w] = b]
        /\ tasks' = [tasks EXCEPT ![<<r, i>>] = [state |-> "LEASED", holder |-> w]]
        /\ UNCHANGED <<runs, hist, done, nextRun, taskNext, actNext, acts, timers, proposals, faults>>
    BY <1>1 DEF LeaseTask
  <2>2. b \in Busy
    BY KeyParts DEF Busy
  <2>. HIDE DEF b
  <2>3. [state |-> "LEASED", holder |-> w] \in Task
    BY DEF Task
  <2>4. worker' \in [Workers -> Busy \cup {Idle}] /\ tasks' \in [TaskKeys -> Task \cup {NoTask}]
    BY <1>0, <2>1, <2>2, <2>3
  <2>5. TypeOK'
    BY <1>0, <2>1, <2>4 DEF TypeOK
  <2>6. \A p \in proposals : p.by \in Workers => p.by # w
    <3>1. worker[w].phase # "proposed"
      BY <2>1 DEF Idle
    <3>. QED  BY <1>0, <3>1 DEF Owners, OwnedBy
  <2>7. Owners'
    BY <1>0, <2>1, <2>6 DEF Owners, OwnedBy
  <2>. QED  BY <1>0, <2>1, <2>5, <2>7, FreshUntouched DEF Typed
<1>2. CASE LoadRun(w)
  <2>. DEFINE r == worker[w].key[1]
              b == IF Running(r) THEN [worker[w] EXCEPT !.phase = "loaded", !.epoch = runs[r].epoch,
                                                        !.seq = runs[r].seq]
                   ELSE [worker[w] EXCEPT !.phase = "ack"]
  <2>1. /\ worker[w].phase = "leased" /\ worker' = [worker EXCEPT ![w] = b]
        /\ UNCHANGED <<runs, hist, done, nextRun, taskNext, tasks, actNext, acts, timers, proposals, faults>>
    BY <1>0, <1>2 DEF LoadRun, queues
  <2>2. worker[w] \in Busy /\ r \in RunIds
    BY <1>0, <2>1, WorkerShape
  <2>3. b \in Busy
    <3>1. CASE Running(r)
      <4>1. runs[r].epoch \in Nat /\ runs[r].seq \in Nat
        BY <1>0, <2>2, <3>1, RunShape
      <4>2. [worker[w] EXCEPT !.phase = "loaded", !.epoch = runs[r].epoch, !.seq = runs[r].seq] \in Busy
        BY <2>2, <4>1 DEF Busy
      <4>. QED  BY <3>1, <4>2
    <3>2. CASE ~Running(r)
      <4>1. [worker[w] EXCEPT !.phase = "ack"] \in Busy
        BY <2>2 DEF Busy
      <4>. QED  BY <3>2, <4>1
    <3>. QED  BY <3>1, <3>2
  <2>. HIDE DEF b
  <2>4. worker' \in [Workers -> Busy \cup {Idle}]
    BY <1>0, <2>1, <2>3
  <2>5. TypeOK'
    BY <1>0, <2>1, <2>4 DEF TypeOK
  <2>6. \A p \in proposals : p.by \in Workers => p.by # w
    BY <1>0, <2>1 DEF Owners, OwnedBy
  <2>7. Owners'
    BY <1>0, <2>1, <2>6 DEF Owners, OwnedBy
  <2>. QED  BY <1>0, <2>1, <2>5, <2>7, FreshUntouched DEF Typed
<1>3. CASE ReplayHistory(w)
  <2>. DEFINE b == [worker[w] EXCEPT !.phase = "replayed", !.saw = Written(worker[w].key[1])]
  <2>1. /\ worker[w].phase = "loaded" /\ worker' = [worker EXCEPT ![w] = b]
        /\ UNCHANGED <<runs, hist, done, nextRun, taskNext, tasks, actNext, acts, timers, proposals, faults>>
    BY <1>0, <1>3 DEF ReplayHistory, queues
  <2>2. worker[w] \in Busy /\ Written(worker[w].key[1]) \in SUBSET EventIds
    BY <1>0, <2>1, WorkerShape DEF Written
  <2>3. b \in Busy
    BY <2>2 DEF Busy
  <2>. HIDE DEF b
  <2>4. worker' \in [Workers -> Busy \cup {Idle}]
    BY <1>0, <2>1, <2>3
  <2>5. TypeOK'
    BY <1>0, <2>1, <2>4 DEF TypeOK
  <2>6. \A p \in proposals : p.by \in Workers => p.by # w
    BY <1>0, <2>1 DEF Owners, OwnedBy
  <2>7. Owners'
    BY <1>0, <2>1, <2>6 DEF Owners, OwnedBy
  <2>. QED  BY <1>0, <2>1, <2>5, <2>7, FreshUntouched DEF Typed
<1>4. ASSUME NEW d \in Decisions, Propose(w, d) PROVE Typed'
  <2>. DEFINE n == [by |-> w, run |-> worker[w].key[1], epoch |-> worker[w].epoch,
                    seq |-> worker[w].seq, saw |-> worker[w].saw, cmds |-> d]
  <2>1. /\ worker[w].phase = "replayed" /\ worker' = [worker EXCEPT ![w].phase = "proposed"]
        /\ proposals' = proposals \cup {n}
        /\ UNCHANGED <<runs, hist, done, nextRun, taskNext, tasks, actNext, acts, timers, faults>>
    BY <1>4 DEF Propose, queues
  <2>2. worker[w] # Idle
    BY <1>0, <2>1, WorkerShape
  <2>3. n \in Proposal
    BY <1>0, <2>2, WorkerShape DEF Proposal
  <2>4. n.by = w /\ n.run = worker[w].key[1] /\ n.epoch = worker[w].epoch /\ n.seq = worker[w].seq
        /\ n.saw = worker[w].saw
    OBVIOUS
  <2>. HIDE DEF n
  <2>5. /\ worker' \in [Workers -> Busy \cup {Idle}]
        /\ worker'[w].phase = "proposed" /\ worker'[w].key = worker[w].key
        /\ worker'[w].epoch = worker[w].epoch /\ worker'[w].seq = worker[w].seq
        /\ worker'[w].saw = worker[w].saw
        /\ \A v \in Workers : v # w => worker'[v] = worker[v]
    BY <1>0, <2>1, <2>2, PhaseEffect DEF Phases
  <2>6. TypeOK'
    BY <1>0, <2>1, <2>3, <2>5 DEF TypeOK
  <2>7. \A p \in proposals : p.by \in Workers => p.by # w
    BY <1>0, <2>1 DEF Owners, OwnedBy
  <2>8. Owners'
    BY <1>0, <2>1, <2>4, <2>5, <2>7 DEF Owners, OwnedBy
  <2>. QED  BY <1>0, <2>1, <2>6, <2>8, FreshUntouched DEF Typed
<1>5. CASE GateStale(w)
  <2>1. /\ worker[w].phase = "replayed" /\ worker' = [worker EXCEPT ![w].phase = "ack"]
        /\ UNCHANGED <<runs, hist, done, nextRun, taskNext, tasks, actNext, acts, timers, proposals, faults>>
    BY <1>5 DEF GateStale, queues
  <2>2. worker[w] # Idle
    BY <1>0, <2>1, WorkerShape
  <2>3. worker' \in [Workers -> Busy \cup {Idle}]
    BY <1>0, <2>1, <2>2, PhaseEffect DEF Phases
  <2>4. TypeOK'
    BY <1>0, <2>1, <2>3 DEF TypeOK
  <2>5. \A p \in proposals : p.by \in Workers => p.by # w
    BY <1>0, <2>1 DEF Owners, OwnedBy
  <2>6. Owners'
    BY <1>0, <2>1, <2>5 DEF Owners, OwnedBy
  <2>. QED  BY <1>0, <2>1, <2>4, <2>6, FreshUntouched DEF Typed
<1>6. CASE SettleTask(w)
  <2>1. /\ worker[w].phase \in {"ack", "nack"} /\ worker' = [worker EXCEPT ![w] = Idle]
        /\ tasks' = IF Holds(w)
                    THEN [tasks EXCEPT ![worker[w].key] =
                            IF worker[w].phase = "ack" THEN NoTask ELSE ReadyTask]
                    ELSE tasks
        /\ UNCHANGED <<runs, hist, done, nextRun, taskNext, actNext, acts, timers, proposals, faults>>
    BY <1>6 DEF SettleTask
  <2>2. ReadyTask \in Task
    BY DEF ReadyTask, Task
  <2>3. worker' \in [Workers -> Busy \cup {Idle}] /\ tasks' \in [TaskKeys -> Task \cup {NoTask}]
    BY <1>0, <2>1, <2>2
  <2>4. TypeOK'
    BY <1>0, <2>1, <2>3 DEF TypeOK
  <2>5. \A p \in proposals : p.by \in Workers => p.by # w
    BY <1>0, <2>1 DEF Owners, OwnedBy
  <2>6. Owners'
    BY <1>0, <2>1, <2>5 DEF Owners, OwnedBy
  <2>. QED  BY <1>0, <2>1, <2>4, <2>6, FreshUntouched DEF Typed
<1>. QED  BY <1>1, <1>2, <1>3, <1>4, <1>5, <1>6 DEF WorkerStep

\* A fault keeps the types.
LEMMA FaultTyped ==
    ASSUME Typed, FaultNext PROVE Typed'
<1>0. TypeOK /\ Fresh /\ Owners /\ worker \in [Workers -> Busy \cup {Idle}] /\ faults \in 0..MaxFaults
  BY DEF Typed, TypeOK
<1>1. PICK w \in Workers : GateReject(w) \/ GiveUp(w) \/ WorkerCrash(w)
  BY DEF FaultNext
<1>2. /\ faults < MaxFaults /\ faults' = faults + 1 /\ faults' \in 0..MaxFaults
      /\ UNCHANGED <<runs, hist, done, nextRun, taskNext, tasks, actNext, acts, timers>>
  BY <1>0, <1>1, Bounds DEF GateReject, GiveUp, WorkerCrash, queues
<1>3. CASE GateReject(w)
  <2>1. /\ worker[w].phase = "replayed" /\ worker' = [worker EXCEPT ![w].phase = "nack"]
        /\ UNCHANGED proposals
    BY <1>3 DEF GateReject
  <2>2. worker[w] # Idle
    BY <1>0, <2>1, WorkerShape
  <2>3. worker' \in [Workers -> Busy \cup {Idle}]
    BY <1>0, <2>1, <2>2, PhaseEffect DEF Phases
  <2>4. TypeOK'
    BY <1>0, <1>2, <2>1, <2>3 DEF TypeOK
  <2>5. \A p \in proposals : p.by \in Workers => p.by # w
    BY <1>0, <2>1 DEF Owners, OwnedBy
  <2>6. Owners'
    BY <1>0, <2>1, <2>5 DEF Owners, OwnedBy
  <2>. QED  BY <1>0, <1>2, <2>4, <2>6, FreshUntouched DEF Typed
<1>4. CASE GiveUp(w) \/ WorkerCrash(w)
  <2>1. /\ proposals' = Disowned(w) /\ worker[w] # Idle
        /\ worker' = [worker EXCEPT ![w].phase = "nack"] \/ worker' = [worker EXCEPT ![w] = Idle]
    BY <1>0, <1>4, WorkerShape DEF GiveUp, WorkerCrash
  <2>2. /\ worker' \in [Workers -> Busy \cup {Idle}]
        /\ \A v \in Workers : v # w => worker'[v] = worker[v]
    <3>1. CASE worker' = [worker EXCEPT ![w].phase = "nack"]
      BY <1>0, <2>1, <3>1, PhaseEffect DEF Phases
    <3>2. CASE worker' = [worker EXCEPT ![w] = Idle]
      BY <1>0, <3>2
    <3>. QED  BY <2>1, <3>1, <3>2
  <2>3. /\ proposals' \subseteq Proposal
        /\ \A q \in proposals' : q.by # w /\ (q.by # NoWorker => q \in proposals)
    BY <1>0, <2>1, DisownedEffect
  <2>4. TypeOK'
    BY <1>0, <1>2, <2>2, <2>3 DEF TypeOK
  <2>5. Owners'
    BY <1>0, <2>2, <2>3, Bounds DEF Owners, OwnedBy
  <2>. QED  BY <1>0, <1>2, <2>4, <2>5, FreshUntouched DEF Typed
<1>. QED  BY <1>1, <1>3, <1>4

\* The answer to a proposal reaches the worker that waits for it.
LEMMA AnswerTyped ==
    ASSUME Typed, NEW p \in proposals, ApplyAppend(p)
    PROVE  worker' \in [Workers -> Busy \cup {Idle}] /\ Owners'
<1>0. TypeOK /\ Owners /\ worker \in [Workers -> Busy \cup {Idle}]
  BY DEF Typed, TypeOK
<1>1. /\ proposals' = proposals \ {p}
      /\ worker' = IF p.by = NoWorker THEN worker ELSE [worker EXCEPT ![p.by].phase = "ack"]
  BY DEF ApplyAppend
<1>2. CASE p.by = NoWorker
  <2>1. Owners'
    BY <1>0, <1>1, <1>2 DEF Owners, OwnedBy
  <2>. QED  BY <1>0, <1>1, <1>2, <2>1
<1>3. CASE p.by # NoWorker
  <2>. DEFINE w == p.by
  <2>1. w \in Workers /\ worker[w].phase = "proposed"
    BY <1>0, <1>3, ProposalShape DEF Owners, OwnedBy
  <2>2. worker[w] # Idle
    BY <1>0, <2>1, WorkerShape
  <2>3. /\ worker' \in [Workers -> Busy \cup {Idle}]
        /\ \A v \in Workers : v # w => worker'[v] = worker[v]
    BY <1>0, <1>1, <1>3, <2>1, <2>2, PhaseEffect DEF Phases
  <2>4. \A q \in proposals' : q \in proposals /\ q.by # w
    BY <1>0, <1>1, <2>1 DEF Owners
  <2>5. Owners'
    BY <1>0, <2>3, <2>4 DEF Owners, OwnedBy
  <2>. QED  BY <2>3, <2>5
<1>. QED  BY <1>2, <1>3

\* An applied append keeps the types.
LEMMA ApplyTyped ==
    ASSUME Typed, NEW p \in proposals, ApplyAppend(p) PROVE Typed'
<1>0. TypeOK /\ Fresh /\ Owners
  BY DEF Typed
<1>1. /\ proposals' = proposals \ {p} /\ UNCHANGED <<done, faults>>
      /\ Fence(p) => AppendEvents(p)
      /\ ~Fence(p) => UNCHANGED <<hist, runs, nextRun, taskNext, tasks, actNext, acts, timers>>
  BY DEF ApplyAppend, queues
<1>2. worker' \in [Workers -> Busy \cup {Idle}] /\ Owners'
  BY AnswerTyped
<1>3. CASE ~Fence(p)
  <2>1. TypeOK'
    BY <1>0, <1>1, <1>2, <1>3 DEF TypeOK
  <2>. QED  BY <1>0, <1>1, <1>2, <1>3, <2>1, FreshUntouched DEF Typed
<1>4. CASE Fence(p)
  <2>1. /\ Recorded(p)
        /\ Successor(p) => Created(nextRun, runs[p.run].tenant, p.run) /\ nextRun # p.run
        /\ ~Successor(p) => UNCHANGED <<nextRun, tasks, taskNext>>
        /\ \A x \in RunIds : x # p.run /\ (Successor(p) => x # nextRun) => runs'[x] = runs[x]
        /\ runs' \in [RunIds -> Run \cup {NoRun}] /\ hist' \in [EventKeys -> Event \cup {NoEvent}]
    BY <1>0, <1>1, <1>4, DecisionEffect
  <2>2. p.run \in RunIds /\ p.seq + Len(p.cmds) + 1 \in EventIds /\ Running(p.run) /\ runs'[p.run] \in Run
    BY <2>1 DEF Recorded, Grown
  <2>3. DispatchActivities(p) /\ timers' = ArmTimers(p)
    BY <1>1, <1>4 DEF AppendEvents
  <2>4. /\ acts' \in [ActKeys -> Act \cup {NoAct}] /\ actNext' \in [ActQueues -> 1..(MaxTask + 1)]
        /\ timers' \subseteq EventKeys
    BY <1>0, <2>2, <2>3, DispatchEffect, ArmEffect
  <2>5. /\ tasks' \in [TaskKeys -> Task \cup {NoTask}] /\ taskNext' \in [RunIds -> 1..(MaxTask + 1)]
        /\ nextRun' \in 1..(MaxRun + 1)
    <3>1. CASE Successor(p)
      <4>1. nextRun \in RunIds /\ nextRun' = nextRun + 1 /\ TaskPublished(nextRun)
        BY <2>1, <3>1 DEF Created
      <4>2. nextRun' \in 1..(MaxRun + 1)
        BY <4>1, Bounds DEF RunIds
      <4>. QED  BY <1>0, <4>1, <4>2, PublishedEffect
    <3>2. CASE ~Successor(p)
      BY <1>0, <2>1, <3>2 DEF TypeOK
    <3>. QED  BY <3>1, <3>2
  <2>6. TypeOK'
    BY <1>0, <1>1, <1>2, <2>1, <2>4, <2>5 DEF TypeOK
  <2>7. runs[p.run] # NoRun /\ runs'[p.run] # NoRun
    <3>1. NoRun \notin Run
      BY DEF NoRun, Run, ClosedStatus
    <3>. QED  BY <1>0, <2>2, <3>1, RunShape
  <2>8. Fresh'
    <3>1. CASE Successor(p)
      <4>1. nextRun \in RunIds /\ nextRun' = nextRun + 1 /\ runs'[nextRun] = NewRun(runs[p.run].tenant, p.run)
            /\ nextRun # p.run
        BY <2>1, <3>1 DEF Created
      <4>2. runs[p.run].tenant \in Tenants /\ p.run \in 0..MaxRun
        BY <1>0, <2>2, <2>7, RunShape DEF RunIds
      <4>3. runs'[nextRun] # NoRun
        BY <4>1, <4>2, NewRunShape
      <4>4. /\ \A x \in RunIds : x >= nextRun + 1 <=> (x >= nextRun /\ x # nextRun)
            /\ nextRun >= nextRun
        BY <4>1 DEF RunIds
      <4>5. ASSUME NEW x \in RunIds PROVE runs'[x] = NoRun <=> x >= nextRun'
        BY <1>0, <2>1, <2>7, <4>1, <4>3, <4>4 DEF Fresh
      <4>. QED  BY <4>5 DEF Fresh
    <3>2. CASE ~Successor(p)
      BY <1>0, <2>1, <2>2, <2>7, <3>2 DEF Fresh
    <3>. QED  BY <3>1, <3>2
  <2>. QED  BY <1>2, <2>6, <2>8 DEF Typed
<1>. QED  BY <1>3, <1>4

\* A step of the broker keeps the types.
LEMMA BrokerTyped ==
    ASSUME Typed, BrokerNext PROVE Typed'
<1>0. TypeOK /\ Fresh /\ Owners /\ tasks \in [TaskKeys -> Task \cup {NoTask}] /\ faults \in 0..MaxFaults
  BY DEF Typed, TypeOK
<1>1. ASSUME NEW p \in proposals, ApplyAppend(p) PROVE Typed'
  BY <1>1, ApplyTyped
<1>2. ASSUME NEW t \in timers, FireTimer(t) PROVE Typed'
  <2>1. /\ timers' = timers \ {t} /\ t \in EventKeys /\ t[1] \in RunIds /\ t[2] \in EventIds
        /\ UNCHANGED <<done, nextRun, actNext, acts, worker, proposals, faults>>
    BY <1>0, <1>2, KeyParts DEF FireTimer, TypeOK
  <2>2. /\ done' \subseteq EventKeys /\ timers' \subseteq EventKeys
        /\ acts' \in [ActKeys -> Act \cup {NoAct}]
    BY <1>0, <2>1 DEF TypeOK
  <2>3. CASE Running(t[1])
    <3>1. AppendExternal(t[1], "TIMER_FIRED", t[2])
      BY <1>2, <2>3 DEF FireTimer
    <3>2. "TIMER_FIRED" \in EventTypes /\ t[2] \in 0..MaxEvent
      BY <2>1, Bounds DEF EventTypes, EventIds
    <3>. QED  BY <2>1, <2>2, <2>3, <3>1, <3>2, ExternalTyped
  <2>4. CASE ~Running(t[1])
    <3>1. UNCHANGED <<hist, runs, tasks, taskNext>>
      BY <1>2, <2>4 DEF FireTimer
    <3>2. TypeOK'
      BY <1>0, <2>1, <2>2, <3>1 DEF TypeOK
    <3>. QED  BY <1>0, <2>1, <3>1, <3>2, OwnersUntouched, FreshUntouched DEF Typed
  <2>. QED  BY <2>3, <2>4
<1>3. ASSUME NEW k \in TaskKeys, TaskExpires(k) \/ TaskDeadLettered(k) PROVE Typed'
  <2>1. /\ tasks' = [tasks EXCEPT ![k] = ReadyTask] \/ tasks' = [tasks EXCEPT ![k] = DeadTask]
        /\ UNCHANGED <<runs, hist, done, nextRun, taskNext, actNext, acts, timers, worker, proposals>>
    BY <1>3 DEF TaskExpires, TaskDeadLettered
  <2>2. faults' \in 0..MaxFaults
    <3>1. faults' = faults \/ (faults < MaxFaults /\ faults' = faults + 1)
      BY <1>3 DEF TaskExpires, TaskDeadLettered
    <3>. QED  BY <1>0, <3>1, Bounds
  <2>3. ReadyTask \in Task /\ DeadTask \in Task
    BY DEF ReadyTask, DeadTask, Task
  <2>4. tasks' \in [TaskKeys -> Task \cup {NoTask}]
    BY <1>0, <2>1, <2>3
  <2>5. TypeOK'
    BY <1>0, <2>1, <2>2, <2>4 DEF TypeOK
  <2>. QED  BY <1>0, <2>1, <2>5, OwnersUntouched, FreshUntouched DEF Typed
<1>. QED  BY <1>1, <1>2, <1>3 DEF BrokerNext

\* Every step keeps the types.
LEMMA TypedStep == Typed /\ [Next]_vars => Typed'
<1>. SUFFICES ASSUME Typed, [Next]_vars PROVE Typed'
  OBVIOUS
<1>1. CASE UNCHANGED vars
  <2>1. UNCHANGED <<runs, hist, done, nextRun, taskNext, tasks, actNext, acts, timers, worker,
                    proposals, faults>>
    BY <1>1 DEF vars, queues
  <2>2. TypeOK' /\ Fresh' /\ Owners'
    BY <2>1, OwnersUntouched, FreshUntouched DEF Typed, TypeOK
  <2>. QED  BY <2>2 DEF Typed
<1>2. CASE \E w \in Workers : WorkerStep(w)
  BY <1>2, WorkerTyped
<1>. QED  BY <1>1, <1>2, ClientTyped, FaultTyped, BrokerTyped, ActivityTyped DEF Next

\* The types hold at the start.
LEMMA TypedInit == Init => Typed
<1>. SUFFICES ASSUME Init PROVE Typed
  OBVIOUS
<1>1. 1 \in 1..(MaxRun + 1) /\ 1 \in 1..(MaxTask + 1) /\ 0 \in 0..MaxFaults
  BY Bounds
<1>2. TypeOK
  BY <1>1 DEF Init, TypeOK
<1>3. Fresh /\ Owners
  BY Bounds DEF Init, Fresh, Owners, RunIds
<1>. QED  BY <1>2, <1>3 DEF Typed

\* Every variable keeps its type: no event id, task id or run id leaves its range, and the
\* answer to a proposal always finds the worker that waits for it at work.
THEOREM TypeCorrect == Spec => []TypeOK
<1>1. Typed => TypeOK
  BY DEF Typed
<1>. QED  BY <1>1, TypedInit, TypedStep, PTL DEF Spec

-----------------------------------------------------------------------------
(* The steps that write history                                            *)

\* An activity's terminal event, from its worker or from the dead-letter bridge.
Terminal(r, e, type) ==
    /\ TerminalDue(r, e) /\ AppendExternal(r, type, e) /\ done' = done \cup {<<r, e>>}
    /\ UNCHANGED <<nextRun, timers, worker, proposals>>

\* A timer of an open run fires.
Fired(t) ==
    /\ Running(t[1]) /\ AppendExternal(t[1], "TIMER_FIRED", t[2]) /\ timers' = timers \ {t}
    /\ UNCHANGED <<done, nextRun, worker, proposals>>

\* A decision passes the fence.
Committed(p) == Fence(p) /\ ApplyAppend(p)

\* Any other step, a timer of a closed run among them.
Still ==
    /\ UNCHANGED <<runs, hist, done, nextRun, taskNext>>
    /\ timers' = timers \/ \E t \in timers : ~Running(t[1]) /\ timers' = timers \ {t}

Writes ==
    \/ \E t \in Tenants : StartRun(t)
    \/ \E r \in RunIds : Signal(r) \/ Cancel(r)
    \/ \E r \in RunIds, e \in EventIds :
          \E type \in {"ACTIVITY_COMPLETED", "ACTIVITY_FAILED"} : Terminal(r, e, type)
    \/ \E t \in timers : Fired(t)
    \/ \E p \in proposals : Committed(p)

\* A step writes the history in one of the known ways, or leaves it alone.
LEMMA StepKinds == ASSUME Typed, [Next]_vars PROVE Writes \/ Still
<1>0. TypeOK
  BY DEF Typed
<1>1. CASE ClientNext
  BY <1>1 DEF ClientNext, Writes
<1>2. CASE \E w \in Workers : WorkerStep(w)
  <2>1. ASSUME NEW w \in Workers, NEW r \in RunIds, NEW i \in TaskIds, LeaseTask(w, r, i)
        PROVE  Still
    BY <2>1 DEF LeaseTask, queues, Still
  <2>2. ASSUME NEW w \in Workers, LoadRun(w) \/ ReplayHistory(w) PROVE Still
    BY <2>2 DEF LoadRun, ReplayHistory, queues, Still
  <2>3. ASSUME NEW w \in Workers, NEW d \in Decisions, Propose(w, d) PROVE Still
    BY <2>3 DEF Propose, queues, Still
  <2>4. ASSUME NEW w \in Workers, GateStale(w) \/ SettleTask(w) PROVE Still
    BY <2>4 DEF GateStale, SettleTask, queues, Still
  <2>. QED  BY <1>2, <2>1, <2>2, <2>3, <2>4 DEF WorkerStep
<1>3. CASE FaultNext
  BY <1>3 DEF FaultNext, GateReject, GiveUp, WorkerCrash, queues, Still
<1>4. CASE BrokerNext
  <2>1. ASSUME NEW p \in proposals, ApplyAppend(p) PROVE Writes \/ Still
    <3>1. CASE Fence(p)
      BY <2>1, <3>1 DEF Committed, Writes
    <3>2. CASE ~Fence(p)
      BY <2>1, <3>2 DEF ApplyAppend, queues, Still
    <3>. QED  BY <3>1, <3>2
  <2>2. ASSUME NEW t \in timers, FireTimer(t) PROVE Writes \/ Still
    <3>1. CASE Running(t[1])
      BY <2>2, <3>1 DEF FireTimer, Fired, Writes
    <3>2. CASE ~Running(t[1])
      BY <2>2, <3>2 DEF FireTimer, Still
    <3>. QED  BY <3>1, <3>2
  <2>3. ASSUME NEW k \in TaskKeys, TaskExpires(k) \/ TaskDeadLettered(k) PROVE Still
    BY <2>3 DEF TaskExpires, TaskDeadLettered, Still
  <2>. QED  BY <1>4, <2>1, <2>2, <2>3 DEF BrokerNext
<1>5. CASE ActivityNext
  <2>1. ASSUME NEW r \in RunIds, NEW e \in EventIds,
               NEW type \in {"ACTIVITY_COMPLETED", "ACTIVITY_FAILED"}, CompleteActivity(r, e, type)
        PROVE  Writes
    <3>1. Terminal(r, e, type)
      BY <2>1 DEF CompleteActivity, RecordActivityTerminal, Terminal
    <3>. QED  BY <3>1 DEF Writes
  <2>2. ASSUME NEW k \in ActKeys, ActivityDeadLettered(k) PROVE Writes \/ Still
    <3>. DEFINE r == acts[k].run
                e == acts[k].event
    <3>1. /\ acts[k].state = "LEASED" /\ RecordActivityTerminal(r, e, "ACTIVITY_FAILED")
          /\ UNCHANGED <<nextRun, timers, worker, proposals>>
      BY <2>2 DEF ActivityDeadLettered, Bridge
    <3>2. r \in RunIds /\ e \in EventIds
      BY <1>0, <3>1, DeadLetterTyped
    <3>. HIDE DEF r, e
    <3>3. CASE TerminalDue(r, e)
      <4>1. Terminal(r, e, "ACTIVITY_FAILED")
        BY <3>1, <3>3 DEF RecordActivityTerminal, Terminal
      <4>. QED  BY <3>2, <4>1 DEF Writes
    <3>4. CASE ~TerminalDue(r, e)
      BY <3>1, <3>4 DEF RecordActivityTerminal, Still
    <3>. QED  BY <3>3, <3>4
  <2>3. ASSUME NEW k \in ActKeys, LeaseActivity(k) \/ AckActivity(k) \/ ActivityReturned(k) PROVE Still
    BY <2>3 DEF LeaseActivity, AckActivity, ActivityReturned, Still
  <2>. QED  BY <1>5, <2>1, <2>2, <2>3 DEF ActivityNext
<1>6. CASE UNCHANGED vars
  BY <1>6 DEF vars, queues, Still
<1>. QED  BY <1>1, <1>2, <1>3, <1>4, <1>5, <1>6 DEF Next

\* The event types a run is told of from outside a decision.
Told == {"ACTIVITY_COMPLETED", "ACTIVITY_FAILED", "TIMER_FIRED", "SIGNAL_RECEIVED", "WORKFLOW_CANCELED"}

\* A signal adds one event and publishes a task.
LEMMA SignalEffect ==
    ASSUME TypeOK, NEW r \in RunIds, Signal(r)
    PROVE  /\ Appended(r, "SIGNAL_RECEIVED", 0, "RUNNING") /\ TaskPublished(r)
           /\ UNCHANGED <<done, nextRun, timers, worker, proposals>>
<1>1. "SIGNAL_RECEIVED" \in EventTypes /\ 0 \in 0..MaxEvent
  BY Bounds DEF EventTypes
<1>2. Running(r) /\ AppendExternal(r, "SIGNAL_RECEIVED", 0) /\ UNCHANGED <<done, nextRun, timers, worker, proposals>>
  BY DEF Signal
<1>. QED  BY <1>1, <1>2, ExternalEffect

\* The end of an activity adds one event and publishes a task.
LEMMA TerminalEffect ==
    ASSUME TypeOK, NEW r \in RunIds, NEW e \in EventIds,
           NEW type \in {"ACTIVITY_COMPLETED", "ACTIVITY_FAILED"}, Terminal(r, e, type)
    PROVE  Appended(r, type, e, "RUNNING") /\ TaskPublished(r)
<1>1. type \in EventTypes /\ e \in 0..MaxEvent
  BY Bounds DEF EventTypes, EventIds
<1>2. Running(r) /\ AppendExternal(r, type, e)
  BY DEF Terminal, TerminalDue
<1>. QED  BY <1>1, <1>2, ExternalEffect

\* A fired timer adds one event and publishes a task.
LEMMA FiredEffect ==
    ASSUME TypeOK, NEW t \in timers, Fired(t)
    PROVE  /\ Appended(t[1], "TIMER_FIRED", t[2], "RUNNING") /\ TaskPublished(t[1])
           /\ t[1] \in RunIds /\ t[2] \in EventIds /\ t = <<t[1], t[2]>>
<1>1. t \in EventKeys /\ t[1] \in RunIds /\ t[2] \in EventIds /\ t = <<t[1], t[2]>>
  BY KeyParts DEF TypeOK
<1>2. "TIMER_FIRED" \in EventTypes /\ t[2] \in 0..MaxEvent
  BY <1>1, Bounds DEF EventTypes, EventIds
<1>3. Running(t[1]) /\ AppendExternal(t[1], "TIMER_FIRED", t[2])
  BY DEF Fired
<1>. QED  BY <1>1, <1>2, <1>3, ExternalEffect

\* A history grows by an event from outside, by a new run or by a decision.
LEMMA HistoryStep ==
    ASSUME Typed, [Next]_vars
    PROVE  \/ UNCHANGED <<runs, hist>>
           \/ \E r \in RunIds, type \in Told, ref \in 0..MaxEvent, status \in {"RUNNING", "CANCELED"} :
                 Appended(r, type, ref, status)
           \/ \E t \in Tenants : StartRun(t)
           \/ \E p \in proposals : Committed(p)
<1>0. TypeOK
  BY DEF Typed
<1>1. 0 \in 0..MaxEvent /\ \A e \in EventIds : e \in 0..MaxEvent
  BY Bounds DEF EventIds
<1>2. ASSUME NEW r \in RunIds, Signal(r)
      PROVE  Appended(r, "SIGNAL_RECEIVED", 0, "RUNNING") /\ "SIGNAL_RECEIVED" \in Told
  BY <1>0, <1>2, SignalEffect DEF Told
<1>3. ASSUME NEW r \in RunIds, Cancel(r)
      PROVE  Appended(r, "WORKFLOW_CANCELED", 0, "CANCELED") /\ "WORKFLOW_CANCELED" \in Told
  BY <1>0, <1>3, CancelEffect DEF Told
<1>4. ASSUME NEW r \in RunIds, NEW e \in EventIds,
             NEW type \in {"ACTIVITY_COMPLETED", "ACTIVITY_FAILED"}, Terminal(r, e, type)
      PROVE  Appended(r, type, e, "RUNNING") /\ type \in Told
  BY <1>0, <1>4, TerminalEffect DEF Told
<1>5. ASSUME NEW t \in timers, Fired(t)
      PROVE  Appended(t[1], "TIMER_FIRED", t[2], "RUNNING") /\ "TIMER_FIRED" \in Told
             /\ t[1] \in RunIds /\ t[2] \in EventIds
  BY <1>0, <1>5, FiredEffect DEF Told
<1>6. Still => UNCHANGED <<runs, hist>>
  BY DEF Still
<1>. QED  BY <1>1, <1>2, <1>3, <1>4, <1>5, <1>6, StepKinds DEF Writes

-----------------------------------------------------------------------------
(* Histories have no gap and do not change                                 *)

Gapless ==
    \A r \in RunIds :
        /\ runs[r] # NoRun => runs[r].seq \in EventIds
        /\ \A i \in EventIds : hist[<<r, i>>] # NoEvent <=> runs[r] # NoRun /\ i <= runs[r].seq

\* The sentinel is no run.
LEMMA NotNoRun == NoRun \notin Run
  BY DEF NoRun, Run, ClosedStatus

\* The event a run is told of.
LEMMA ToldEvent ==
    ASSUME NEW type \in Told, NEW ref \in 0..MaxEvent
    PROVE  /\ NewEvent(type, ref) # NoEvent /\ NewEvent(type, ref).type = type
           /\ NewEvent(type, ref).ref = ref /\ type \in EventTypes
<1>1. type \in EventTypes
  BY DEF Told, EventTypes
<1>. QED  BY <1>1, NewEventShape

\* An appended event follows the last one.
LEMMA GaplessAppended ==
    ASSUME TypeOK, Gapless, NEW r \in RunIds, NEW type \in Told, NEW ref \in 0..MaxEvent, NEW status,
           Appended(r, type, ref, status)
    PROVE  Gapless'
<1>1. /\ Running(r) /\ runs[r].seq + 1 \in EventIds
      /\ hist'[<<r, runs[r].seq + 1>>] = NewEvent(type, ref)
      /\ \A k \in EventKeys : k # <<r, runs[r].seq + 1>> => hist'[k] = hist[k]
      /\ runs'[r] \in Run /\ runs'[r].seq = runs[r].seq + 1
      /\ \A x \in RunIds : x # r => runs'[x] = runs[x]
  BY DEF Appended, Grown
<1>2. runs[r] # NoRun /\ runs'[r] # NoRun /\ runs[r].seq \in Nat
  BY <1>1, RunShape, NotNoRun
<1>3. NewEvent(type, ref) # NoEvent
  BY ToldEvent
<1>4. ASSUME NEW x \in RunIds, x # r
      PROVE  \A i \in EventIds : hist'[<<x, i>>] = hist[<<x, i>>]
  BY <1>1, <1>4, KeyParts
<1>5. ASSUME NEW i \in EventIds PROVE hist'[<<r, i>>] # NoEvent <=> i <= runs'[r].seq
  <2>1. CASE i = runs[r].seq + 1
    BY <1>1, <1>2, <1>3, <2>1
  <2>2. CASE i # runs[r].seq + 1
    <3>1. hist'[<<r, i>>] = hist[<<r, i>>]
      BY <1>1, <2>2, KeyParts
    <3>2. i <= runs[r].seq + 1 <=> i <= runs[r].seq
      BY <1>2, <2>2 DEF EventIds
    <3>. QED  BY <1>1, <1>2, <3>1, <3>2 DEF Gapless
  <2>. QED  BY <2>1, <2>2
<1>. QED  BY <1>1, <1>2, <1>4, <1>5 DEF Gapless

\* A created run has its first event and no other.
LEMMA GaplessCreated ==
    ASSUME Typed, Gapless, NEW x, NEW t \in Tenants, NEW p \in 0..MaxRun, Created(x, t, p)
    PROVE  /\ x \in RunIds /\ runs[x] = NoRun /\ runs'[x] # NoRun /\ runs'[x].seq = 1
           /\ \A i \in EventIds : hist[<<x, i>>] = NoEvent
           /\ \A i \in EventIds : hist'[<<x, i>>] # NoEvent <=> i <= 1
<1>1. /\ x \in RunIds /\ x = nextRun /\ runs'[x] = NewRun(t, p)
      /\ hist'[<<x, 1>>] = NewEvent("WORKFLOW_STARTED", 0)
      /\ \A i \in EventIds : i # 1 => hist'[<<x, i>>] = hist[<<x, i>>]
  BY DEF Created
<1>2. runs[x] = NoRun
  <2>1. x >= nextRun
    BY <1>1 DEF RunIds
  <2>. QED  BY <1>1, <2>1 DEF Typed, Fresh
<1>3. \A i \in EventIds : hist[<<x, i>>] = NoEvent
  BY <1>1, <1>2 DEF Gapless
<1>4. NewEvent("WORKFLOW_STARTED", 0) # NoEvent
  <2>1. "WORKFLOW_STARTED" \in EventTypes /\ 0 \in 0..MaxEvent
    BY Bounds DEF EventTypes
  <2>. QED  BY <2>1, NewEventShape
<1>5. \A i \in EventIds : i <= 1 <=> i = 1
  BY DEF EventIds
<1>. QED  BY <1>1, <1>2, <1>3, <1>4, <1>5, NewRunShape

\* A recorded decision fills the rows up to the new sequence number.
LEMMA RecordedRows ==
    ASSUME Typed, Gapless, NEW p \in proposals, Recorded(p)
    PROVE  /\ p.run \in RunIds /\ runs[p.run] # NoRun /\ runs'[p.run] # NoRun
           /\ runs'[p.run].seq \in EventIds
           /\ \A i \in EventIds : hist'[<<p.run, i>>] # NoEvent <=> i <= runs'[p.run].seq
           /\ \A i \in EventIds : i <= p.seq => hist'[<<p.run, i>>] = hist[<<p.run, i>>]
           /\ \A i \in EventIds : hist[<<p.run, i>>] # NoEvent <=> i <= p.seq
<1>. DEFINE r == p.run
            s == p.seq
            n == Len(p.cmds)
<1>1. /\ r \in RunIds /\ Running(r) /\ s = runs[r].seq /\ s \in Nat
      /\ s + n + 1 \in EventIds /\ n \in Nat
      /\ \A i \in EventIds : i <= s \/ i > s + n + 1 => hist'[<<r, i>>] = hist[<<r, i>>]
      /\ hist'[<<r, s + 1>>] = TaskCompleted(p.saw)
      /\ \A i \in EventIds : i > s + 1 /\ i <= s + n + 1 =>
            /\ i - s - 1 \in 1..n
            /\ hist'[<<r, i>>] = NewEvent(EventOf[p.cmds[i - s - 1].kind], 0)
      /\ runs'[r] \in Run /\ runs'[r].seq = s + (n + 1)
  BY DEF Recorded, Grown
<1>2. runs[r] # NoRun /\ runs'[r] # NoRun
  BY <1>1, RunShape, NotNoRun DEF Typed
<1>3. p.saw \in SUBSET EventIds /\ p.cmds \in Decisions
  BY ProposalShape DEF Typed
<1>4. \A i \in EventIds : hist[<<r, i>>] # NoEvent <=> i <= s
  BY <1>1, <1>2 DEF Gapless
<1>5. runs'[r].seq = s + n + 1
  BY <1>1
<1>6. ASSUME NEW i \in EventIds PROVE hist'[<<r, i>>] # NoEvent <=> i <= s + n + 1
  <2>0. i \in Nat
    BY DEF EventIds
  <2>1. CASE i <= s \/ i > s + n + 1
    <3>1. hist'[<<r, i>>] = hist[<<r, i>>] /\ s \in Nat /\ n \in Nat
      BY <1>1, <2>1
    <3>2. hist'[<<r, i>>] # NoEvent <=> i <= s
      BY <1>4, <3>1
    <3>. HIDE DEF s, n
    <3>. QED  BY <2>0, <2>1, <3>1, <3>2
  <2>2. CASE i = s + 1
    <3>1. hist'[<<r, s + 1>>] = TaskCompleted(p.saw) /\ s \in Nat /\ n \in Nat
      BY <1>1
    <3>2. TaskCompleted(p.saw) # NoEvent
      BY <1>3, FrameEvent
    <3>. QED  BY <2>2, <3>1, <3>2
  <2>3. CASE i > s + 1 /\ i <= s + n + 1
    <3>1. /\ i - s - 1 \in 1..Len(p.cmds)
          /\ hist'[<<r, i>>] = NewEvent(EventOf[p.cmds[i - s - 1].kind], 0)
      BY <1>1, <2>3
    <3>2. NewEvent(EventOf[p.cmds[i - s - 1].kind], 0) # NoEvent
      BY <1>3, <3>1, CommandEvent
    <3>. QED  BY <2>3, <3>1, <3>2
  <2>4. s \in Nat /\ n \in Nat
    BY <1>1
  <2>. HIDE DEF s, n
  <2>. QED  BY <2>0, <2>1, <2>2, <2>3, <2>4
<1>. QED  BY <1>1, <1>2, <1>4, <1>5, <1>6

\* Every step keeps the histories without gaps.
LEMMA GaplessStep == Typed /\ Gapless /\ [Next]_vars => Gapless'
<1>. SUFFICES ASSUME Typed, Gapless, [Next]_vars PROVE Gapless'
  OBVIOUS
<1>0. TypeOK /\ Fresh
  BY DEF Typed
<1>1. CASE UNCHANGED <<runs, hist>>
  BY <1>1 DEF Gapless
<1>2. ASSUME NEW r \in RunIds, NEW type \in Told, NEW ref \in 0..MaxEvent, NEW status,
             Appended(r, type, ref, status)
      PROVE  Gapless'
  BY <1>0, <1>2, GaplessAppended
<1>3. ASSUME NEW t \in Tenants, StartRun(t) PROVE Gapless'
  <2>1. /\ Created(nextRun, t, 0)
        /\ \A x \in RunIds : x # nextRun => runs'[x] = runs[x]
        /\ \A k \in EventKeys : k[1] # nextRun => hist'[k] = hist[k]
    BY <1>0, <1>3, StartEffect
  <2>2. /\ nextRun \in RunIds /\ runs'[nextRun] # NoRun /\ runs'[nextRun].seq = 1
        /\ \A i \in EventIds : hist'[<<nextRun, i>>] # NoEvent <=> i <= 1
    BY <2>1, Bounds, GaplessCreated
  <2>3. \A x \in RunIds, i \in EventIds : x # nextRun => hist'[<<x, i>>] = hist[<<x, i>>]
    BY <2>1, KeyParts
  <2>. QED  BY <2>1, <2>2, <2>3, Bounds DEF Gapless
<1>4. ASSUME NEW p \in proposals, Committed(p) PROVE Gapless'
  <2>1. /\ Recorded(p)
        /\ Successor(p) => Created(nextRun, runs[p.run].tenant, p.run) /\ nextRun # p.run
        /\ \A k \in EventKeys : k[1] # p.run /\ (Successor(p) => k[1] # nextRun) => hist'[k] = hist[k]
        /\ \A x \in RunIds : x # p.run /\ (Successor(p) => x # nextRun) => runs'[x] = runs[x]
    BY <1>0, <1>4, DecisionEffect DEF Committed, ApplyAppend
  <2>2. /\ p.run \in RunIds /\ runs[p.run] # NoRun /\ runs'[p.run] # NoRun
        /\ runs'[p.run].seq \in EventIds
        /\ \A i \in EventIds : hist'[<<p.run, i>>] # NoEvent <=> i <= runs'[p.run].seq
    BY <2>1, RecordedRows
  <2>3. runs[p.run].tenant \in Tenants /\ p.run \in 0..MaxRun
    BY <1>0, <2>2, RunShape DEF RunIds
  <2>4. Successor(p) =>
           /\ nextRun \in RunIds /\ runs'[nextRun] # NoRun /\ runs'[nextRun].seq = 1
           /\ \A i \in EventIds : hist'[<<nextRun, i>>] # NoEvent <=> i <= 1
    BY <2>1, <2>3, GaplessCreated
  <2>5. \A x \in RunIds, i \in EventIds : x # p.run /\ (Successor(p) => x # nextRun) =>
           hist'[<<x, i>>] = hist[<<x, i>>]
    BY <2>1, KeyParts
  <2>6. ASSUME NEW x \in RunIds
        PROVE  /\ runs'[x] # NoRun => runs'[x].seq \in EventIds
               /\ \A i \in EventIds : hist'[<<x, i>>] # NoEvent <=> runs'[x] # NoRun /\ i <= runs'[x].seq
    <3>1. CASE x = p.run
      BY <2>2, <3>1
    <3>2. CASE Successor(p) /\ x = nextRun
      BY <2>4, <3>2, Bounds
    <3>3. CASE x # p.run /\ (Successor(p) => x # nextRun)
      BY <2>1, <2>5, <3>3 DEF Gapless
    <3>. QED  BY <3>1, <3>2, <3>3
  <2>. QED  BY <2>6 DEF Gapless
<1>. QED  BY <1>1, <1>2, <1>3, <1>4, HistoryStep

GapInv == Typed /\ Gapless

\* The histories start without gaps.
LEMMA GapInvInit == Init => GapInv
<1>. SUFFICES ASSUME Init PROVE GapInv
  OBVIOUS
<1>1. Typed
  BY TypedInit
<1>2. \A r \in RunIds : runs[r] = NoRun
  BY DEF Init
<1>3. \A r \in RunIds, i \in EventIds : hist[<<r, i>>] = NoEvent
  BY KeyParts DEF Init
<1>. QED  BY <1>1, <1>2, <1>3 DEF GapInv, Gapless

\* Every step keeps the types and the histories without gaps.
LEMMA GapInvStep == GapInv /\ [Next]_vars => GapInv'
  BY TypedStep, GaplessStep DEF GapInv

\* Histories have no gap: whatever events, decisions and successors are written, the rows of a
\* run are those from 1 to its cur_history_seq.
THEOREM NoGaps == Spec => []HistoryGapFree
<1>1. GapInv => HistoryGapFree
  <2>. SUFFICES ASSUME GapInv, NEW r \in RunIds
                PROVE  Written(r) = IF runs[r] = NoRun THEN {} ELSE 1..runs[r].seq
    BY DEF HistoryGapFree
  <2>1. CASE runs[r] = NoRun
    BY <2>1 DEF GapInv, Gapless, Written
  <2>2. CASE runs[r] # NoRun
    <3>1. runs[r].seq \in Nat /\ runs[r].seq <= MaxEvent
      BY <2>2, Bounds DEF GapInv, Gapless, EventIds
    <3>2. \A i \in 1..runs[r].seq : i \in EventIds
      BY <3>1, Bounds DEF EventIds
    <3>3. \A i \in EventIds : i <= runs[r].seq => i \in 1..runs[r].seq
      BY <3>1 DEF EventIds
    <3>4. Written(r) = 1..runs[r].seq
      BY <2>2, <3>1, <3>2, <3>3 DEF GapInv, Gapless, Written
    <3>. QED  BY <2>2, <3>4
  <2>. QED  BY <2>1, <2>2
<1>. QED  BY <1>1, GapInvInit, GapInvStep, PTL DEF Spec

\* No step rewrites an event, and none touches a closed run.
LEMMA HistoryFinalStep ==
    ASSUME GapInv, [Next]_vars
    PROVE  /\ \A k \in EventKeys : hist[k] # NoEvent => hist'[k] = hist[k]
           /\ \A r \in RunIds : runs[r].status \in ClosedStatus =>
                 runs'[r] = runs[r] /\ \A i \in EventIds : hist'[<<r, i>>] = hist[<<r, i>>]
<1>0. Typed /\ TypeOK /\ Gapless
  BY DEF GapInv, Typed
<1>. DEFINE Kept(k) == hist[k] # NoEvent => hist'[k] = hist[k]
            Final(r) == runs[r].status \in ClosedStatus =>
                          runs'[r] = runs[r] /\ \A i \in EventIds : hist'[<<r, i>>] = hist[<<r, i>>]
<1>. SUFFICES (\A k \in EventKeys : Kept(k)) /\ (\A r \in RunIds : Final(r))
  OBVIOUS
<1>1. CASE UNCHANGED <<runs, hist>>
  BY <1>1
<1>2. ASSUME NEW r \in RunIds, Running(r) PROVE runs[r].status \notin ClosedStatus
  BY <1>2 DEF Running, ClosedStatus
<1>3. ASSUME NEW r \in RunIds, NEW type \in Told, NEW ref \in 0..MaxEvent, NEW status,
             Appended(r, type, ref, status)
      PROVE  (\A k \in EventKeys : Kept(k)) /\ (\A x \in RunIds : Final(x))
  <2>1. /\ Running(r) /\ runs[r].seq + 1 \in EventIds
        /\ \A k \in EventKeys : k # <<r, runs[r].seq + 1>> => hist'[k] = hist[k]
        /\ \A x \in RunIds : x # r => runs'[x] = runs[x]
    BY <1>3 DEF Appended
  <2>2. hist[<<r, runs[r].seq + 1>>] = NoEvent
    <3>1. runs[r].seq \in Nat
      BY <1>0, <2>1, RunShape
    <3>. QED  BY <1>0, <2>1, <3>1 DEF Gapless
  <2>3. \A x \in RunIds, i \in EventIds : x # r => hist'[<<x, i>>] = hist[<<x, i>>]
    BY <2>1, KeyParts
  <2>. QED  BY <1>2, <2>1, <2>2, <2>3
<1>4. ASSUME NEW t \in Tenants, StartRun(t)
      PROVE  (\A k \in EventKeys : Kept(k)) /\ (\A x \in RunIds : Final(x))
  <2>1. /\ Created(nextRun, t, 0)
        /\ \A x \in RunIds : x # nextRun => runs'[x] = runs[x]
        /\ \A k \in EventKeys : k[1] # nextRun => hist'[k] = hist[k]
    BY <1>0, <1>4, StartEffect
  <2>2. /\ nextRun \in RunIds /\ runs[nextRun] = NoRun
        /\ \A i \in EventIds : hist[<<nextRun, i>>] = NoEvent
    BY <1>0, <2>1, Bounds, GaplessCreated
  <2>3. \A k \in EventKeys : k[1] = nextRun => hist[k] = NoEvent
    <3>1. ASSUME NEW k \in EventKeys, k[1] = nextRun PROVE hist[k] = NoEvent
      BY <2>2, <3>1, KeyParts
    <3>. QED  BY <3>1
  <2>4. runs[nextRun].status \notin ClosedStatus
    BY <2>2 DEF NoRun, ClosedStatus
  <2>5. \A x \in RunIds, i \in EventIds : x # nextRun => hist'[<<x, i>>] = hist[<<x, i>>]
    BY <2>1, KeyParts
  <2>. QED  BY <2>1, <2>3, <2>4, <2>5
<1>5. ASSUME NEW p \in proposals, Committed(p)
      PROVE  (\A k \in EventKeys : Kept(k)) /\ (\A x \in RunIds : Final(x))
  <2>1. /\ Recorded(p)
        /\ Successor(p) => Created(nextRun, runs[p.run].tenant, p.run) /\ nextRun # p.run
        /\ \A k \in EventKeys : k[1] # p.run /\ (Successor(p) => k[1] # nextRun) => hist'[k] = hist[k]
        /\ \A x \in RunIds : x # p.run /\ (Successor(p) => x # nextRun) => runs'[x] = runs[x]
    BY <1>0, <1>5, DecisionEffect DEF Committed, ApplyAppend, Typed
  <2>2. /\ p.run \in RunIds /\ runs[p.run] # NoRun
        /\ \A i \in EventIds : i <= p.seq => hist'[<<p.run, i>>] = hist[<<p.run, i>>]
        /\ \A i \in EventIds : hist[<<p.run, i>>] # NoEvent <=> i <= p.seq
    BY <1>0, <2>1, RecordedRows
  <2>3. runs[p.run].tenant \in Tenants /\ p.run \in 0..MaxRun
    BY <1>0, <2>2, RunShape DEF RunIds
  <2>4. Successor(p) => /\ nextRun \in RunIds /\ runs[nextRun] = NoRun
                        /\ \A i \in EventIds : hist[<<nextRun, i>>] = NoEvent
    BY <1>0, <2>1, <2>3, GaplessCreated
  <2>5. runs[p.run].status \notin ClosedStatus
    BY <2>1, <2>2, <1>2 DEF Recorded
  <2>6. Successor(p) => runs[nextRun].status \notin ClosedStatus
    BY <2>4 DEF NoRun, ClosedStatus
  <2>7. \A x \in RunIds, i \in EventIds : x # p.run /\ (Successor(p) => x # nextRun) =>
           hist'[<<x, i>>] = hist[<<x, i>>]
    BY <2>1, KeyParts
  <2>8. ASSUME NEW k \in EventKeys PROVE Kept(k)
    <3>1. k[1] \in RunIds /\ k[2] \in EventIds /\ k = <<k[1], k[2]>>
      BY KeyParts
    <3>2. CASE k[1] = p.run
      BY <2>2, <3>1, <3>2
    <3>3. CASE Successor(p) /\ k[1] = nextRun
      BY <2>4, <3>1, <3>3
    <3>4. CASE k[1] # p.run /\ (Successor(p) => k[1] # nextRun)
      BY <2>1, <3>4
    <3>. QED  BY <3>2, <3>3, <3>4
  <2>. QED  BY <2>1, <2>5, <2>6, <2>7, <2>8
<1>. QED  BY <1>0, <1>1, <1>3, <1>4, <1>5, HistoryStep

\* History is append-only and final: no command overwrites an event, and once a run is closed
\* neither its record nor its history changes again.
THEOREM HistoryIsFinal == Spec => HistoryFinal
<1>1. GapInv /\ [Next]_vars =>
        [/\ \A k \in EventKeys : hist[k] # NoEvent => hist'[k] = hist[k]
         /\ \A r \in RunIds : runs[r].status \in ClosedStatus =>
               runs'[r] = runs[r] /\ Written(r)' = Written(r)]_vars
  <2>. SUFFICES ASSUME GapInv, [Next]_vars
                PROVE  /\ \A k \in EventKeys : hist[k] # NoEvent => hist'[k] = hist[k]
                       /\ \A r \in RunIds : runs[r].status \in ClosedStatus =>
                             runs'[r] = runs[r] /\ Written(r)' = Written(r)
    OBVIOUS
  <2>1. \A r \in RunIds : (\A i \in EventIds : hist'[<<r, i>>] = hist[<<r, i>>])
                             => Written(r)' = Written(r)
    BY DEF Written
  <2>. QED  BY <2>1, HistoryFinalStep
<1>. QED  BY <1>1, GapInvInit, GapInvStep, PTL DEF Spec, HistoryFinal

-----------------------------------------------------------------------------
(* A decision saw the whole history                                        *)

\* A version that was read: no later one has been written, or the epoch tells.
AtOrBehind(r, epoch, seq) ==
    /\ runs[r] # NoRun /\ epoch <= runs[r].epoch
    /\ epoch = runs[r].epoch => seq = runs[r].seq

\* What a worker has read of its run.
WorkerRead(w) ==
    worker[w].phase \in {"loaded", "replayed", "proposed"} =>
        LET r == worker[w].key[1]
        IN  /\ AtOrBehind(r, worker[w].epoch, worker[w].seq)
            /\ worker[w].phase # "loaded" /\ worker[w].epoch = runs[r].epoch =>
                  worker[w].saw = 1..runs[r].seq

ProposalRead(p) ==
    /\ AtOrBehind(p.run, p.epoch, p.seq)
    /\ p.epoch = runs[p.run].epoch => p.saw = 1..runs[p.run].seq

Reads == (\A w \in Workers : WorkerRead(w)) /\ (\A p \in proposals : ProposalRead(p))

SawInv == GapInv /\ Reads /\ DecisionSawHistory

\* An epoch never goes back, and no event is written under the same one.
LEMMA EpochMoves ==
    ASSUME GapInv, [Next]_vars, NEW r \in RunIds, runs[r] # NoRun
    PROVE  /\ runs'[r] # NoRun
           /\ runs'[r].epoch \in Nat /\ runs[r].epoch \in Nat /\ runs[r].epoch <= runs'[r].epoch
           /\ runs'[r].epoch = runs[r].epoch => runs'[r] = runs[r]
<1>0. Typed /\ TypeOK /\ Gapless /\ Fresh
  BY DEF GapInv, Typed
<1>1. runs[r].epoch \in Nat /\ r # nextRun
  <2>1. runs[r].epoch \in Nat /\ r < nextRun
    BY <1>0, RunShape DEF Fresh, RunIds, TypeOK
  <2>2. nextRun \in Nat /\ r \in Nat
    BY <1>0 DEF TypeOK, RunIds
  <2>. QED  BY <2>1, <2>2
<1>2. CASE runs'[r] = runs[r]
  BY <1>1, <1>2
<1>3. ASSUME NEW status, NEW n, Grown(r, status, n)
      PROVE  runs'[r] # NoRun /\ runs'[r].epoch = runs[r].epoch + 1
  BY <1>3, NotNoRun DEF Grown
<1>4. CASE runs'[r] # NoRun /\ runs'[r].epoch = runs[r].epoch + 1
  BY <1>1, <1>4
<1>5. ASSUME NEW x \in RunIds, NEW type \in Told, NEW ref \in 0..MaxEvent, NEW status,
             Appended(x, type, ref, status)
      PROVE  runs'[r] = runs[r] \/ (runs'[r] # NoRun /\ runs'[r].epoch = runs[r].epoch + 1)
  BY <1>3, <1>5 DEF Appended
<1>6. ASSUME NEW t \in Tenants, StartRun(t) PROVE runs'[r] = runs[r]
  BY <1>0, <1>1, <1>6, StartEffect
<1>7. ASSUME NEW p \in proposals, Committed(p)
      PROVE  runs'[r] = runs[r] \/ (runs'[r] # NoRun /\ runs'[r].epoch = runs[r].epoch + 1)
  BY <1>0, <1>1, <1>3, <1>7, DecisionEffect DEF Committed, ApplyAppend, Recorded
<1>. QED  BY <1>0, <1>2, <1>4, <1>5, <1>6, <1>7, HistoryStep

\* The rows a committed decision writes.
LEMMA CommittedEvents ==
    ASSUME GapInv, NEW p \in proposals, Committed(p), NEW k \in EventKeys, hist'[k] # hist[k]
    PROVE  \/ hist'[k] = NewEvent("WORKFLOW_STARTED", 0) /\ k[1] # p.run
           \/ k = <<p.run, p.seq + 1>> /\ hist'[k] = TaskCompleted(p.saw)
           \/ /\ k[1] = p.run /\ k[2] - p.seq - 1 \in 1..Len(p.cmds)
              /\ hist'[k] = NewEvent(EventOf[p.cmds[k[2] - p.seq - 1].kind], 0)
<1>0. Typed /\ TypeOK /\ Gapless /\ Fresh
  BY DEF GapInv, Typed
<1>1. k[1] \in RunIds /\ k[2] \in EventIds /\ k = <<k[1], k[2]>> /\ k[2] \in Nat
  BY KeyParts DEF EventIds
<1>2. /\ Recorded(p)
      /\ Successor(p) => Created(nextRun, runs[p.run].tenant, p.run) /\ nextRun # p.run
      /\ k[1] # p.run => Successor(p) /\ k[1] = nextRun
  BY <1>0, DecisionEffect DEF Committed, ApplyAppend
<1>3. CASE k[1] # p.run
  <2>1. hist'[k] = NewEvent("WORKFLOW_STARTED", 0)
    BY <1>1, <1>2, <1>3 DEF Created
  <2>. QED  BY <1>3, <2>1
<1>4. CASE k[1] = p.run
  <2>1. /\ p.seq \in Nat /\ Len(p.cmds) \in Nat
        /\ k[2] <= p.seq \/ k[2] > p.seq + Len(p.cmds) + 1 => hist'[<<p.run, k[2]>>] = hist[<<p.run, k[2]>>]
        /\ hist'[<<p.run, p.seq + 1>>] = TaskCompleted(p.saw)
        /\ k[2] > p.seq + 1 /\ k[2] <= p.seq + Len(p.cmds) + 1 =>
             /\ k[2] - p.seq - 1 \in 1..Len(p.cmds)
             /\ hist'[<<p.run, k[2]>>] = NewEvent(EventOf[p.cmds[k[2] - p.seq - 1].kind], 0)
    BY <1>1, <1>2 DEF Recorded
  <2>2. CASE k[2] = p.seq + 1
    BY <1>1, <1>4, <2>1, <2>2
  <2>3. CASE k[2] > p.seq + 1 /\ k[2] <= p.seq + Len(p.cmds) + 1
    <3>1. /\ k[2] - p.seq - 1 \in 1..Len(p.cmds)
          /\ hist'[k] = NewEvent(EventOf[p.cmds[k[2] - p.seq - 1].kind], 0)
      BY <1>1, <1>4, <2>1, <2>3
    <3>. QED  BY <1>4, <3>1
  <2>4. CASE k[2] <= p.seq \/ k[2] > p.seq + Len(p.cmds) + 1
    BY <1>1, <1>4, <2>1, <2>4
  <2>. QED  BY <1>1, <2>1, <2>2, <2>3, <2>4
<1>. QED  BY <1>3, <1>4

\* Where an event of a history comes from.
LEMMA NewEvents ==
    ASSUME GapInv, [Next]_vars, NEW k \in EventKeys, hist'[k] # hist[k]
    PROVE  \/ \E r \in RunIds, type \in Told, ref \in 0..MaxEvent, status \in {"RUNNING", "CANCELED"} :
                 /\ Appended(r, type, ref, status)
                 /\ k = <<r, runs[r].seq + 1>> /\ hist'[k] = NewEvent(type, ref)
           \/ hist'[k] = NewEvent("WORKFLOW_STARTED", 0)
           \/ \E p \in proposals :
                 /\ Committed(p) /\ k = <<p.run, p.seq + 1>> /\ hist'[k] = TaskCompleted(p.saw)
           \/ \E p \in proposals :
                 /\ Committed(p) /\ k[1] = p.run /\ k[2] - p.seq - 1 \in 1..Len(p.cmds)
                 /\ hist'[k] = NewEvent(EventOf[p.cmds[k[2] - p.seq - 1].kind], 0)
<1>0. Typed /\ TypeOK /\ Gapless /\ Fresh
  BY DEF GapInv, Typed
<1>1. k[1] \in RunIds /\ k[2] \in EventIds /\ k = <<k[1], k[2]>> /\ k[2] \in Nat
  BY KeyParts DEF EventIds
<1>2. CASE UNCHANGED <<runs, hist>>
  BY <1>2
<1>3. CASE \E r \in RunIds, type \in Told, ref \in 0..MaxEvent, status \in {"RUNNING", "CANCELED"} :
              Appended(r, type, ref, status)
  <2>1. PICK r \in RunIds, type \in Told, ref \in 0..MaxEvent, status \in {"RUNNING", "CANCELED"} :
              Appended(r, type, ref, status)
    BY <1>3
  <2>2. k = <<r, runs[r].seq + 1>> /\ hist'[k] = NewEvent(type, ref)
    BY <2>1 DEF Appended
  <2>. QED  BY <2>1, <2>2
<1>4. CASE \E t \in Tenants : StartRun(t)
  <2>1. PICK t \in Tenants : StartRun(t)
    BY <1>4
  <2>2. Created(nextRun, t, 0) /\ k[1] = nextRun
    BY <1>0, <2>1, StartEffect
  <2>3. hist'[k] = NewEvent("WORKFLOW_STARTED", 0)
    BY <1>1, <2>2 DEF Created
  <2>. QED  BY <2>3
<1>5. CASE \E p \in proposals : Committed(p)
  <2>1. PICK p \in proposals : Committed(p)
    BY <1>5
  <2>. QED  BY <2>1, CommittedEvents
<1>. QED  BY <1>0, <1>2, <1>3, <1>4, <1>5, HistoryStep

\* What was read stays at or behind the version of the run.
LEMMA BehindKept ==
    ASSUME GapInv, [Next]_vars, NEW r \in RunIds, NEW epoch \in Nat, NEW seq, AtOrBehind(r, epoch, seq)
    PROVE  /\ runs'[r] # NoRun /\ epoch <= runs'[r].epoch
           /\ epoch = runs'[r].epoch =>
                 epoch = runs[r].epoch /\ runs'[r] = runs[r] /\ seq = runs'[r].seq
<1>1. runs[r] # NoRun /\ epoch <= runs[r].epoch /\ (epoch = runs[r].epoch => seq = runs[r].seq)
  BY DEF AtOrBehind
<1>2. /\ runs'[r] # NoRun
      /\ runs'[r].epoch \in Nat /\ runs[r].epoch \in Nat /\ runs[r].epoch <= runs'[r].epoch
      /\ runs'[r].epoch = runs[r].epoch => runs'[r] = runs[r]
  BY <1>1, EpochMoves
<1>. QED  BY <1>1, <1>2

\* What a worker read stays read while it does not move.
LEMMA WorkerReadKept ==
    ASSUME GapInv, [Next]_vars, NEW w \in Workers, WorkerRead(w), worker'[w] = worker[w]
    PROVE  WorkerRead(w)'
<1>1. CASE worker[w].phase \notin {"loaded", "replayed", "proposed"}
  BY <1>1 DEF WorkerRead
<1>2. CASE worker[w].phase \in {"loaded", "replayed", "proposed"}
  <2>. DEFINE r == worker[w].key[1]
  <2>1. worker[w] # Idle
    BY <1>2, WorkerShape DEF GapInv, Typed
  <2>2. r \in RunIds /\ worker[w].epoch \in Nat
    BY <2>1, WorkerShape DEF GapInv, Typed
  <2>3. /\ AtOrBehind(r, worker[w].epoch, worker[w].seq)
        /\ worker[w].phase # "loaded" /\ worker[w].epoch = runs[r].epoch => worker[w].saw = 1..runs[r].seq
    BY <1>2 DEF WorkerRead
  <2>4. /\ runs'[r] # NoRun /\ worker[w].epoch <= runs'[r].epoch
        /\ worker[w].epoch = runs'[r].epoch =>
              worker[w].epoch = runs[r].epoch /\ runs'[r] = runs[r] /\ worker[w].seq = runs'[r].seq
    BY <2>2, <2>3, BehindKept
  <2>. QED  BY <2>3, <2>4 DEF WorkerRead, AtOrBehind
<1>. QED  BY <1>1, <1>2

\* What a proposal was decided on stays so.
LEMMA ProposalReadKept ==
    ASSUME GapInv, [Next]_vars, NEW p \in proposals, ProposalRead(p), NEW q,
           q.run = p.run, q.epoch = p.epoch, q.seq = p.seq, q.saw = p.saw
    PROVE  ProposalRead(q)'
<1>1. p.run \in RunIds /\ p.epoch \in Nat
  BY ProposalShape DEF GapInv, Typed
<1>2. AtOrBehind(p.run, p.epoch, p.seq) /\ (p.epoch = runs[p.run].epoch => p.saw = 1..runs[p.run].seq)
  BY DEF ProposalRead
<1>3. /\ runs'[p.run] # NoRun /\ p.epoch <= runs'[p.run].epoch
      /\ p.epoch = runs'[p.run].epoch =>
            p.epoch = runs[p.run].epoch /\ runs'[p.run] = runs[p.run] /\ p.seq = runs'[p.run].seq
  BY <1>1, <1>2, BehindKept
<1>. QED  BY <1>2, <1>3 DEF ProposalRead, AtOrBehind

\* Steps that change no worker and propose nothing.
LEMMA ReadsUntouched ==
    ASSUME GapInv, Reads, [Next]_vars, UNCHANGED <<worker, proposals>> PROVE Reads'
<1>1. \A w \in Workers : WorkerRead(w)'
  BY WorkerReadKept DEF Reads
<1>2. \A p \in proposals' : ProposalRead(p)'
  BY ProposalReadKept DEF Reads
<1>. QED  BY <1>1, <1>2 DEF Reads

\* Steps that set one worker to a phase in which it has nothing to answer.
LEMMA ReadsReset ==
    ASSUME GapInv, Reads, [Next]_vars, NEW w \in Workers,
           worker'[w].phase \notin {"loaded", "replayed", "proposed"},
           \A v \in Workers : v # w => worker'[v] = worker[v],
           \A q \in proposals' : \E p \in proposals :
               q.run = p.run /\ q.epoch = p.epoch /\ q.seq = p.seq /\ q.saw = p.saw
    PROVE  Reads'
<1>1. WorkerRead(w)'
  BY DEF WorkerRead
<1>2. \A v \in Workers : WorkerRead(v)'
  BY <1>1, WorkerReadKept DEF Reads
<1>3. \A q \in proposals' : ProposalRead(q)'
  BY ProposalReadKept DEF Reads
<1>. QED  BY <1>2, <1>3 DEF Reads

\* The written events of a run are all those up to its sequence number.
LEMMA WrittenWhole ==
    ASSUME GapInv, NEW r \in RunIds, runs[r] # NoRun PROVE Written(r) = 1..runs[r].seq
<1>1. runs[r].seq \in Nat /\ runs[r].seq <= MaxEvent
  BY Bounds DEF GapInv, Gapless, EventIds
<1>2. \A i \in 1..runs[r].seq : i \in EventIds
  BY <1>1, Bounds DEF EventIds
<1>3. \A i \in EventIds : i <= runs[r].seq => i \in 1..runs[r].seq
  BY <1>1 DEF EventIds
<1>. QED  BY <1>1, <1>2, <1>3 DEF GapInv, Gapless, Written

\* A worker step keeps what was read.
LEMMA ReadsWorker ==
    ASSUME GapInv, Reads, [Next]_vars, NEW w \in Workers, WorkerStep(w) PROVE Reads'
<1>0. TypeOK /\ worker \in [Workers -> Busy \cup {Idle}]
  BY DEF GapInv, Typed, TypeOK
<1>1. ASSUME NEW r \in RunIds, NEW i \in TaskIds, LeaseTask(w, r, i) PROVE Reads'
  <2>1. /\ worker'[w].phase = "leased" /\ UNCHANGED proposals
        /\ \A v \in Workers : v # w => worker'[v] = worker[v]
    BY <1>0, <1>1 DEF LeaseTask
  <2>. QED  BY <2>1, ReadsReset
<1>2. CASE LoadRun(w)
  <2>. DEFINE r == worker[w].key[1]
  <2>1. /\ worker[w].phase = "leased" /\ UNCHANGED <<runs, hist, proposals>>
        /\ worker' = [worker EXCEPT ![w] = IF Running(r)
              THEN [worker[w] EXCEPT !.phase = "loaded", !.epoch = runs[r].epoch, !.seq = runs[r].seq]
              ELSE [worker[w] EXCEPT !.phase = "ack"]]
    BY <1>0, <1>2 DEF LoadRun
  <2>2. worker[w] \in Busy /\ r \in RunIds /\ \A v \in Workers : v # w => worker'[v] = worker[v]
    BY <1>0, <2>1, WorkerShape
  <2>3. CASE Running(r)
    <3>1. worker'[w] = [worker[w] EXCEPT !.phase = "loaded", !.epoch = runs[r].epoch, !.seq = runs[r].seq]
      BY <1>0, <2>1, <2>3
    <3>2. /\ worker'[w].phase = "loaded" /\ worker'[w].epoch = runs[r].epoch
          /\ worker'[w].seq = runs[r].seq /\ worker'[w].key = worker[w].key
      BY <2>2, <3>1 DEF Busy
    <3>3. runs[r] # NoRun /\ runs[r].epoch \in Nat
      BY <1>0, <2>2, <2>3, RunShape
    <3>4. WorkerRead(w)'
      BY <2>1, <3>2, <3>3 DEF WorkerRead, AtOrBehind
    <3>5. \A v \in Workers : WorkerRead(v)'
      BY <2>2, <3>4, WorkerReadKept DEF Reads
    <3>6. \A p \in proposals' : ProposalRead(p)'
      BY <2>1, ProposalReadKept DEF Reads
    <3>. QED  BY <3>5, <3>6 DEF Reads
  <2>4. CASE ~Running(r)
    <3>1. worker'[w].phase = "ack"
      BY <1>0, <2>1, <2>2, <2>4 DEF Busy
    <3>. QED  BY <2>1, <2>2, <3>1, ReadsReset
  <2>. QED  BY <2>3, <2>4
<1>3. CASE ReplayHistory(w)
  <2>. DEFINE r == worker[w].key[1]
  <2>1. /\ worker[w].phase = "loaded" /\ UNCHANGED <<runs, hist, proposals>>
        /\ worker' = [worker EXCEPT ![w] = [worker[w] EXCEPT !.phase = "replayed", !.saw = Written(r)]]
    BY <1>0, <1>3 DEF ReplayHistory
  <2>2. worker[w] \in Busy /\ r \in RunIds /\ \A v \in Workers : v # w => worker'[v] = worker[v]
    BY <1>0, <2>1, WorkerShape
  <2>3. /\ worker'[w].phase = "replayed" /\ worker'[w].epoch = worker[w].epoch
        /\ worker'[w].seq = worker[w].seq /\ worker'[w].key = worker[w].key
        /\ worker'[w].saw = Written(r)
    <3>1. worker'[w] = [worker[w] EXCEPT !.phase = "replayed", !.saw = Written(r)]
      BY <1>0, <2>1
    <3>. QED  BY <2>2, <3>1 DEF Busy
  <2>4. AtOrBehind(r, worker[w].epoch, worker[w].seq)
    BY <2>1 DEF Reads, WorkerRead
  <2>5. Written(r) = 1..runs[r].seq
    BY <2>2, <2>4, WrittenWhole DEF AtOrBehind
  <2>6. WorkerRead(w)'
    BY <2>1, <2>3, <2>4, <2>5 DEF WorkerRead, AtOrBehind
  <2>7. \A v \in Workers : WorkerRead(v)'
    BY <2>2, <2>6, WorkerReadKept DEF Reads
  <2>8. \A p \in proposals' : ProposalRead(p)'
    BY <2>1, ProposalReadKept DEF Reads
  <2>. QED  BY <2>7, <2>8 DEF Reads
<1>4. ASSUME NEW d \in Decisions, Propose(w, d) PROVE Reads'
  <2>. DEFINE r == worker[w].key[1]
              n == [by |-> w, run |-> r, epoch |-> worker[w].epoch,
                    seq |-> worker[w].seq, saw |-> worker[w].saw, cmds |-> d]
  <2>1. /\ worker[w].phase = "replayed" /\ UNCHANGED <<runs, hist>>
        /\ worker' = [worker EXCEPT ![w].phase = "proposed"] /\ proposals' = proposals \cup {n}
    BY <1>4 DEF Propose
  <2>2. worker[w] # Idle
    BY <1>0, <2>1, WorkerShape
  <2>3. /\ worker'[w].phase = "proposed" /\ worker'[w].key = worker[w].key
        /\ worker'[w].epoch = worker[w].epoch /\ worker'[w].seq = worker[w].seq
        /\ worker'[w].saw = worker[w].saw
        /\ \A v \in Workers : v # w => worker'[v] = worker[v]
    BY <1>0, <2>1, <2>2, PhaseEffect DEF Phases
  <2>4. /\ AtOrBehind(r, worker[w].epoch, worker[w].seq)
        /\ worker[w].epoch = runs[r].epoch => worker[w].saw = 1..runs[r].seq
    BY <2>1 DEF Reads, WorkerRead
  <2>5. WorkerRead(w)'
    BY <2>1, <2>3, <2>4 DEF WorkerRead, AtOrBehind
  <2>6. n.run = r /\ n.epoch = worker[w].epoch /\ n.seq = worker[w].seq /\ n.saw = worker[w].saw
    OBVIOUS
  <2>. HIDE DEF n
  <2>7. \A v \in Workers : WorkerRead(v)'
    BY <2>3, <2>5, WorkerReadKept DEF Reads
  <2>8. ASSUME NEW p \in proposals' PROVE ProposalRead(p)'
    <3>1. ASSUME p \in proposals PROVE ProposalRead(p)'
      BY <3>1, ProposalReadKept DEF Reads
    <3>2. ASSUME p = n PROVE ProposalRead(p)'
      <4>1. /\ runs[p.run] # NoRun /\ p.epoch <= runs[p.run].epoch
            /\ p.epoch = runs[p.run].epoch => p.seq = runs[p.run].seq /\ p.saw = 1..runs[p.run].seq
        BY <2>4, <2>6, <3>2 DEF AtOrBehind
      <4>2. runs' = runs
        BY <2>1
      <4>. QED  BY <4>1, <4>2 DEF ProposalRead, AtOrBehind
    <3>. QED  BY <2>1, <3>1, <3>2
  <2>. QED  BY <2>7, <2>8 DEF Reads
<1>5. CASE GateStale(w)
  <2>1. worker[w].phase = "replayed" /\ worker' = [worker EXCEPT ![w].phase = "ack"] /\ UNCHANGED proposals
    BY <1>5 DEF GateStale
  <2>2. worker[w] # Idle
    BY <1>0, <2>1, WorkerShape
  <2>3. worker'[w].phase = "ack" /\ \A v \in Workers : v # w => worker'[v] = worker[v]
    BY <1>0, <2>1, <2>2, PhaseEffect DEF Phases
  <2>. QED  BY <2>1, <2>3, ReadsReset
<1>6. CASE SettleTask(w)
  <2>1. /\ worker'[w] = Idle /\ UNCHANGED proposals
        /\ \A v \in Workers : v # w => worker'[v] = worker[v]
    BY <1>0, <1>6 DEF SettleTask
  <2>2. worker'[w].phase = "idle"
    BY <2>1 DEF Idle
  <2>. QED  BY <2>1, <2>2, ReadsReset
<1>. QED  BY <1>1, <1>2, <1>3, <1>4, <1>5, <1>6 DEF WorkerStep

\* A fault keeps what was read.
LEMMA ReadsFault ==
    ASSUME GapInv, Reads, [Next]_vars, FaultNext PROVE Reads'
<1>0. TypeOK /\ worker \in [Workers -> Busy \cup {Idle}]
  BY DEF GapInv, Typed, TypeOK
<1>1. PICK w \in Workers : GateReject(w) \/ GiveUp(w) \/ WorkerCrash(w)
  BY DEF FaultNext
<1>2. worker[w] # Idle
  BY <1>0, <1>1, WorkerShape DEF GateReject, GiveUp, WorkerCrash
<1>3. /\ worker'[w].phase \notin {"loaded", "replayed", "proposed"}
      /\ \A v \in Workers : v # w => worker'[v] = worker[v]
  <2>1. CASE worker' = [worker EXCEPT ![w].phase = "nack"]
    <3>1. worker'[w].phase = "nack" /\ \A v \in Workers : v # w => worker'[v] = worker[v]
      BY <1>0, <1>2, <2>1, PhaseEffect DEF Phases
    <3>. QED  BY <3>1
  <2>2. CASE worker' = [worker EXCEPT ![w] = Idle]
    <3>1. worker'[w].phase = "idle" /\ \A v \in Workers : v # w => worker'[v] = worker[v]
      BY <1>0, <2>2 DEF Idle
    <3>. QED  BY <3>1
  <2>. QED  BY <1>1, <2>1, <2>2 DEF GateReject, GiveUp, WorkerCrash
<1>4. proposals' = proposals \/ proposals' = Disowned(w)
  BY <1>1 DEF GateReject, GiveUp, WorkerCrash
<1>5. \A q \in proposals' : \E p \in proposals :
          q.run = p.run /\ q.epoch = p.epoch /\ q.seq = p.seq /\ q.saw = p.saw
  BY <1>0, <1>4, DisownedEffect
<1>. QED  BY <1>3, <1>5, ReadsReset

\* An applied append keeps what was read.
LEMMA ReadsApply ==
    ASSUME GapInv, Reads, [Next]_vars, NEW p \in proposals, ApplyAppend(p) PROVE Reads'
<1>0. TypeOK /\ Owners /\ worker \in [Workers -> Busy \cup {Idle}]
  BY DEF GapInv, Typed, TypeOK
<1>1. /\ proposals' = proposals \ {p}
      /\ worker' = IF p.by = NoWorker THEN worker ELSE [worker EXCEPT ![p.by].phase = "ack"]
  BY DEF ApplyAppend
<1>2. CASE p.by = NoWorker
  <2>1. \A w \in Workers : WorkerRead(w)'
    BY <1>1, <1>2, WorkerReadKept DEF Reads
  <2>2. \A q \in proposals' : ProposalRead(q)'
    BY <1>1, ProposalReadKept DEF Reads
  <2>. QED  BY <2>1, <2>2 DEF Reads
<1>3. CASE p.by # NoWorker
  <2>1. p.by \in Workers /\ worker[p.by].phase = "proposed"
    BY <1>0, <1>3, ProposalShape DEF Owners, OwnedBy
  <2>2. worker[p.by] # Idle
    BY <1>0, <2>1, WorkerShape
  <2>3. worker'[p.by].phase = "ack" /\ \A v \in Workers : v # p.by => worker'[v] = worker[v]
    BY <1>0, <1>1, <1>3, <2>1, <2>2, PhaseEffect DEF Phases
  <2>. QED  BY <1>1, <2>1, <2>3, ReadsReset
<1>. QED  BY <1>2, <1>3

\* Every step keeps what was read.
LEMMA ReadsStep == ASSUME GapInv, Reads, [Next]_vars PROVE Reads'
<1>1. CASE ClientNext \/ ActivityNext \/ UNCHANGED vars
  <2>1. UNCHANGED <<worker, proposals>>
    <3>1. CASE ClientNext
      <4>1. ASSUME NEW r \in RunIds, Cancel(r) PROVE UNCHANGED <<worker, proposals>>
        BY <4>1, Zenon DEF Cancel
      <4>. QED  BY <3>1, <4>1 DEF ClientNext, StartRun, Signal
    <3>2. CASE ActivityNext
      BY <3>2 DEF ActivityNext, CompleteActivity, LeaseActivity, AckActivity, ActivityReturned,
                  ActivityDeadLettered
    <3>. QED  BY <1>1, <3>1, <3>2 DEF vars
  <2>. QED  BY <2>1, ReadsUntouched
<1>2. CASE \E w \in Workers : WorkerStep(w)
  BY <1>2, ReadsWorker
<1>3. CASE FaultNext
  BY <1>3, ReadsFault
<1>4. CASE BrokerNext
  <2>1. ASSUME NEW t \in timers, FireTimer(t) PROVE Reads'
    BY <2>1, ReadsUntouched DEF FireTimer
  <2>2. ASSUME NEW k \in TaskKeys, TaskExpires(k) \/ TaskDeadLettered(k) PROVE Reads'
    BY <2>2, ReadsUntouched DEF TaskExpires, TaskDeadLettered
  <2>. QED  BY <1>4, <2>1, <2>2, ReadsApply DEF BrokerNext
<1>. QED  BY <1>1, <1>2, <1>3, <1>4 DEF Next

\* Every step keeps decisions on the whole history before them.
LEMMA SawStep == SawInv /\ [Next]_vars => SawInv'
<1>. SUFFICES ASSUME SawInv, [Next]_vars PROVE SawInv'
  OBVIOUS
<1>1. GapInv /\ Reads /\ GapInv' /\ Reads'
  BY GapInvStep, ReadsStep DEF SawInv
<1>2. ASSUME NEW k \in EventKeys, hist'[k].type = "WORKFLOW_TASK_COMPLETED"
      PROVE  hist'[k].saw = 1..(k[2] - 1)
  <2>1. CASE hist'[k] = hist[k]
    BY <1>2, <2>1 DEF SawInv, DecisionSawHistory
  <2>2. ASSUME NEW r \in RunIds, NEW type \in Told, NEW ref \in 0..MaxEvent, hist'[k] = NewEvent(type, ref)
        PROVE  FALSE
    <3>1. type = "WORKFLOW_TASK_COMPLETED"
      BY <1>2, <2>2, ToldEvent
    <3>. QED  BY <3>1 DEF Told
  <2>3. hist'[k] # NewEvent("WORKFLOW_STARTED", 0)
    BY <1>2 DEF NewEvent
  <2>4. ASSUME NEW p \in proposals, Committed(p), k = <<p.run, p.seq + 1>>, hist'[k] = TaskCompleted(p.saw)
        PROVE  hist'[k].saw = 1..(k[2] - 1)
    <3>1. hist'[k].saw = p.saw
      BY <2>4 DEF TaskCompleted
    <3>2. p.seq \in Nat /\ k[2] = p.seq + 1
      BY <1>1, <2>4, ProposalShape DEF GapInv, Typed
    <3>3. p.epoch = runs[p.run].epoch /\ p.seq = runs[p.run].seq
      BY <2>4 DEF Committed, Fence
    <3>4. p.saw = 1..p.seq
      BY <1>1, <3>3 DEF Reads, ProposalRead
    <3>. QED  BY <3>1, <3>2, <3>4
  <2>5. ASSUME NEW p \in proposals, k[2] - p.seq - 1 \in 1..Len(p.cmds),
               hist'[k] = NewEvent(EventOf[p.cmds[k[2] - p.seq - 1].kind], 0)
        PROVE  FALSE
    <3>1. p.cmds \in Decisions
      BY <1>1, ProposalShape DEF GapInv, Typed
    <3>. QED  BY <1>2, <2>5, <3>1, CommandEvent
  <2>. QED  BY <1>1, <2>1, <2>2, <2>3, <2>4, <2>5, NewEvents
<1>. QED  BY <1>1, <1>2 DEF SawInv, DecisionSawHistory

\* No committed divergence: every decision in a history was made by a worker that had replayed
\* exactly the events before it, whatever signals, results and other decisions raced it between
\* the worker's two reads, the leader's gate and the log.
THEOREM DecisionsSawTheirHistory == Spec => []DecisionSawHistory
<1>1. Init => SawInv
  <2>. SUFFICES ASSUME Init PROVE SawInv
    OBVIOUS
  <2>1. GapInv
    BY GapInvInit
  <2>2. \A w \in Workers : worker[w].phase = "idle"
    BY DEF Init, Idle
  <2>3. Reads
    BY <2>2 DEF Init, Reads, WorkerRead
  <2>4. \A k \in EventKeys : hist[k].type = "NONE"
    BY DEF Init, NoEvent
  <2>. QED  BY <2>1, <2>3, <2>4 DEF SawInv, DecisionSawHistory
<1>2. SawInv => DecisionSawHistory
  BY DEF SawInv
<1>. QED  BY <1>1, <1>2, SawStep, PTL DEF Spec

-----------------------------------------------------------------------------
(* Activities and timers are answered at most once                         *)

Outcomes == {"ACTIVITY_COMPLETED", "ACTIVITY_FAILED"}

\* An event that answers another: the activity it closes has its done-marker, the timer it
\* fired has no row left.
Answer(k) ==
    hist[k] # NoEvent /\ hist[k].ref # 0 =>
        /\ hist[k].ref \in EventIds /\ hist[k].ref < k[2]
        /\ \/ /\ hist[k].type \in Outcomes /\ <<k[1], hist[k].ref>> \in done
              /\ hist[<<k[1], hist[k].ref>>].type = "ACTIVITY_SCHEDULED"
           \/ /\ hist[k].type = "TIMER_FIRED" /\ <<k[1], hist[k].ref>> \notin timers
              /\ hist[<<k[1], hist[k].ref>>].type = "TIMER_STARTED"

Distinct(k, l) ==
    hist[k] # NoEvent /\ hist[l] # NoEvent /\ hist[k].ref # 0 /\ k[1] = l[1] /\ hist[l].ref = hist[k].ref
        => k = l

ArmedStarted == \A t \in timers : hist[t].type = "TIMER_STARTED"

AnswerInv ==
    /\ GapInv /\ ArmedStarted
    /\ \A k \in EventKeys : Answer(k)
    /\ \A k, l \in EventKeys : Distinct(k, l)

\* The done-markers only grow; a timer row that appears is that of a TIMER_STARTED the same
\* decision writes.
LEMMA MarksStep ==
    ASSUME GapInv, [Next]_vars
    PROVE  /\ done \subseteq done'
           /\ \A t \in timers' : t \notin timers =>
                 t \in EventKeys /\ hist[t] = NoEvent /\ hist'[t].type = "TIMER_STARTED"
<1>0. Typed /\ TypeOK /\ Gapless /\ Fresh
  BY DEF GapInv, Typed
<1>1. CASE Still
  BY <1>1 DEF Still
<1>2. ASSUME NEW t \in Tenants, StartRun(t) PROVE UNCHANGED <<done, timers>>
  BY <1>2 DEF StartRun
<1>3. ASSUME NEW r \in RunIds, Signal(r) PROVE UNCHANGED <<done, timers>>
  BY <1>3 DEF Signal
<1>4. ASSUME NEW r \in RunIds, Cancel(r) PROVE UNCHANGED <<done, timers>>
  BY <1>4, Zenon DEF Cancel
<1>5. ASSUME NEW r \in RunIds, NEW e \in EventIds, NEW type \in Outcomes, Terminal(r, e, type)
      PROVE  done \subseteq done' /\ UNCHANGED timers
  BY <1>5 DEF Terminal
<1>6. ASSUME NEW t \in timers, Fired(t) PROVE UNCHANGED done /\ timers' \subseteq timers
  BY <1>6 DEF Fired
<1>7. ASSUME NEW p \in proposals, Committed(p), NEW t \in timers', t \notin timers
      PROVE  t \in EventKeys /\ hist[t] = NoEvent /\ hist'[t].type = "TIMER_STARTED"
  <2>1. timers' = ArmTimers(p) /\ AppendEvents(p) /\ Fence(p)
    BY <1>7 DEF Committed, ApplyAppend, AppendEvents
  <2>2. PICK i \in CommandsOf(p.cmds, {"start_timer"}) : t = <<p.run, p.seq + 1 + i>>
    BY <1>7, <2>1 DEF ArmTimers
  <2>3. p.cmds \in Decisions /\ p.seq \in Nat /\ p.run \in RunIds
    BY <1>0, ProposalShape
  <2>4. Len(p.cmds) \in Nat /\ i \in 1..Len(p.cmds) /\ p.cmds[i].kind = "start_timer"
    BY <2>2, <2>3, DecisionShape DEF CommandsOf
  <2>5. Recorded(p)
    BY <1>0, <2>1, DecisionEffect
  <2>6. p.seq + 1 + i \in EventIds /\ p.seq + 1 + i > p.seq + 1
        /\ p.seq + 1 + i <= p.seq + Len(p.cmds) + 1 /\ (p.seq + 1 + i) - p.seq - 1 = i
        /\ ~(p.seq + 1 + i <= p.seq)
    <3>1. p.seq + Len(p.cmds) + 1 \in EventIds
      BY <2>5 DEF Recorded
    <3>2. ASSUME NEW q \in Nat, NEW n \in Nat, NEW j \in 1..n, q + n + 1 \in 1..MaxEvent
          PROVE  /\ q + 1 + j \in 1..MaxEvent /\ q + 1 + j > q + 1 /\ q + 1 + j <= q + n + 1
                 /\ (q + 1 + j) - q - 1 = j /\ ~(q + 1 + j <= q)
      BY <3>2, Bounds
    <3>. QED  BY <2>3, <2>4, <3>1, <3>2 DEF EventIds
  <2>7. hist'[<<p.run, p.seq + 1 + i>>] = NewEvent(EventOf[p.cmds[i].kind], 0)
    BY <2>5, <2>6 DEF Recorded
  <2>8. hist[<<p.run, p.seq + 1 + i>>] = NoEvent
    BY <1>0, <2>5, <2>6, RecordedRows
  <2>9. hist'[t].type = "TIMER_STARTED"
    BY <2>2, <2>4, <2>7 DEF EventOf, NewEvent
  <2>. QED  BY <2>2, <2>3, <2>6, <2>8, <2>9, KeyParts
<1>8. ASSUME NEW p \in proposals, Committed(p) PROVE UNCHANGED done
  BY <1>8 DEF Committed, ApplyAppend
<1>. QED  BY <1>0, <1>1, <1>2, <1>3, <1>4, <1>5, <1>6, <1>7, <1>8, StepKinds DEF Writes, Outcomes

\* An answer already in the history stays one.
LEMMA AnswerKept ==
    ASSUME AnswerInv, [Next]_vars, NEW k \in EventKeys, hist[k] # NoEvent PROVE Answer(k)'
<1>0. GapInv /\ TypeOK /\ Answer(k)
  BY DEF AnswerInv, GapInv, Typed
<1>1. hist'[k] = hist[k]
  BY <1>0, HistoryFinalStep
<1>2. CASE hist[k].ref = 0
  BY <1>1, <1>2 DEF Answer
<1>3. CASE hist[k].ref # 0
  <2>. DEFINE a == <<k[1], hist[k].ref>>
  <2>1. /\ hist[k].ref \in EventIds /\ hist[k].ref < k[2]
        /\ \/ hist[k].type \in Outcomes /\ a \in done /\ hist[a].type = "ACTIVITY_SCHEDULED"
           \/ hist[k].type = "TIMER_FIRED" /\ a \notin timers /\ hist[a].type = "TIMER_STARTED"
    BY <1>0, <1>3 DEF Answer
  <2>2. a \in EventKeys
    BY <2>1, KeyParts
  <2>3. hist[a] # NoEvent
    BY <2>1 DEF NoEvent
  <2>4. hist'[a] = hist[a]
    BY <1>0, <2>2, <2>3, HistoryFinalStep
  <2>5. a \in done => a \in done'
    BY <1>0, MarksStep
  <2>6. a \notin timers => a \notin timers'
    BY <1>0, <2>3, MarksStep
  <2>. QED  BY <1>1, <2>1, <2>4, <2>5, <2>6 DEF Answer
<1>. QED  BY <1>2, <1>3

\* The answers a step adds: one terminal event or one fired timer.
LEMMA AnswerWritten ==
    ASSUME GapInv, [Next]_vars, NEW k \in EventKeys, hist'[k] # hist[k], hist'[k].ref # 0
    PROVE  \E r \in RunIds, e \in EventIds, type \in Outcomes \cup {"TIMER_FIRED"} :
              /\ type \in Outcomes => Terminal(r, e, type)
              /\ type = "TIMER_FIRED" => <<r, e>> \in timers /\ Fired(<<r, e>>)
              /\ Appended(r, type, e, "RUNNING") /\ k = <<r, runs[r].seq + 1>>
              /\ hist'[k] = NewEvent(type, e)
<1>0. Typed /\ TypeOK /\ Gapless /\ Fresh
  BY DEF GapInv, Typed
<1>1. k[1] \in RunIds /\ k[2] \in EventIds /\ k = <<k[1], k[2]>>
  BY KeyParts
<1>2. CASE Still
  BY <1>2 DEF Still
<1>3. ASSUME NEW t \in Tenants, StartRun(t) PROVE FALSE
  <2>1. Created(nextRun, t, 0) /\ k[1] = nextRun
    BY <1>0, <1>3, StartEffect
  <2>2. hist'[k] = NewEvent("WORKFLOW_STARTED", 0)
    BY <1>1, <2>1 DEF Created
  <2>. QED  BY <2>2 DEF NewEvent
<1>4. ASSUME NEW r \in RunIds, Signal(r) PROVE FALSE
  <2>1. hist'[k] = NewEvent("SIGNAL_RECEIVED", 0)
    BY <1>0, <1>4, SignalEffect DEF Appended
  <2>. QED  BY <2>1 DEF NewEvent
<1>5. ASSUME NEW r \in RunIds, Cancel(r) PROVE FALSE
  <2>1. hist'[k] = NewEvent("WORKFLOW_CANCELED", 0)
    BY <1>0, <1>5, CancelEffect DEF Appended
  <2>. QED  BY <2>1 DEF NewEvent
<1>6. ASSUME NEW r \in RunIds, NEW e \in EventIds, NEW type \in Outcomes, Terminal(r, e, type)
      PROVE  /\ Appended(r, type, e, "RUNNING") /\ k = <<r, runs[r].seq + 1>> /\ hist'[k] = NewEvent(type, e)
             /\ type # "TIMER_FIRED"
  <2>1. Appended(r, type, e, "RUNNING")
    BY <1>0, <1>6, TerminalEffect DEF Outcomes
  <2>. QED  BY <2>1 DEF Appended, Outcomes
<1>7. ASSUME NEW t \in timers, Fired(t)
      PROVE  /\ t[1] \in RunIds /\ t[2] \in EventIds /\ t = <<t[1], t[2]>>
             /\ Appended(t[1], "TIMER_FIRED", t[2], "RUNNING") /\ k = <<t[1], runs[t[1]].seq + 1>>
             /\ hist'[k] = NewEvent("TIMER_FIRED", t[2])
  <2>1. /\ t[1] \in RunIds /\ t[2] \in EventIds /\ t = <<t[1], t[2]>>
        /\ Appended(t[1], "TIMER_FIRED", t[2], "RUNNING")
    BY <1>0, <1>7, FiredEffect
  <2>. QED  BY <2>1 DEF Appended
<1>8. ASSUME NEW p \in proposals, Committed(p) PROVE FALSE
  <2>1. \A type, saw : NewEvent(type, 0).ref = 0 /\ TaskCompleted(saw).ref = 0
    BY DEF NewEvent, TaskCompleted
  <2>. QED  BY <1>8, <2>1, CommittedEvents
<1>9. "TIMER_FIRED" \notin Outcomes
  BY DEF Outcomes
<1>10. CASE \E r \in RunIds, e \in EventIds : \E type \in Outcomes : Terminal(r, e, type)
  <2>1. PICK r \in RunIds, e \in EventIds, type \in Outcomes : Terminal(r, e, type)
    BY <1>10
  <2>. QED  BY <1>6, <2>1
<1>11. CASE \E t \in timers : Fired(t)
  <2>1. PICK t \in timers : Fired(t)
    BY <1>11
  <2>. QED  BY <1>7, <1>9, <2>1
<1>. QED  BY <1>0, <1>2, <1>3, <1>4, <1>5, <1>8, <1>10, <1>11, StepKinds DEF Writes, Outcomes

\* A new answer answers an event nothing in the history answers yet.
LEMMA AnswerNew ==
    ASSUME AnswerInv, [Next]_vars, NEW k \in EventKeys, hist'[k] # hist[k], hist'[k].ref # 0
    PROVE  /\ Answer(k)'
           /\ \A l \in EventKeys : l # k /\ l[1] = k[1] => hist'[l] = hist[l]
           /\ \A l \in EventKeys : l[1] = k[1] /\ hist[l] # NoEvent => hist[l].ref # hist'[k].ref
<1>0. GapInv /\ TypeOK /\ Gapless /\ ArmedStarted /\ \A l \in EventKeys : Answer(l)
  BY DEF AnswerInv, GapInv, Typed
<1>1. PICK r \in RunIds, e \in EventIds, type \in Outcomes \cup {"TIMER_FIRED"} :
              /\ type \in Outcomes => Terminal(r, e, type)
              /\ type = "TIMER_FIRED" => <<r, e>> \in timers /\ Fired(<<r, e>>)
              /\ Appended(r, type, e, "RUNNING") /\ k = <<r, runs[r].seq + 1>>
              /\ hist'[k] = NewEvent(type, e)
  BY <1>0, AnswerWritten
<1>2. /\ <<r, e>> \in EventKeys /\ k[1] = r /\ k[2] = runs[r].seq + 1 /\ e \in Nat /\ e # 0
      /\ hist'[k].type = type /\ hist'[k].ref = e
  BY <1>1, KeyParts DEF NewEvent, EventIds
<1>3. /\ \A l \in EventKeys : l # k => hist'[l] = hist[l]
      /\ Running(r) /\ runs[r].seq \in Nat
  BY <1>0, <1>1, RunShape DEF Appended
<1>4. ASSUME hist[<<r, e>>] # NoEvent
      PROVE  e < k[2] /\ hist'[<<r, e>>] = hist[<<r, e>>]
  <2>1. e <= runs[r].seq
    BY <1>0, <1>4 DEF Gapless
  <2>. QED  BY <1>2, <1>3, <1>4, <2>1, <1>0, HistoryFinalStep
<1>5. CASE type \in Outcomes
  <2>1. /\ hist[<<r, e>>].type = "ACTIVITY_SCHEDULED" /\ <<r, e>> \notin done /\ <<r, e>> \in done'
    BY <1>1, <1>5 DEF Terminal, TerminalDue
  <2>2. hist[<<r, e>>] # NoEvent
    BY <2>1 DEF NoEvent
  <2>3. Answer(k)'
    BY <1>2, <1>4, <1>5, <2>1, <2>2 DEF Answer
  <2>4. ASSUME NEW l \in EventKeys, l[1] = k[1], hist[l] # NoEvent, hist[l].ref = e PROVE FALSE
    BY <1>0, <1>2, <2>1, <2>4 DEF Answer
  <2>. QED  BY <1>2, <1>3, <2>3, <2>4
<1>6. CASE type = "TIMER_FIRED"
  <2>1. <<r, e>> \in timers /\ <<r, e>> \notin timers'
    BY <1>1, <1>6 DEF Fired
  <2>2. hist[<<r, e>>].type = "TIMER_STARTED"
    BY <1>0, <2>1 DEF ArmedStarted
  <2>3. hist[<<r, e>>] # NoEvent
    BY <2>2 DEF NoEvent
  <2>4. Answer(k)'
    BY <1>2, <1>4, <1>6, <2>1, <2>2, <2>3 DEF Answer
  <2>5. ASSUME NEW l \in EventKeys, l[1] = k[1], hist[l] # NoEvent, hist[l].ref = e PROVE FALSE
    BY <1>0, <1>2, <2>1, <2>2, <2>5 DEF Answer
  <2>. QED  BY <1>2, <1>3, <2>4, <2>5
<1>. QED  BY <1>5, <1>6

\* Every step keeps one answer for each question.
LEMMA AnswerStep == AnswerInv /\ [Next]_vars => AnswerInv'
<1>. SUFFICES ASSUME AnswerInv, [Next]_vars PROVE AnswerInv'
  OBVIOUS
<1>0. GapInv /\ GapInv' /\ ArmedStarted /\ \A k \in EventKeys : Answer(k)
  BY GapInvStep DEF AnswerInv
<1>1. timers \subseteq EventKeys
  BY <1>0 DEF GapInv, Typed, TypeOK
<1>2. ArmedStarted'
  <2>1. ASSUME NEW t \in timers', t \in timers PROVE hist'[t].type = "TIMER_STARTED"
    <3>1. hist[t].type = "TIMER_STARTED" /\ t \in EventKeys
      BY <1>0, <1>1, <2>1 DEF ArmedStarted
    <3>2. hist[t] # NoEvent
      BY <3>1 DEF NoEvent
    <3>. QED  BY <1>0, <3>1, <3>2, HistoryFinalStep
  <2>2. \A t \in timers' : t \notin timers => hist'[t].type = "TIMER_STARTED"
    BY <1>0, MarksStep
  <2>. QED  BY <2>1, <2>2 DEF ArmedStarted
<1>3. ASSUME NEW k \in EventKeys PROVE Answer(k)'
  <2>1. CASE hist[k] # NoEvent
    BY <2>1, AnswerKept
  <2>2. CASE hist'[k] = NoEvent \/ hist'[k].ref = 0
    BY <2>2 DEF Answer
  <2>3. CASE hist[k] = NoEvent /\ hist'[k] # NoEvent /\ hist'[k].ref # 0
    BY <2>3, AnswerNew
  <2>. QED  BY <2>1, <2>2, <2>3
<1>4. ASSUME NEW k \in EventKeys, NEW l \in EventKeys, k[1] = l[1], hist'[k] # NoEvent, hist'[l] # NoEvent,
             hist'[k].ref # 0, hist'[l].ref = hist'[k].ref, k # l
      PROVE  FALSE
  <2>1. CASE hist[k] # NoEvent /\ hist[l] # NoEvent
    <3>1. hist'[k] = hist[k] /\ hist'[l] = hist[l]
      BY <1>0, <2>1, HistoryFinalStep
    <3>. QED  BY <1>4, <2>1, <3>1 DEF AnswerInv, Distinct
  <2>2. CASE hist[k] = NoEvent
    <3>1. /\ hist'[l] = hist[l]
          /\ hist[l] # NoEvent => hist[l].ref # hist'[k].ref
      BY <1>4, <2>2, AnswerNew
    <3>. QED  BY <1>4, <3>1
  <2>3. CASE hist[l] = NoEvent
    <3>1. /\ hist'[k] = hist[k]
          /\ hist[k] # NoEvent => hist[k].ref # hist'[l].ref
      BY <1>4, <2>3, AnswerNew
    <3>. QED  BY <1>4, <3>1
  <2>. QED  BY <2>1, <2>2, <2>3
<1>5. \A k, l \in EventKeys : Distinct(k, l)'
  BY <1>4 DEF Distinct
<1>. QED  BY <1>0, <1>2, <1>3, <1>5 DEF AnswerInv

\* At most one answer: an activity gets one terminal event and a timer fires once, whatever
\* redeliveries, late answers and dead letters race, and each answers an earlier event.
THEOREM OneAnswerEach == Spec => []AnsweredOnce
<1>1. Init => AnswerInv
  <2>. SUFFICES ASSUME Init PROVE AnswerInv
    OBVIOUS
  <2>1. \A k \in EventKeys : hist[k] = NoEvent
    BY DEF Init
  <2>2. timers = {}
    BY DEF Init
  <2>. QED  BY <2>1, <2>2, GapInvInit DEF AnswerInv, ArmedStarted, Answer, Distinct
<1>2. AnswerInv => AnsweredOnce
  <2>. SUFFICES ASSUME AnswerInv, NEW r \in RunIds, NEW i \in EventIds, NEW j \in EventIds,
                       hist[<<r, i>>] # NoEvent, hist[<<r, i>>].ref # 0
                PROVE  /\ hist[<<r, i>>].ref < i
                       /\ hist[<<r, hist[<<r, i>>].ref>>].type = Answers(hist[<<r, i>>].type)
                       /\ hist[<<r, j>>] # NoEvent /\ hist[<<r, j>>].ref = hist[<<r, i>>].ref => i = j
    BY DEF AnsweredOnce
  <2>1. /\ <<r, i>> \in EventKeys /\ <<r, i>>[1] = r /\ <<r, i>>[2] = i
        /\ <<r, j>> \in EventKeys /\ <<r, j>>[1] = r /\ <<r, j>>[2] = j
    BY KeyParts
  <2>2. Answer(<<r, i>>) /\ Distinct(<<r, i>>, <<r, j>>)
    BY <2>1 DEF AnswerInv
  <2>3. hist[<<r, i>>].ref < i /\ hist[<<r, hist[<<r, i>>].ref>>].type = Answers(hist[<<r, i>>].type)
    BY <2>1, <2>2 DEF Answer, Answers, Outcomes
  <2>4. hist[<<r, j>>] # NoEvent /\ hist[<<r, j>>].ref = hist[<<r, i>>].ref => i = j
    BY <2>1, <2>2 DEF Distinct
  <2>. QED  BY <2>3, <2>4
<1>. QED  BY <1>1, <1>2, AnswerStep, PTL DEF Spec

-----------------------------------------------------------------------------
(* No sleep is lost                                                        *)

SleepInv == GapInv /\ TimerNotLost

\* A timer row goes when its timer fires, or when its run is closed.
LEMMA RowGoes ==
    ASSUME GapInv, [Next]_vars, NEW k \in timers, k \notin timers', Running(k[1])
    PROVE  \E i \in EventIds : hist'[<<k[1], i>>].type = "TIMER_FIRED" /\ hist'[<<k[1], i>>].ref = k[2]
<1>0. Typed /\ TypeOK
  BY DEF GapInv, Typed
<1>1. CASE Still
  BY <1>1 DEF Still
<1>2. ASSUME NEW t \in Tenants, StartRun(t) PROVE FALSE
  BY <1>2 DEF StartRun
<1>3. ASSUME NEW r \in RunIds, Signal(r) PROVE FALSE
  BY <1>3 DEF Signal
<1>4. ASSUME NEW r \in RunIds, Cancel(r) PROVE FALSE
  <2>1. timers' = timers
    BY <1>4, Zenon DEF Cancel
  <2>. QED  BY <2>1
<1>5. ASSUME NEW r \in RunIds, NEW e \in EventIds, NEW type \in Outcomes, Terminal(r, e, type) PROVE FALSE
  BY <1>5 DEF Terminal
<1>6. ASSUME NEW p \in proposals, Committed(p) PROVE FALSE
  <2>1. timers' = ArmTimers(p)
    BY <1>6 DEF Committed, ApplyAppend, AppendEvents
  <2>. QED  BY <2>1 DEF ArmTimers
<1>7. CASE \E t \in timers : Fired(t)
  <2>1. PICK t \in timers : Fired(t)
    BY <1>7
  <2>2. k = t
    BY <2>1 DEF Fired
  <2>3. Appended(k[1], "TIMER_FIRED", k[2], "RUNNING")
    BY <1>0, <2>1, <2>2, FiredEffect
  <2>4. runs[k[1]].seq + 1 \in EventIds /\ hist'[<<k[1], runs[k[1]].seq + 1>>] = NewEvent("TIMER_FIRED", k[2])
    BY <2>3 DEF Appended
  <2>5. NewEvent("TIMER_FIRED", k[2]).type = "TIMER_FIRED" /\ NewEvent("TIMER_FIRED", k[2]).ref = k[2]
    BY DEF NewEvent
  <2>. QED  BY <2>4, <2>5
<1>. QED  BY <1>0, <1>1, <1>2, <1>3, <1>4, <1>5, <1>6, <1>7, StepKinds DEF Writes, Outcomes

\* A new TIMER_STARTED is armed by the decision that writes it.
LEMMA StartedArmed ==
    ASSUME GapInv, [Next]_vars, NEW k \in EventKeys, hist'[k] # hist[k], hist'[k].type = "TIMER_STARTED"
    PROVE  k \in timers'
<1>0. TypeOK
  BY DEF GapInv, Typed
<1>1. ASSUME NEW type \in Told, NEW ref \in 0..MaxEvent, hist'[k] = NewEvent(type, ref) PROVE FALSE
  <2>1. type = "TIMER_STARTED"
    BY <1>1, ToldEvent
  <2>. QED  BY <2>1 DEF Told
<1>2. \A saw : hist'[k] # NewEvent("WORKFLOW_STARTED", 0) /\ hist'[k] # TaskCompleted(saw)
  BY DEF NewEvent, TaskCompleted
<1>3. PICK p \in proposals : /\ Committed(p) /\ k[1] = p.run /\ k[2] - p.seq - 1 \in 1..Len(p.cmds)
                             /\ hist'[k] = NewEvent(EventOf[p.cmds[k[2] - p.seq - 1].kind], 0)
  BY <1>1, <1>2, NewEvents
<1>. DEFINE i == k[2] - p.seq - 1
<1>4. p.cmds \in Decisions /\ p.seq \in Nat
  BY <1>0, ProposalShape
<1>5. /\ k[2] \in Nat /\ k = <<k[1], k[2]>> /\ k[2] = p.seq + 1 + i
  BY <1>4, KeyParts DEF EventIds
<1>6. i \in 1..Len(p.cmds) /\ hist'[k] = NewEvent(EventOf[p.cmds[i].kind], 0)
  BY <1>3
<1>. HIDE DEF i
<1>7. p.cmds[i].kind \in CommandKinds /\ EventOf[p.cmds[i].kind] = "TIMER_STARTED"
  BY <1>4, <1>6, DecisionShape DEF NewEvent
<1>8. p.cmds[i].kind = "start_timer"
  BY <1>7, EventOfKind
<1>9. i \in CommandsOf(p.cmds, {"start_timer"})
  BY <1>4, <1>6, <1>8, DecisionShape DEF CommandsOf
<1>10. timers' = ArmTimers(p)
  BY <1>3 DEF Committed, ApplyAppend, AppendEvents
<1>. QED  BY <1>3, <1>5, <1>9, <1>10 DEF ArmTimers

\* Every step keeps a timer or its firing for each sleep.
LEMMA SleepStep == SleepInv /\ [Next]_vars => SleepInv'
<1>. SUFFICES ASSUME SleepInv, [Next]_vars PROVE SleepInv'
  OBVIOUS
<1>0. GapInv /\ GapInv' /\ TypeOK /\ TypeOK'
  BY GapInvStep DEF SleepInv, GapInv, Typed
<1>1. ASSUME NEW k \in EventKeys, runs'[k[1]].status = "RUNNING", hist'[k].type = "TIMER_STARTED"
      PROVE  \/ k \in timers'
             \/ \E i \in EventIds : hist'[<<k[1], i>>].type = "TIMER_FIRED" /\ hist'[<<k[1], i>>].ref = k[2]
  <2>1. CASE hist'[k] # hist[k]
    BY <1>0, <1>1, <2>1, StartedArmed
  <2>2. CASE hist'[k] = hist[k]
    <3>0. k[1] \in RunIds /\ k[2] \in EventIds /\ k = <<k[1], k[2]>>
      BY KeyParts
    <3>1. Running(k[1])
      <4>1. runs[k[1]] # NoRun
        <5>1. hist[k] # NoEvent
          BY <1>1, <2>2 DEF NoEvent
        <5>. QED  BY <1>0, <3>0, <5>1 DEF GapInv, Gapless
      <4>2. runs[k[1]].status \in ClosedStatus => runs'[k[1]] = runs[k[1]]
        BY <1>0, <3>0, HistoryFinalStep
      <4>3. "RUNNING" \notin ClosedStatus
        BY DEF ClosedStatus
      <4>. QED  BY <1>0, <1>1, <3>0, <4>1, <4>2, <4>3, RunShape DEF Running
    <3>2. CASE k \in timers
      BY <1>0, <3>1, <3>2, RowGoes
    <3>3. ASSUME NEW i \in EventIds, hist[<<k[1], i>>].type = "TIMER_FIRED", hist[<<k[1], i>>].ref = k[2]
          PROVE  hist'[<<k[1], i>>] = hist[<<k[1], i>>]
      <4>1. hist[<<k[1], i>>] # NoEvent /\ <<k[1], i>> \in EventKeys
        BY <3>0, <3>3, KeyParts DEF NoEvent
      <4>. QED  BY <1>0, <4>1, HistoryFinalStep
    <3>. QED  BY <1>1, <2>2, <3>1, <3>2, <3>3 DEF SleepInv, TimerNotLost
  <2>. QED  BY <2>1, <2>2
<1>. QED  BY <1>0, <1>1 DEF SleepInv, TimerNotLost, Running

\* No sleep is lost: as long as its run is open, a started timer is armed or has fired, in
\* particular when one decision starts several timers or a timer and an activity.
THEOREM SleepsAreKept == Spec => []TimerNotLost
<1>1. Init => SleepInv
  <2>. SUFFICES ASSUME Init PROVE SleepInv
    OBVIOUS
  <2>1. \A k \in EventKeys : hist[k].type = "NONE"
    BY DEF Init, NoEvent
  <2>. QED  BY <2>1, GapInvInit DEF SleepInv, TimerNotLost
<1>2. SleepInv => TimerNotLost
  BY DEF SleepInv
<1>. QED  BY <1>1, <1>2, SleepStep, PTL DEF Spec

-----------------------------------------------------------------------------
(* No run is wedged                                                        *)

\* Ids are handed out in order: nothing is queued, and nothing leased, at or above the next one.
TasksBelow ==
    /\ \A k \in TaskKeys : k[2] >= taskNext[k[1]] => tasks[k] = NoTask
    /\ \A w \in Workers : worker[w] # Idle => worker[w].key[2] < taskNext[worker[w].key[1]]

Awaiting(r) == Running(r) /\ Undecided(r)

\* The worker that has task k will not settle it without a decision.
Attentive(w, k) ==
    worker[w] # Idle /\ worker[w].key = k =>
        /\ worker[w].phase # "ack"
        /\ worker[w].phase \in {"loaded", "replayed", "proposed"} => worker[w].epoch = runs[k[1]].epoch

Minded(k) == tasks[k] # NoTask /\ \A w \in Workers : Attentive(w, k)

\* The task of the run that was dispatched last.
LastTask(r) == <<r, taskNext[r] - 1>>

Attended == \A r \in RunIds : Awaiting(r) => LastTask(r) \in TaskKeys /\ Minded(LastTask(r))

WedgeInv == GapInv /\ Reads /\ TasksBelow /\ Attended

\* The task queues as numbers.
LEMMA QueueShape ==
    ASSUME TypeOK
    PROVE  /\ \A r \in RunIds : taskNext[r] \in Nat /\ taskNext[r] >= 1 /\ taskNext[r] <= MaxTask + 1
           /\ \A k \in TaskKeys : k[1] \in RunIds /\ k[2] \in Nat /\ k[2] >= 1 /\ k[2] <= MaxTask
           /\ \A k \in TaskKeys : tasks[k] \in Task \cup {NoTask}
  BY Bounds DEF TypeOK, TaskKeys, RunIds, TaskIds

\* A task that is there is not the sentinel.
LEMMA TaskStates ==
    /\ ReadyTask # NoTask /\ DeadTask # NoTask
    /\ \A t : t.state = "READY" \/ t.state = "LEASED" => t # NoTask
  BY DEF ReadyTask, DeadTask, NoTask

\* No task appears on a queue.
QueueKeeps ==
    /\ UNCHANGED taskNext
    /\ \A k \in TaskKeys : tasks[k] = NoTask => tasks'[k] = NoTask

\* A worker keeps its task or takes one that is queued.
WorkerKeys ==
    \A w \in Workers : worker'[w] # Idle =>
        \/ worker[w] # Idle /\ worker'[w].key = worker[w].key
        \/ worker'[w].key \in TaskKeys /\ tasks[worker'[w].key] # NoTask

\* A published task takes the next id.
LEMMA BelowPublished ==
    ASSUME TypeOK, TasksBelow, NEW r \in RunIds, TaskPublished(r), WorkerKeys PROVE TasksBelow'
<1>1. /\ taskNext[r] \in TaskIds /\ taskNext'[r] = taskNext[r] + 1
      /\ \A k \in TaskKeys : k # <<r, taskNext[r]>> => tasks'[k] = tasks[k]
      /\ \A x \in RunIds : x # r => taskNext'[x] = taskNext[x]
  BY PublishedEffect
<1>2. \A x \in RunIds : taskNext[x] \in Nat /\ taskNext'[x] \in Nat /\ taskNext'[x] >= taskNext[x]
  BY <1>1, QueueShape
<1>3. ASSUME NEW k \in TaskKeys, k[2] >= taskNext'[k[1]] PROVE tasks'[k] = NoTask
  <2>1. k[1] \in RunIds /\ k[2] \in Nat /\ k[2] >= taskNext[k[1]]
    BY <1>2, <1>3, QueueShape
  <2>2. k # <<r, taskNext[r]>>
    BY <1>1, <1>2, <1>3, <2>1
  <2>. QED  BY <1>1, <2>1, <2>2 DEF TasksBelow
<1>4. ASSUME NEW w \in Workers, worker'[w] # Idle PROVE worker'[w].key[2] < taskNext'[worker'[w].key[1]]
  <2>1. CASE worker[w] # Idle /\ worker'[w].key = worker[w].key
    <3>1. /\ worker[w].key \in TaskKeys /\ worker[w].key[2] < taskNext[worker[w].key[1]]
      BY <2>1, WorkerShape DEF TasksBelow
    <3>2. worker[w].key[1] \in RunIds /\ worker[w].key[2] \in Nat
      BY <3>1, QueueShape
    <3>. QED  BY <1>2, <2>1, <3>1, <3>2
  <2>2. CASE worker'[w].key \in TaskKeys /\ tasks[worker'[w].key] # NoTask
    <3>1. worker'[w].key[1] \in RunIds /\ worker'[w].key[2] \in Nat
      BY <2>2, QueueShape
    <3>2. ~(worker'[w].key[2] >= taskNext[worker'[w].key[1]])
      BY <2>2 DEF TasksBelow
    <3>. QED  BY <1>2, <3>1, <3>2
  <2>. QED  BY <1>4, <2>1, <2>2 DEF WorkerKeys
<1>. QED  BY <1>3, <1>4 DEF TasksBelow

\* A step that only moves tasks keeps them below the next id.
LEMMA BelowKept ==
    ASSUME TypeOK, TasksBelow, QueueKeeps, WorkerKeys PROVE TasksBelow'
<1>1. ASSUME NEW k \in TaskKeys, k[2] >= taskNext'[k[1]] PROVE tasks'[k] = NoTask
  BY <1>1 DEF TasksBelow, QueueKeeps
<1>2. ASSUME NEW w \in Workers, worker'[w] # Idle PROVE worker'[w].key[2] < taskNext'[worker'[w].key[1]]
  <2>1. CASE worker[w] # Idle /\ worker'[w].key = worker[w].key
    BY <2>1 DEF TasksBelow, QueueKeeps
  <2>2. CASE worker'[w].key \in TaskKeys /\ tasks[worker'[w].key] # NoTask
    <3>1. worker'[w].key[1] \in RunIds /\ worker'[w].key[2] \in Nat /\ taskNext[worker'[w].key[1]] \in Nat
      BY <2>2, QueueShape
    <3>2. ~(worker'[w].key[2] >= taskNext[worker'[w].key[1]])
      BY <2>2 DEF TasksBelow
    <3>. QED  BY <3>1, <3>2 DEF QueueKeeps
  <2>. QED  BY <1>2, <2>1, <2>2 DEF WorkerKeys
<1>. QED  BY <1>1, <1>2 DEF TasksBelow

\* What one worker's step does to its own record.
LEMMA WorkerStepKeys ==
    ASSUME TypeOK, NEW w \in Workers, WorkerStep(w) PROVE QueueKeeps /\ WorkerKeys
<1>0. worker \in [Workers -> Busy \cup {Idle}] /\ tasks \in [TaskKeys -> Task \cup {NoTask}]
  BY DEF TypeOK
<1>1. ASSUME NEW r \in RunIds, NEW i \in TaskIds, LeaseTask(w, r, i) PROVE QueueKeeps /\ WorkerKeys
  <2>1. /\ tasks[<<r, i>>].state = "READY" /\ UNCHANGED taskNext /\ <<r, i>> \in TaskKeys
        /\ tasks' = [tasks EXCEPT ![<<r, i>>] = [state |-> "LEASED", holder |-> w]]
        /\ worker' = [worker EXCEPT ![w] =
              [phase |-> "leased", key |-> <<r, i>>, epoch |-> 0, seq |-> 0, saw |-> {}]]
    BY <1>1, KeyParts DEF LeaseTask
  <2>2. tasks[<<r, i>>] # NoTask
    BY <2>1, TaskStates
  <2>3. QueueKeeps
    BY <1>0, <2>1, <2>2 DEF QueueKeeps
  <2>4. worker'[w].key = <<r, i>> /\ \A v \in Workers : v # w => worker'[v] = worker[v]
    BY <1>0, <2>1
  <2>. QED  BY <2>1, <2>2, <2>3, <2>4 DEF WorkerKeys
<1>2. CASE LoadRun(w) \/ ReplayHistory(w)
  <2>1. worker[w].phase \in {"leased", "loaded"} /\ UNCHANGED <<tasks, taskNext>>
    BY <1>2 DEF LoadRun, ReplayHistory, queues
  <2>2. worker[w] # Idle /\ worker[w] \in Busy
    BY <2>1, WorkerShape
  <2>3. worker'[w].key = worker[w].key /\ \A v \in Workers : v # w => worker'[v] = worker[v]
    <3>1. CASE LoadRun(w)
      <4>1. \/ worker' = [worker EXCEPT ![w] = [worker[w] EXCEPT !.phase = "ack"]]
            \/ worker' = [worker EXCEPT ![w] =
                  [worker[w] EXCEPT !.phase = "loaded", !.epoch = runs[worker[w].key[1]].epoch,
                                    !.seq = runs[worker[w].key[1]].seq]]
        BY <1>0, <3>1 DEF LoadRun
      <4>. QED  BY <1>0, <2>2, <4>1 DEF Busy
    <3>2. CASE ReplayHistory(w)
      <4>1. worker' = [worker EXCEPT ![w] =
                [worker[w] EXCEPT !.phase = "replayed", !.saw = Written(worker[w].key[1])]]
        BY <1>0, <3>2 DEF ReplayHistory
      <4>. QED  BY <1>0, <2>2, <4>1 DEF Busy
    <3>. QED  BY <1>2, <3>1, <3>2
  <2>. QED  BY <2>1, <2>2, <2>3 DEF QueueKeeps, WorkerKeys
<1>3. CASE GateStale(w) \/ \E d \in Decisions : Propose(w, d)
  <2>1. /\ worker[w].phase = "replayed" /\ UNCHANGED <<tasks, taskNext>>
        /\ \E ph \in Phases : worker' = [worker EXCEPT ![w].phase = ph]
    BY <1>3 DEF GateStale, Propose, queues, Phases
  <2>2. worker[w] # Idle
    BY <2>1, WorkerShape
  <2>3. worker'[w].key = worker[w].key /\ \A v \in Workers : v # w => worker'[v] = worker[v]
    BY <2>1, <2>2, PhaseEffect
  <2>. QED  BY <2>1, <2>2, <2>3 DEF QueueKeeps, WorkerKeys
<1>4. CASE SettleTask(w)
  <2>1. /\ UNCHANGED taskNext /\ worker' = [worker EXCEPT ![w] = Idle]
        /\ tasks' = IF Holds(w)
                    THEN [tasks EXCEPT ![worker[w].key] =
                            IF worker[w].phase = "ack" THEN NoTask ELSE ReadyTask]
                    ELSE tasks
    BY <1>4 DEF SettleTask
  <2>2. Holds(w) => tasks[worker[w].key] # NoTask
    BY TaskStates DEF Holds
  <2>3. QueueKeeps
    BY <1>0, <2>1, <2>2 DEF QueueKeeps
  <2>. QED  BY <1>0, <2>1, <2>3 DEF WorkerKeys
<1>. QED  BY <1>1, <1>2, <1>3, <1>4 DEF WorkerStep

\* How a task that ran out, a fault and the answer to a proposal move the queues.
LEMMA OtherKeys ==
    ASSUME Typed
    PROVE  /\ FaultNext => QueueKeeps /\ WorkerKeys
           /\ \A k \in TaskKeys : TaskExpires(k) \/ TaskDeadLettered(k) => QueueKeeps /\ WorkerKeys
           /\ \A p \in proposals : ApplyAppend(p) => WorkerKeys
<1>0. TypeOK /\ Owners /\ worker \in [Workers -> Busy \cup {Idle}] /\ tasks \in [TaskKeys -> Task \cup {NoTask}]
  BY DEF Typed, TypeOK
<1>1. ASSUME FaultNext PROVE QueueKeeps /\ WorkerKeys
  <2>1. PICK w \in Workers : GateReject(w) \/ GiveUp(w) \/ WorkerCrash(w)
    BY <1>1 DEF FaultNext
  <2>2. /\ UNCHANGED <<tasks, taskNext>> /\ worker[w] # Idle
        /\ worker' = [worker EXCEPT ![w].phase = "nack"] \/ worker' = [worker EXCEPT ![w] = Idle]
    BY <1>0, <2>1, WorkerShape DEF GateReject, GiveUp, WorkerCrash, queues
  <2>3. CASE worker' = [worker EXCEPT ![w].phase = "nack"]
    <3>1. worker'[w].key = worker[w].key /\ \A v \in Workers : v # w => worker'[v] = worker[v]
      BY <1>0, <2>2, <2>3, PhaseEffect DEF Phases
    <3>. QED  BY <2>2, <3>1 DEF QueueKeeps, WorkerKeys
  <2>4. CASE worker' = [worker EXCEPT ![w] = Idle]
    BY <1>0, <2>2, <2>4 DEF QueueKeeps, WorkerKeys
  <2>. QED  BY <2>2, <2>3, <2>4
<1>2. ASSUME NEW k \in TaskKeys, TaskExpires(k) \/ TaskDeadLettered(k) PROVE QueueKeeps /\ WorkerKeys
  <2>1. /\ tasks[k].state = "LEASED" /\ UNCHANGED <<worker, taskNext>>
        /\ tasks' = [tasks EXCEPT ![k] = ReadyTask] \/ tasks' = [tasks EXCEPT ![k] = DeadTask]
    BY <1>2 DEF TaskExpires, TaskDeadLettered
  <2>2. tasks[k] # NoTask
    BY <2>1, TaskStates
  <2>. QED  BY <1>0, <2>1, <2>2 DEF QueueKeeps, WorkerKeys
<1>3. ASSUME NEW p \in proposals, ApplyAppend(p) PROVE WorkerKeys
  <2>1. worker' = IF p.by = NoWorker THEN worker ELSE [worker EXCEPT ![p.by].phase = "ack"]
    BY <1>3 DEF ApplyAppend
  <2>2. CASE p.by = NoWorker
    BY <2>1, <2>2 DEF WorkerKeys
  <2>3. CASE p.by # NoWorker
    <3>1. p.by \in Workers /\ worker[p.by].phase = "proposed"
      BY <1>0, <2>3, ProposalShape DEF Owners, OwnedBy
    <3>2. worker[p.by] # Idle
      BY <1>0, <3>1, WorkerShape
    <3>3. worker'[p.by].key = worker[p.by].key /\ \A v \in Workers : v # p.by => worker'[v] = worker[v]
      BY <1>0, <2>1, <2>3, <3>1, <3>2, PhaseEffect DEF Phases
    <3>. QED  BY <3>2, <3>3 DEF WorkerKeys
  <2>. QED  BY <2>2, <2>3
<1>. QED  BY <1>1, <1>2, <1>3

\* The step publishes a task for run r, to whom something happened, and touches no other run.
Asks(r) ==
    /\ r \in RunIds /\ TaskPublished(r) /\ UNCHANGED worker
    /\ \A x \in RunIds : x # r => runs'[x] = runs[x] /\ \A i \in EventIds : hist'[<<x, i>>] = hist[<<x, i>>]

\* Every step asks for a decision, closes a run, answers a proposal, is a worker's or the
\* broker's with a task, or leaves tasks and workers alone.
LEMMA TaskSteps ==
    ASSUME Typed, [Next]_vars
    PROVE  \/ \E r \in RunIds : Asks(r)
           \/ \E r \in RunIds : Cancel(r)
           \/ \E p \in proposals : ApplyAppend(p)
           \/ \E w \in Workers : WorkerStep(w)
           \/ FaultNext
           \/ \E k \in TaskKeys : TaskExpires(k) \/ TaskDeadLettered(k)
           \/ UNCHANGED <<runs, hist, taskNext, tasks, worker>>
<1>0. TypeOK
  BY DEF Typed
<1>1. ASSUME NEW r \in RunIds, NEW type, NEW ref, NEW status, Appended(r, type, ref, status),
             TaskPublished(r), UNCHANGED worker
      PROVE  Asks(r)
  <2>1. ASSUME NEW x \in RunIds, x # r
        PROVE  runs'[x] = runs[x] /\ \A i \in EventIds : hist'[<<x, i>>] = hist[<<x, i>>]
    <3>1. runs[r].seq + 1 \in EventIds
      BY <1>1 DEF Appended
    <3>2. \A i \in EventIds : <<x, i>> \in EventKeys /\ <<x, i>> # <<r, runs[r].seq + 1>>
      BY <2>1, <3>1, KeyParts
    <3>. QED  BY <1>1, <2>1, <3>2 DEF Appended
  <2>. QED  BY <1>1, <2>1 DEF Asks
<1>2. CASE ClientNext
  <2>1. ASSUME NEW t \in Tenants, StartRun(t) PROVE Asks(nextRun)
    <3>1. /\ Created(nextRun, t, 0)
          /\ \A x \in RunIds : x # nextRun => runs'[x] = runs[x]
          /\ \A k \in EventKeys : k[1] # nextRun => hist'[k] = hist[k]
      BY <1>0, <2>1, StartEffect
    <3>2. UNCHANGED worker
      BY <2>1 DEF StartRun
    <3>. QED  BY <3>1, <3>2, KeyParts DEF Asks, Created
  <2>2. ASSUME NEW r \in RunIds, Signal(r) PROVE Asks(r)
    BY <1>0, <1>1, <2>2, SignalEffect
  <2>3. \A t \in Tenants : StartRun(t) => nextRun \in RunIds
    BY DEF StartRun
  <2>. QED  BY <1>2, <2>1, <2>2, <2>3 DEF ClientNext
<1>3. CASE \E w \in Workers : WorkerStep(w)
  BY <1>3
<1>4. CASE BrokerNext
  <2>1. ASSUME NEW t \in timers, FireTimer(t)
        PROVE  (\E r \in RunIds : Asks(r)) \/ UNCHANGED <<runs, hist, taskNext, tasks, worker>>
    <3>1. CASE Running(t[1])
      <4>1. Fired(t) /\ UNCHANGED worker
        BY <2>1, <3>1 DEF FireTimer, Fired
      <4>2. Appended(t[1], "TIMER_FIRED", t[2], "RUNNING") /\ TaskPublished(t[1]) /\ t[1] \in RunIds
        BY <1>0, <4>1, FiredEffect
      <4>. QED  BY <1>1, <4>1, <4>2
    <3>2. CASE ~Running(t[1])
      BY <2>1, <3>2 DEF FireTimer
    <3>. QED  BY <3>1, <3>2
  <2>. QED  BY <1>4, <2>1 DEF BrokerNext
<1>5. CASE ActivityNext
  <2>1. ASSUME NEW r \in RunIds, NEW e \in EventIds, NEW type \in Outcomes, Terminal(r, e, type)
        PROVE  Asks(r)
    <3>1. Appended(r, type, e, "RUNNING") /\ TaskPublished(r)
      BY <1>0, <2>1, TerminalEffect DEF Outcomes
    <3>2. UNCHANGED worker
      BY <2>1 DEF Terminal
    <3>. QED  BY <1>1, <3>1, <3>2
  <2>2. ASSUME NEW r \in RunIds, NEW e \in EventIds, NEW type \in Outcomes, CompleteActivity(r, e, type)
        PROVE  Asks(r)
    <3>1. Terminal(r, e, type)
      BY <2>2 DEF CompleteActivity, RecordActivityTerminal, Terminal
    <3>. QED  BY <2>1, <3>1
  <2>3. ASSUME NEW k \in ActKeys, ActivityDeadLettered(k)
        PROVE  (\E r \in RunIds : Asks(r)) \/ UNCHANGED <<runs, hist, taskNext, tasks, worker>>
    <3>. DEFINE r == acts[k].run
                e == acts[k].event
    <3>1. /\ acts[k].state = "LEASED" /\ RecordActivityTerminal(r, e, "ACTIVITY_FAILED")
          /\ UNCHANGED <<nextRun, timers, worker, proposals>>
      BY <2>3 DEF ActivityDeadLettered, Bridge
    <3>2. r \in RunIds /\ e \in EventIds
      BY <1>0, <3>1, DeadLetterTyped
    <3>. HIDE DEF r, e
    <3>3. CASE TerminalDue(r, e)
      <4>1. Terminal(r, e, "ACTIVITY_FAILED") /\ "ACTIVITY_FAILED" \in Outcomes
        BY <3>1, <3>3 DEF RecordActivityTerminal, Terminal, Outcomes
      <4>. QED  BY <2>1, <3>2, <4>1
    <3>4. CASE ~TerminalDue(r, e)
      BY <3>1, <3>4 DEF RecordActivityTerminal
    <3>. QED  BY <3>3, <3>4
  <2>4. ASSUME NEW k \in ActKeys, LeaseActivity(k) \/ AckActivity(k) \/ ActivityReturned(k)
        PROVE  UNCHANGED <<runs, hist, taskNext, tasks, worker>>
    BY <2>4 DEF LeaseActivity, AckActivity, ActivityReturned
  <2>. QED  BY <1>5, <2>2, <2>3, <2>4 DEF ActivityNext, Outcomes
<1>6. CASE UNCHANGED vars
  BY <1>6 DEF vars, queues
<1>. QED  BY <1>2, <1>3, <1>4, <1>5, <1>6 DEF Next

\* Every step keeps the tasks below the next id.
LEMMA BelowStep == ASSUME Typed, TasksBelow, [Next]_vars PROVE TasksBelow'
<1>0. TypeOK /\ Fresh
  BY DEF Typed
<1>1. ASSUME NEW r \in RunIds, Asks(r) PROVE TasksBelow'
  BY <1>0, <1>1, BelowPublished DEF Asks, WorkerKeys
<1>2. ASSUME NEW r \in RunIds, Cancel(r) PROVE TasksBelow'
  <2>1. UNCHANGED <<taskNext, tasks, worker>>
    BY <1>2, Zenon DEF Cancel, queues
  <2>. QED  BY <1>0, <2>1, BelowKept DEF QueueKeeps, WorkerKeys
<1>3. ASSUME NEW p \in proposals, ApplyAppend(p) PROVE TasksBelow'
  <2>1. WorkerKeys
    BY <1>3, OtherKeys
  <2>2. \/ UNCHANGED <<tasks, taskNext>>
        \/ nextRun \in RunIds /\ TaskPublished(nextRun)
    <3>1. CASE Fence(p)
      BY <1>0, <1>3, <3>1, DecisionEffect DEF ApplyAppend, Created
    <3>2. CASE ~Fence(p)
      BY <1>3, <3>2 DEF ApplyAppend, queues
    <3>. QED  BY <3>1, <3>2
  <2>3. CASE UNCHANGED <<tasks, taskNext>>
    BY <1>0, <2>1, <2>3, BelowKept DEF QueueKeeps
  <2>4. CASE nextRun \in RunIds /\ TaskPublished(nextRun)
    BY <1>0, <2>1, <2>4, BelowPublished
  <2>. QED  BY <2>2, <2>3, <2>4
<1>4. ASSUME QueueKeeps, WorkerKeys PROVE TasksBelow'
  BY <1>0, <1>4, BelowKept
<1>5. UNCHANGED <<runs, hist, taskNext, tasks, worker>> => QueueKeeps /\ WorkerKeys
  BY DEF QueueKeeps, WorkerKeys
<1>. QED  BY <1>0, <1>1, <1>2, <1>3, <1>4, <1>5, TaskSteps, WorkerStepKeys, OtherKeys

\* A run to which nothing happened awaits a decision as before.
LEMMA AwaitingSame ==
    ASSUME NEW r \in RunIds, runs'[r] = runs[r], \A i \in EventIds : hist'[<<r, i>>] = hist[<<r, i>>]
    PROVE  Awaiting(r)' <=> Awaiting(r)
  BY DEF Awaiting, Running, Undecided

\* A task nothing happened to is minded as before.
LEMMA MindedSame ==
    ASSUME NEW k \in TaskKeys, Minded(k), tasks'[k] # NoTask, runs'[k[1]] = runs[k[1]],
           \A w \in Workers : worker'[w] = worker[w] \/ Attentive(w, k)'
    PROVE  Minded(k)'
  BY DEF Minded, Attentive

\* A run that is asked for a decision gets a fresh task, which no worker has.
LEMMA AttendedAsked ==
    ASSUME TypeOK, TasksBelow, Attended, NEW r, Asks(r) PROVE Attended'
<1>0. /\ r \in RunIds /\ TaskPublished(r) /\ worker' = worker
  BY DEF Asks
<1>1. /\ taskNext[r] \in TaskIds /\ taskNext'[r] = taskNext[r] + 1
      /\ tasks'[<<r, taskNext[r]>>] = ReadyTask
      /\ \A k \in TaskKeys : k # <<r, taskNext[r]>> => tasks'[k] = tasks[k]
      /\ \A x \in RunIds : x # r => taskNext'[x] = taskNext[x]
  BY <1>0, PublishedEffect
<1>2. <<r, taskNext'[r] - 1>> = <<r, taskNext[r]>> /\ <<r, taskNext[r]>> \in TaskKeys
  BY <1>0, <1>1, KeyParts DEF TaskIds
<1>3. PICK n \in TaskIds : n = taskNext[r]
  BY <1>1
<1>4. Minded(<<r, n>>)'
  <2>1. tasks'[<<r, n>>] # NoTask
    BY <1>1, <1>3, TaskStates
  <2>2. ASSUME NEW w \in Workers, worker[w] # Idle PROVE worker[w].key # <<r, n>>
    <3>1. worker[w].key[2] < taskNext[worker[w].key[1]]
      BY <2>2 DEF TasksBelow
    <3>2. <<r, n>>[1] = r /\ <<r, n>>[2] = n /\ n \in Nat /\ ~(n < taskNext[r])
      BY <1>0, <1>3, KeyParts DEF TaskIds
    <3>. QED  BY <3>1, <3>2
  <2>. QED  BY <1>0, <2>1, <2>2 DEF Minded, Attentive
<1>5. ASSUME NEW x \in RunIds, Awaiting(x)' PROVE LastTask(x)' \in TaskKeys /\ Minded(LastTask(x))'
  <2>1. CASE x = r
    <3>1. LastTask(x)' = <<r, n>>
      BY <1>2, <1>3, <2>1 DEF LastTask
    <3>2. <<r, n>> \in TaskKeys
      BY <1>2, <1>3
    <3>. QED  BY <1>4, <3>1, <3>2
  <2>2. CASE x # r
    <3>1. runs'[x] = runs[x] /\ \A i \in EventIds : hist'[<<x, i>>] = hist[<<x, i>>]
      BY <2>2 DEF Asks
    <3>2. Awaiting(x)
      BY <1>5, <3>1, AwaitingSame
    <3>3. LastTask(x) \in TaskKeys /\ Minded(LastTask(x))
      BY <3>2 DEF Attended
    <3>4. PICK k \in TaskKeys : k = LastTask(x)
      BY <3>3
    <3>5. k[1] = x
      BY <3>4 DEF LastTask
    <3>6. tasks'[k] = tasks[k]
      BY <1>1, <2>2, <3>5
    <3>7. Minded(k)'
      BY <1>0, <3>1, <3>3, <3>4, <3>5, <3>6, MindedSame DEF Minded
    <3>8. LastTask(x)' = k
      BY <1>1, <2>2, <3>4 DEF LastTask
    <3>. QED  BY <3>7, <3>8
  <2>. QED  BY <2>1, <2>2
<1>. QED  BY <1>5 DEF Attended

\* Steps that neither publish a task nor take a minded one away.
LEMMA AttendedKept ==
    ASSUME Attended, NEW R,
           \A x \in RunIds : x \in R \/ ( /\ runs'[x] = runs[x] /\ taskNext'[x] = taskNext[x]
                                         /\ \A i \in EventIds : hist'[<<x, i>>] = hist[<<x, i>>]),
           \A x \in RunIds : x \in R => ~Awaiting(x)',
           \A k \in TaskKeys : k[1] \notin R /\ Awaiting(k[1]) /\ Minded(k) =>
               /\ tasks'[k] # NoTask
               /\ \A w \in Workers : worker'[w] = worker[w] \/ Attentive(w, k)'
    PROVE  Attended'
<1>1. ASSUME NEW x \in RunIds, Awaiting(x)' PROVE LastTask(x)' \in TaskKeys /\ Minded(LastTask(x))'
  <2>1. x \notin R /\ runs'[x] = runs[x] /\ taskNext'[x] = taskNext[x]
        /\ \A i \in EventIds : hist'[<<x, i>>] = hist[<<x, i>>]
    BY <1>1
  <2>2. Awaiting(x)
    BY <1>1, <2>1, AwaitingSame
  <2>3. PICK k \in TaskKeys : k = LastTask(x) /\ Minded(k)
    BY <2>2 DEF Attended
  <2>4. k[1] = x
    BY <2>3 DEF LastTask
  <2>5. Minded(k)'
    BY <2>1, <2>2, <2>3, <2>4, MindedSame
  <2>6. LastTask(x)' = k
    BY <2>1, <2>3 DEF LastTask
  <2>. QED  BY <2>5, <2>6
<1>. QED  BY <1>1 DEF Attended

\* Steps that leave the runs, their histories and the next ids alone.
LEMMA AttendedAtRest ==
    ASSUME Attended, UNCHANGED <<runs, hist, taskNext>>,
           \A k \in TaskKeys : Running(k[1]) /\ Minded(k) =>
               /\ tasks'[k] # NoTask
               /\ \A w \in Workers : worker'[w] = worker[w] \/ Attentive(w, k)'
    PROVE  Attended'
<1>0. PICK R : R = {}
  OBVIOUS
<1>1. \A x \in RunIds : x \in R \/ ( /\ runs'[x] = runs[x] /\ taskNext'[x] = taskNext[x]
                                       /\ \A i \in EventIds : hist'[<<x, i>>] = hist[<<x, i>>])
  OBVIOUS
<1>2. \A x \in RunIds : x \in R => ~Awaiting(x)'
  BY <1>0
<1>3. \A k \in TaskKeys : k[1] \notin R /\ Awaiting(k[1]) /\ Minded(k) =>
          tasks'[k] # NoTask /\ \A w \in Workers : worker'[w] = worker[w] \/ Attentive(w, k)'
  BY DEF Awaiting
<1>. QED  BY <1>1, <1>2, <1>3, AttendedKept

\* A worker step leaves the pending run attended.
LEMMA AttendedWorker ==
    ASSUME GapInv, Reads, Attended, NEW w \in Workers, WorkerStep(w) PROVE Attended'
<1>0. /\ TypeOK /\ worker \in [Workers -> Busy \cup {Idle}] /\ tasks \in [TaskKeys -> Task \cup {NoTask}]
  BY DEF GapInv, Typed, TypeOK
<1>1. ASSUME NEW r \in RunIds, NEW i \in TaskIds, LeaseTask(w, r, i) PROVE Attended'
  <2>1. /\ UNCHANGED <<runs, hist, taskNext>> /\ <<r, i>> \in TaskKeys
        /\ tasks' = [tasks EXCEPT ![<<r, i>>] = [state |-> "LEASED", holder |-> w]]
        /\ worker' = [worker EXCEPT ![w] =
              [phase |-> "leased", key |-> <<r, i>>, epoch |-> 0, seq |-> 0, saw |-> {}]]
    BY <1>1, KeyParts DEF LeaseTask
  <2>2. worker'[w].phase = "leased" /\ \A v \in Workers : v # w => worker'[v] = worker[v]
    BY <1>0, <2>1
  <2>3. ASSUME NEW k \in TaskKeys, Minded(k) PROVE tasks'[k] # NoTask
    <3>1. tasks'[<<r, i>>].state = "LEASED"
      BY <1>0, <2>1
    <3>. QED  BY <1>0, <2>1, <2>3, <3>1, TaskStates DEF Minded
  <2>4. \A k \in TaskKeys : Attentive(w, k)'
    BY <2>2 DEF Attentive
  <2>. QED  BY <2>1, <2>2, <2>3, <2>4, AttendedAtRest
<1>2. CASE LoadRun(w)
  <2>. DEFINE r == worker[w].key[1]
  <2>1. /\ worker[w].phase = "leased" /\ UNCHANGED <<runs, hist, taskNext, tasks>>
        /\ worker' = [worker EXCEPT ![w] = IF Running(r)
              THEN [worker[w] EXCEPT !.phase = "loaded", !.epoch = runs[r].epoch, !.seq = runs[r].seq]
              ELSE [worker[w] EXCEPT !.phase = "ack"]]
    BY <1>0, <1>2 DEF LoadRun, queues
  <2>2. worker[w] \in Busy /\ \A v \in Workers : v # w => worker'[v] = worker[v]
    BY <1>0, <2>1, WorkerShape
  <2>3. ASSUME NEW k \in TaskKeys, Running(k[1]) PROVE Attentive(w, k)'
    <3>1. CASE Running(r)
      <4>1. worker'[w] = [worker[w] EXCEPT !.phase = "loaded", !.epoch = runs[r].epoch, !.seq = runs[r].seq]
        BY <1>0, <2>1, <3>1
      <4>2. worker'[w].phase = "loaded" /\ worker'[w].epoch = runs[r].epoch /\ worker'[w].key = worker[w].key
        BY <2>2, <4>1 DEF Busy
      <4>. QED  BY <2>1, <4>2 DEF Attentive
    <3>2. CASE ~Running(r)
      <4>1. worker'[w] = [worker[w] EXCEPT !.phase = "ack"]
        BY <1>0, <2>1, <3>2
      <4>2. worker'[w].key = worker[w].key
        BY <2>2, <4>1 DEF Busy
      <4>. QED  BY <2>3, <3>2, <4>2 DEF Attentive
    <3>. QED  BY <3>1, <3>2
  <2>. QED  BY <2>1, <2>2, <2>3, AttendedAtRest DEF Minded
<1>3. CASE ReplayHistory(w)
  <2>1. /\ worker[w].phase = "loaded" /\ UNCHANGED <<runs, hist, taskNext, tasks>>
        /\ worker' = [worker EXCEPT ![w] =
              [worker[w] EXCEPT !.phase = "replayed", !.saw = Written(worker[w].key[1])]]
    BY <1>0, <1>3 DEF ReplayHistory, queues
  <2>2. /\ worker[w] \in Busy /\ worker[w] # Idle /\ \A v \in Workers : v # w => worker'[v] = worker[v]
    BY <1>0, <2>1, WorkerShape
  <2>3. worker'[w] = [worker[w] EXCEPT !.phase = "replayed", !.saw = Written(worker[w].key[1])]
    BY <1>0, <2>1
  <2>4. worker'[w].phase = "replayed" /\ worker'[w].epoch = worker[w].epoch /\ worker'[w].key = worker[w].key
    BY <2>2, <2>3 DEF Busy
  <2>5. ASSUME NEW k \in TaskKeys, Minded(k) PROVE Attentive(w, k)'
    BY <2>1, <2>2, <2>4, <2>5 DEF Minded, Attentive
  <2>. QED  BY <2>1, <2>2, <2>5, AttendedAtRest DEF Minded
<1>4. CASE \E d \in Decisions : Propose(w, d)
  <2>1. /\ worker[w].phase = "replayed" /\ UNCHANGED <<runs, hist, taskNext, tasks>>
        /\ worker' = [worker EXCEPT ![w].phase = "proposed"]
    BY <1>4 DEF Propose, queues
  <2>2. worker[w] # Idle
    BY <1>0, <2>1, WorkerShape
  <2>3. /\ worker'[w].phase = "proposed" /\ worker'[w].key = worker[w].key
        /\ worker'[w].epoch = worker[w].epoch /\ \A v \in Workers : v # w => worker'[v] = worker[v]
    BY <1>0, <2>1, <2>2, PhaseEffect DEF Phases
  <2>4. ASSUME NEW k \in TaskKeys, Minded(k) PROVE Attentive(w, k)'
    BY <2>1, <2>2, <2>3, <2>4 DEF Minded, Attentive
  <2>. QED  BY <2>1, <2>3, <2>4, AttendedAtRest DEF Minded
<1>5. CASE GateStale(w)
  <2>1. /\ worker[w].phase = "replayed" /\ ~AtVersion(w) /\ UNCHANGED <<runs, hist, taskNext, tasks>>
        /\ worker' = [worker EXCEPT ![w].phase = "ack"]
    BY <1>5 DEF GateStale, queues
  <2>2. worker[w] # Idle
    BY <1>0, <2>1, WorkerShape
  <2>3. /\ worker'[w].key = worker[w].key /\ \A v \in Workers : v # w => worker'[v] = worker[v]
    BY <1>0, <2>1, <2>2, PhaseEffect DEF Phases
  <2>4. ASSUME NEW k \in TaskKeys, Running(k[1]), Minded(k), worker[w].key = k PROVE FALSE
    <3>1. worker[w].epoch = runs[k[1]].epoch
      BY <2>1, <2>2, <2>4 DEF Minded, Attentive
    <3>2. worker[w].seq = runs[k[1]].seq
      BY <2>1, <2>4, <3>1 DEF Reads, WorkerRead, AtOrBehind
    <3>. QED  BY <2>1, <2>4, <3>1, <3>2 DEF AtVersion
  <2>5. ASSUME NEW k \in TaskKeys, Running(k[1]), Minded(k) PROVE Attentive(w, k)'
    BY <2>3, <2>4, <2>5 DEF Attentive
  <2>. QED  BY <2>1, <2>3, <2>5, AttendedAtRest DEF Minded
<1>6. CASE SettleTask(w)
  <2>1. /\ worker[w].phase \in {"ack", "nack"} /\ UNCHANGED <<runs, hist, taskNext>>
        /\ worker' = [worker EXCEPT ![w] = Idle]
        /\ tasks' = IF Holds(w)
                    THEN [tasks EXCEPT ![worker[w].key] =
                            IF worker[w].phase = "ack" THEN NoTask ELSE ReadyTask]
                    ELSE tasks
    BY <1>6 DEF SettleTask
  <2>2. worker[w] # Idle /\ worker[w].key \in TaskKeys
    BY <1>0, <2>1, WorkerShape
  <2>3. /\ worker'[w] = Idle /\ \A v \in Workers : v # w => worker'[v] = worker[v]
    BY <1>0, <2>1
  <2>4. ASSUME NEW k \in TaskKeys, Minded(k) PROVE tasks'[k] # NoTask
    <3>1. tasks[k] # NoTask /\ (worker[w].key = k => worker[w].phase # "ack")
      BY <2>2, <2>4 DEF Minded, Attentive
    <3>. QED  BY <1>0, <2>1, <2>2, <3>1, TaskStates
  <2>5. \A k \in TaskKeys : Attentive(w, k)'
    BY <2>3 DEF Attentive
  <2>. QED  BY <2>1, <2>3, <2>4, <2>5, AttendedAtRest
<1>. QED  BY <1>1, <1>2, <1>3, <1>4, <1>5, <1>6 DEF WorkerStep

\* A decision answers everything in the history it was made on.
LEMMA DecidedByCommit ==
    ASSUME GapInv, NEW p \in proposals, Committed(p) PROVE ~Undecided(p.run)'
<1>0. Typed /\ TypeOK /\ Fresh /\ Gapless
  BY DEF GapInv, Typed
<1>1. Recorded(p)
  BY <1>0, DecisionEffect DEF Committed, ApplyAppend
<1>2. p.cmds \in Decisions /\ p.seq \in Nat /\ p.run \in RunIds /\ p.saw \in SUBSET EventIds
  BY <1>0, ProposalShape
<1>3. /\ p.seq + 1 \in EventIds /\ hist'[<<p.run, p.seq + 1>>].type = "WORKFLOW_TASK_COMPLETED"
  <2>1. p.seq + Len(p.cmds) + 1 \in EventIds /\ Len(p.cmds) \in Nat
        /\ hist'[<<p.run, p.seq + 1>>] = TaskCompleted(p.saw)
    BY <1>1 DEF Recorded
  <2>2. p.seq + 1 \in EventIds
    BY <1>2, <2>1, Bounds DEF EventIds
  <2>. QED  BY <1>2, <2>1, <2>2, FrameEvent
<1>4. ASSUME NEW i \in EventIds, i > p.seq + 1 PROVE hist'[<<p.run, i>>].type \notin External
  <2>1. CASE i <= p.seq + Len(p.cmds) + 1
    <3>1. /\ i - p.seq - 1 \in 1..Len(p.cmds)
          /\ hist'[<<p.run, i>>] = NewEvent(EventOf[p.cmds[i - p.seq - 1].kind], 0)
      BY <1>1, <1>4, <2>1 DEF Recorded
    <3>. QED  BY <1>2, <3>1, CommandEvent
  <2>2. CASE ~(i <= p.seq + Len(p.cmds) + 1)
    <3>1. runs'[p.run].seq = p.seq + (Len(p.cmds) + 1) /\ Len(p.cmds) \in Nat
      BY <1>1 DEF Recorded, Grown
    <3>2. ~(i <= runs'[p.run].seq)
      BY <1>2, <2>2, <3>1 DEF EventIds
    <3>3. hist'[<<p.run, i>>] = NoEvent
      BY <1>0, <1>1, <3>2, RecordedRows
    <3>. QED  BY <3>3 DEF NoEvent, External
  <2>. QED  BY <2>1, <2>2
<1>. QED  BY <1>2, <1>3, <1>4 DEF Undecided, EventIds

\* The answer to a proposal: a decision that is written leaves nothing to decide, and one that
\* is refused is not the last task's.
LEMMA AttendedApply ==
    ASSUME GapInv, Reads, TasksBelow, Attended, NEW p \in proposals, ApplyAppend(p) PROVE Attended'
<1>0. /\ Typed /\ TypeOK /\ Fresh /\ Gapless /\ Owners /\ worker \in [Workers -> Busy \cup {Idle}]
  BY DEF GapInv, Typed, TypeOK
<1>1. /\ p.run \in RunIds /\ p.by \in Workers \cup {NoWorker}
      /\ worker' = IF p.by = NoWorker THEN worker ELSE [worker EXCEPT ![p.by].phase = "ack"]
  BY <1>0, ProposalShape DEF ApplyAppend
<1>2. ASSUME p.by # NoWorker
      PROVE  /\ p.by \in Workers /\ worker[p.by] # Idle /\ worker[p.by].phase = "proposed"
             /\ worker[p.by].key[1] = p.run /\ worker[p.by].epoch = p.epoch /\ worker[p.by].seq = p.seq
             /\ worker'[p.by].key = worker[p.by].key
             /\ \A v \in Workers : v # p.by => worker'[v] = worker[v]
  <2>1. /\ p.by \in Workers /\ worker[p.by].phase = "proposed" /\ worker[p.by].key[1] = p.run
        /\ worker[p.by].epoch = p.epoch /\ worker[p.by].seq = p.seq
    BY <1>0, <1>1, <1>2 DEF Owners, OwnedBy
  <2>2. worker[p.by] # Idle
    BY <1>0, <2>1, WorkerShape
  <2>3. worker'[p.by].key = worker[p.by].key /\ \A v \in Workers : v # p.by => worker'[v] = worker[v]
    BY <1>0, <1>1, <1>2, <2>1, <2>2, PhaseEffect DEF Phases
  <2>. QED  BY <2>1, <2>2, <2>3
<1>3. ASSUME NEW k \in TaskKeys, k[1] # p.run, NEW w \in Workers
      PROVE  worker'[w] = worker[w] \/ Attentive(w, k)'
  BY <1>1, <1>2, <1>3 DEF Attentive
<1>4. CASE ~Fence(p)
  <2>1. UNCHANGED <<runs, hist, taskNext, tasks>>
    BY <1>4 DEF ApplyAppend, queues
  <2>2. ASSUME NEW k \in TaskKeys, Running(k[1]), Minded(k), NEW w \in Workers
        PROVE  worker'[w] = worker[w] \/ Attentive(w, k)'
    <3>1. CASE k[1] # p.run
      BY <1>3, <3>1
    <3>2. CASE p.by = NoWorker \/ w # p.by
      BY <1>1, <1>2, <3>2
    <3>3. CASE k[1] = p.run /\ p.by # NoWorker /\ w = p.by
      <4>1. ASSUME worker[w].key = k PROVE FALSE
        <5>1. p.epoch = runs[p.run].epoch
          BY <1>2, <2>2, <3>3, <4>1 DEF Minded, Attentive
        <5>2. p.seq = runs[p.run].seq
          BY <5>1 DEF Reads, ProposalRead, AtOrBehind
        <5>. QED  BY <1>4, <2>2, <3>3, <5>1, <5>2 DEF Fence
      <4>. QED  BY <1>2, <3>3, <4>1 DEF Attentive
    <3>. QED  BY <3>1, <3>2, <3>3
  <2>. QED  BY <2>1, <2>2, AttendedAtRest DEF Minded
<1>5. CASE Fence(p)
  <2>1. /\ Recorded(p)
        /\ Successor(p) => Created(nextRun, runs[p.run].tenant, p.run) /\ nextRun # p.run
        /\ ~Successor(p) => UNCHANGED <<nextRun, tasks, taskNext>>
        /\ \A k \in EventKeys : k[1] # p.run /\ (Successor(p) => k[1] # nextRun) => hist'[k] = hist[k]
        /\ \A x \in RunIds : x # p.run /\ (Successor(p) => x # nextRun) => runs'[x] = runs[x]
    BY <1>0, <1>5, DecisionEffect DEF ApplyAppend
  <2>2. ~Awaiting(p.run)'
    BY <1>5, DecidedByCommit DEF Committed, Awaiting
  <2>3. CASE ~Successor(p)
    <3>1. \A x \in RunIds : x \in {p.run} \/ ( /\ runs'[x] = runs[x] /\ taskNext'[x] = taskNext[x]
                                              /\ \A i \in EventIds : hist'[<<x, i>>] = hist[<<x, i>>])
      BY <2>1, <2>3, KeyParts
    <3>2. \A x \in RunIds : x \in {p.run} => ~Awaiting(x)'
      BY <2>2
    <3>3. \A k \in TaskKeys : k[1] \notin {p.run} /\ Awaiting(k[1]) /\ Minded(k) =>
             tasks'[k] # NoTask /\ \A w \in Workers : worker'[w] = worker[w] \/ Attentive(w, k)'
      BY <1>3, <2>1, <2>3 DEF Minded
    <3>. QED  BY <3>1, <3>2, <3>3, AttendedKept
  <2>4. CASE Successor(p)
    <3>0. /\ nextRun \in RunIds /\ TaskPublished(nextRun) /\ nextRun # p.run
      BY <2>1, <2>4 DEF Created
    <3>1. /\ taskNext[nextRun] \in TaskIds /\ taskNext'[nextRun] = taskNext[nextRun] + 1
          /\ tasks'[<<nextRun, taskNext[nextRun]>>] = ReadyTask
          /\ \A k \in TaskKeys : k # <<nextRun, taskNext[nextRun]>> => tasks'[k] = tasks[k]
          /\ \A x \in RunIds : x # nextRun => taskNext'[x] = taskNext[x]
      BY <1>0, <3>0, PublishedEffect
    <3>2. PICK s \in RunIds : s = nextRun
      BY <3>0
    <3>3. PICK n \in TaskIds : n = taskNext[s]
      BY <3>1, <3>2
    <3>4. <<s, n>> \in TaskKeys /\ <<s, n>>[1] = s /\ <<s, n>>[2] = n /\ n \in Nat
      BY KeyParts DEF TaskIds
    <3>5. Minded(<<s, n>>)'
      <4>1. tasks'[<<s, n>>] # NoTask
        BY <3>1, <3>2, <3>3, TaskStates
      <4>2. ASSUME NEW w \in Workers, worker'[w] # Idle, worker'[w].key = <<s, n>> PROVE FALSE
        <5>1. worker[w] # Idle /\ worker[w].key = <<s, n>>
          BY <1>1, <1>2, <4>2
        <5>2. n < taskNext[s]
          BY <3>4, <5>1 DEF TasksBelow
        <5>. QED  BY <3>3, <3>4, <5>2
      <4>. QED  BY <4>1, <4>2 DEF Minded, Attentive
    <3>6. ASSUME NEW x \in RunIds, Awaiting(x)' PROVE LastTask(x)' \in TaskKeys /\ Minded(LastTask(x))'
      <4>1. CASE x = s
        <5>1. LastTask(x)' = <<s, n>>
          <6>1. taskNext'[s] = n + 1
            BY <3>1, <3>2, <3>3
          <6>2. (n + 1) - 1 = n
            BY <3>4
          <6>. QED  BY <4>1, <6>1, <6>2 DEF LastTask
        <5>. QED  BY <3>4, <3>5, <5>1
      <4>2. CASE x # s
        <5>1. x # p.run
          BY <2>2, <3>6
        <5>2. runs'[x] = runs[x] /\ \A i \in EventIds : hist'[<<x, i>>] = hist[<<x, i>>]
          BY <2>1, <3>2, <4>2, <5>1, KeyParts
        <5>3. PICK k \in TaskKeys : k = LastTask(x) /\ Minded(k)
          BY <3>6, <5>2, AwaitingSame DEF Attended
        <5>4. k[1] = x
          BY <5>3 DEF LastTask
        <5>5. tasks'[k] = tasks[k]
          BY <3>1, <3>2, <4>2, <5>4
        <5>6. Minded(k)'
          BY <1>3, <5>1, <5>2, <5>3, <5>4, <5>5, MindedSame DEF Minded
        <5>7. LastTask(x)' = k
          BY <3>1, <3>2, <4>2, <5>3 DEF LastTask
        <5>. QED  BY <5>6, <5>7
      <4>. QED  BY <4>1, <4>2
    <3>. QED  BY <3>6 DEF Attended
  <2>. QED  BY <2>3, <2>4
<1>. QED  BY <1>4, <1>5

\* Every step leaves every pending run attended.
LEMMA AttendedStep == ASSUME WedgeInv, [Next]_vars PROVE Attended'
<1>0. /\ GapInv /\ Reads /\ TasksBelow /\ Attended /\ Typed /\ TypeOK
      /\ worker \in [Workers -> Busy \cup {Idle}] /\ tasks \in [TaskKeys -> Task \cup {NoTask}]
  BY DEF WedgeInv, GapInv, Typed, TypeOK
<1>1. ASSUME NEW r \in RunIds, Cancel(r) PROVE Attended'
  <2>1. /\ Appended(r, "WORKFLOW_CANCELED", 0, "CANCELED")
    BY <1>0, <1>1, CancelEffect
  <2>2. UNCHANGED <<taskNext, tasks, worker>>
    BY <1>1, Zenon DEF Cancel, queues
  <2>3. ~Awaiting(r)'
    BY <2>1 DEF Appended, Grown, Awaiting, Running
  <2>4. \A x \in RunIds : x \in {r} \/ ( /\ runs'[x] = runs[x] /\ taskNext'[x] = taskNext[x]
                                         /\ \A i \in EventIds : hist'[<<x, i>>] = hist[<<x, i>>])
    <3>1. runs[r].seq + 1 \in EventIds
      BY <2>1 DEF Appended
    <3>2. \A x \in RunIds, i \in EventIds :
              x # r => <<x, i>> \in EventKeys /\ <<x, i>> # <<r, runs[r].seq + 1>>
      BY <3>1, KeyParts
    <3>. QED  BY <2>1, <2>2, <3>2 DEF Appended
  <2>5. \A x \in RunIds : x \in {r} => ~Awaiting(x)'
    BY <2>3
  <2>6. \A k \in TaskKeys : k[1] \notin {r} /\ Awaiting(k[1]) /\ Minded(k) =>
           tasks'[k] # NoTask /\ \A w \in Workers : worker'[w] = worker[w] \/ Attentive(w, k)'
    BY <2>2 DEF Minded
  <2>. QED  BY <1>0, <2>4, <2>5, <2>6, AttendedKept
<1>2. ASSUME FaultNext PROVE Attended'
  <2>1. PICK w \in Workers : GateReject(w) \/ GiveUp(w) \/ WorkerCrash(w)
    BY <1>2 DEF FaultNext
  <2>2. /\ UNCHANGED <<runs, hist, taskNext, tasks>> /\ worker[w] # Idle
        /\ worker' = [worker EXCEPT ![w].phase = "nack"] \/ worker' = [worker EXCEPT ![w] = Idle]
    BY <1>0, <2>1, WorkerShape DEF GateReject, GiveUp, WorkerCrash, queues
  <2>3. CASE worker' = [worker EXCEPT ![w].phase = "nack"]
    <3>1. worker'[w].phase = "nack" /\ \A v \in Workers : v # w => worker'[v] = worker[v]
      BY <1>0, <2>2, <2>3, PhaseEffect DEF Phases
    <3>2. \A k \in TaskKeys : Attentive(w, k)'
      BY <3>1 DEF Attentive
    <3>. QED  BY <1>0, <2>2, <3>1, <3>2, AttendedAtRest DEF Minded
  <2>4. CASE worker' = [worker EXCEPT ![w] = Idle]
    <3>1. worker'[w] = Idle /\ \A v \in Workers : v # w => worker'[v] = worker[v]
      BY <1>0, <2>4
    <3>2. \A k \in TaskKeys : Attentive(w, k)'
      BY <3>1 DEF Attentive
    <3>. QED  BY <1>0, <2>2, <3>1, <3>2, AttendedAtRest DEF Minded
  <2>. QED  BY <2>2, <2>3, <2>4
<1>3. ASSUME NEW k \in TaskKeys, TaskExpires(k) \/ TaskDeadLettered(k) PROVE Attended'
  <2>1. /\ UNCHANGED <<runs, hist, taskNext, worker>>
        /\ tasks' = [tasks EXCEPT ![k] = ReadyTask] \/ tasks' = [tasks EXCEPT ![k] = DeadTask]
    BY <1>3 DEF TaskExpires, TaskDeadLettered
  <2>2. \A j \in TaskKeys : tasks[j] # NoTask => tasks'[j] # NoTask
    BY <1>0, <2>1, TaskStates
  <2>. QED  BY <1>0, <2>1, <2>2, AttendedAtRest DEF Minded
<1>4. UNCHANGED <<runs, hist, taskNext, tasks, worker>> => Attended'
  BY <1>0, AttendedAtRest DEF Minded
<1>. QED  BY <1>0, <1>1, <1>2, <1>3, <1>4, TaskSteps, AttendedAsked, AttendedApply, AttendedWorker

\* No run wedges: while an event of an open run waits for a decision, the task dispatched last is
\* queued, leased or in the dead-letter queue, because a worker settles it unanswered only when a
\* newer version of the run has brought a newer task.
THEOREM NoRunWedges == Spec => []NeverWedged
<1>1. Init => WedgeInv
  <2>. SUFFICES ASSUME Init PROVE WedgeInv
    OBVIOUS
  <2>1. /\ \A w \in Workers : worker[w] = Idle /\ worker[w].phase = "idle"
        /\ \A k \in TaskKeys : tasks[k] = NoTask
        /\ \A r \in RunIds : runs[r].status = "NONE"
        /\ proposals = {}
    BY DEF Init, Idle, NoRun
  <2>2. Reads
    BY <2>1 DEF Reads, WorkerRead
  <2>3. TasksBelow
    BY <2>1 DEF TasksBelow
  <2>4. Attended
    BY <2>1 DEF Attended, Awaiting, Running
  <2>. QED  BY <2>2, <2>3, <2>4, GapInvInit DEF WedgeInv
<1>2. WedgeInv /\ [Next]_vars => WedgeInv'
  <2>. SUFFICES ASSUME WedgeInv, [Next]_vars PROVE WedgeInv'
    OBVIOUS
  <2>1. GapInv /\ Reads /\ TasksBelow /\ Typed
    BY DEF WedgeInv, GapInv
  <2>2. GapInv'
    BY <2>1, GapInvStep
  <2>3. Reads'
    BY <2>1, ReadsStep
  <2>4. TasksBelow'
    BY <2>1, BelowStep
  <2>5. Attended'
    BY AttendedStep
  <2>. QED  BY <2>2, <2>3, <2>4, <2>5 DEF WedgeInv
<1>3. WedgeInv => NeverWedged
  <2>. SUFFICES ASSUME WedgeInv, NEW r \in RunIds, Running(r), Undecided(r)
                PROVE  \E i \in TaskIds : tasks[<<r, i>>] # NoTask
    BY DEF NeverWedged
  <2>1. LastTask(r) \in TaskKeys /\ tasks[LastTask(r)] # NoTask
    BY DEF WedgeInv, Attended, Awaiting, Minded
  <2>2. LastTask(r) = <<r, taskNext[r] - 1>> /\ taskNext[r] - 1 \in TaskIds
    BY <2>1 DEF LastTask, TaskKeys
  <2>. QED  BY <2>1, <2>2
<1>. QED  BY <1>1, <1>2, <1>3, PTL DEF Spec

-----------------------------------------------------------------------------
(* continue-as-new hands over exactly once                                 *)

\* What the tutorial asks of a decider: continue_as_new closes the run, so no complete_workflow
\* or fail_workflow follows it in the same decision.  The server does not check it.
ContinueCloses == \A d \in Decisions : Continues(d) => StatusAfter(d) = "CONTINUED"

Successors(r) == {x \in RunIds : runs[x] # NoRun /\ runs[x].parent = r}

HandedOver ==
    \A r \in RunIds :
        /\ runs[r].status = "CONTINUED" => \E x \in RunIds : Successors(r) = {x}
        /\ runs[r].status # "CONTINUED" => Successors(r) = {}

HandInv == GapInv /\ HandedOver

\* A run that is there keeps its parent.
LEMMA ParentKept ==
    ASSUME GapInv, [Next]_vars, NEW x \in RunIds, runs[x] # NoRun
    PROVE  runs'[x] # NoRun /\ runs'[x].parent = runs[x].parent
<1>0. Typed /\ TypeOK /\ Fresh
  BY DEF GapInv, Typed
<1>1. runs'[x] # NoRun
  BY EpochMoves
<1>2. ASSUME NEW r \in RunIds, NEW type \in Told, NEW ref \in 0..MaxEvent,
             NEW status \in {"RUNNING", "CANCELED"}, Appended(r, type, ref, status)
      PROVE  runs'[x].parent = runs[x].parent
  BY <1>2 DEF Appended, Grown
<1>3. ASSUME NEW t \in Tenants, StartRun(t) PROVE runs'[x] = runs[x]
  <2>1. nextRun \in RunIds /\ \A y \in RunIds : y # nextRun => runs'[y] = runs[y]
    BY <1>0, <1>3, StartEffect DEF Created
  <2>2. x # nextRun
    BY <1>0, <2>1 DEF Fresh, RunIds
  <2>. QED  BY <2>1, <2>2
<1>4. ASSUME NEW p \in proposals, Committed(p) PROVE runs'[x].parent = runs[x].parent
  <2>1. /\ Recorded(p) /\ (Successor(p) => nextRun \in RunIds)
        /\ \A y \in RunIds : y # p.run /\ (Successor(p) => y # nextRun) => runs'[y] = runs[y]
    BY <1>0, <1>4, DecisionEffect DEF Committed, ApplyAppend, Created
  <2>2. Successor(p) => x # nextRun
    BY <1>0, <2>1 DEF Fresh, RunIds
  <2>. QED  BY <2>1, <2>2 DEF Recorded, Grown
<1>. QED  BY <1>0, <1>1, <1>2, <1>3, <1>4, HistoryStep

\* Steps that start no run as a successor.
LEMMA HandedKept ==
    ASSUME GapInv, HandedOver, [Next]_vars,
           \A x \in RunIds : runs[x] = NoRun => runs'[x] = NoRun \/ runs'[x].parent = 0,
           \A r \in RunIds : runs'[r].status = "CONTINUED" <=> runs[r].status = "CONTINUED"
    PROVE  HandedOver'
<1>1. ASSUME NEW r \in RunIds PROVE Successors(r)' = Successors(r)
  <2>1. r # 0
    BY DEF RunIds
  <2>. QED  BY <2>1, ParentKept DEF Successors
<1>. QED  BY <1>1 DEF HandedOver

\* Every step keeps one successor for each run.
LEMMA HandStep == ASSUME ContinueCloses PROVE HandInv /\ [Next]_vars => HandInv'
<1>. SUFFICES ASSUME HandInv, [Next]_vars PROVE HandInv'
  OBVIOUS
<1>0. GapInv /\ HandedOver /\ Typed /\ TypeOK /\ Fresh /\ GapInv' /\ TypeOK'
  BY GapInvStep DEF HandInv, GapInv, Typed
<1>1. ASSUME NEW r \in RunIds, NEW type \in Told, NEW ref \in 0..MaxEvent,
             NEW status \in {"RUNNING", "CANCELED"}, Appended(r, type, ref, status)
      PROVE  HandedOver'
  <2>1. /\ Running(r) /\ runs'[r].status = status /\ \A x \in RunIds : x # r => runs'[x] = runs[x]
    BY <1>1 DEF Appended, Grown
  <2>2. runs[r] # NoRun
    BY <1>0, <2>1, RunShape
  <2>. QED  BY <1>0, <2>1, <2>2, HandedKept DEF Running
<1>2. ASSUME NEW t \in Tenants, StartRun(t) PROVE HandedOver'
  <2>1. /\ nextRun \in RunIds /\ runs'[nextRun] = NewRun(t, 0)
        /\ \A x \in RunIds : x # nextRun => runs'[x] = runs[x]
    BY <1>0, <1>2, StartEffect DEF Created
  <2>2. runs[nextRun] = NoRun
    BY <1>0, <2>1 DEF Fresh, RunIds
  <2>3. runs[nextRun].status = "NONE" /\ runs'[nextRun].status = "RUNNING" /\ runs'[nextRun].parent = 0
    BY <2>1, <2>2 DEF NoRun, NewRun
  <2>4. \A r \in RunIds : runs'[r].status = "CONTINUED" <=> runs[r].status = "CONTINUED"
    BY <2>1, <2>3
  <2>5. \A x \in RunIds : runs[x] = NoRun => runs'[x] = NoRun \/ runs'[x].parent = 0
    BY <2>1, <2>3
  <2>. QED  BY <1>0, <2>4, <2>5, HandedKept
<1>3. ASSUME NEW p \in proposals, Committed(p) PROVE HandedOver'
  <2>0. p.run \in RunIds /\ p.cmds \in Decisions
    BY <1>0, ProposalShape
  <2>1. /\ Recorded(p)
        /\ Successor(p) => Created(nextRun, runs[p.run].tenant, p.run) /\ nextRun # p.run
        /\ \A x \in RunIds : x # p.run /\ (Successor(p) => x # nextRun) => runs'[x] = runs[x]
    BY <1>0, <1>3, DecisionEffect DEF Committed, ApplyAppend
  <2>2. Running(p.run) /\ runs'[p.run].status = StatusAfter(p.cmds)
    BY <2>1 DEF Recorded, Grown
  <2>3. StatusAfter(p.cmds) = "CONTINUED" <=> Successor(p)
    BY <2>0, StatusAfterType DEF ContinueCloses, Successor
  <2>4. CASE ~Successor(p)
    <3>1. runs[p.run] # NoRun
      BY <1>0, <2>0, <2>2, RunShape
    <3>. QED  BY <1>0, <2>1, <2>2, <2>3, <2>4, <3>1, HandedKept DEF Running
  <2>5. CASE Successor(p)
    <3>1. PICK s \in RunIds : s = nextRun
      BY <2>1, <2>5 DEF Created
    <3>2. runs'[s] = NewRun(runs[p.run].tenant, p.run) /\ s # p.run
      BY <2>1, <2>5, <3>1 DEF Created
    <3>3. runs[s] = NoRun
      BY <1>0, <3>1 DEF Fresh, RunIds
    <3>4. runs[s].status = "NONE" /\ runs'[s].status = "RUNNING" /\ runs'[s].parent = p.run
      BY <3>2, <3>3 DEF NoRun, NewRun
    <3>5. runs'[s] # NoRun
      BY <3>4 DEF NoRun
    <3>6. \A x \in RunIds : x # p.run /\ x # s => runs'[x] = runs[x]
      BY <2>1, <3>1
    <3>7. runs[p.run] # NoRun /\ runs[p.run].status = "RUNNING"
      BY <1>0, <2>0, <2>2, RunShape DEF Running
    <3>8. Successors(p.run) = {}
      BY <1>0, <2>0, <3>7 DEF HandedOver
    <3>9. \A x \in RunIds : runs[x] # NoRun => runs'[x] # NoRun /\ runs'[x].parent = runs[x].parent
      BY <1>0, ParentKept
    <3>10. ASSUME NEW x \in RunIds, x # s PROVE runs'[x] # NoRun <=> runs[x] # NoRun
      BY <3>6, <3>7, <3>9, <3>10
    <3>11. \A r \in RunIds : Successors(r)' = {x \in RunIds : runs'[x] # NoRun /\ runs'[x].parent = r}
      BY DEF Successors
    <3>12. {x \in RunIds : runs'[x] # NoRun /\ runs'[x].parent = p.run} = {s}
      <4>1. \A x \in RunIds : x # s => ~(runs'[x] # NoRun /\ runs'[x].parent = p.run)
        BY <3>8, <3>9, <3>10 DEF Successors
      <4>. QED  BY <3>4, <3>5, <4>1
    <3>13. ASSUME NEW r \in RunIds, r # p.run
           PROVE  {x \in RunIds : runs'[x] # NoRun /\ runs'[x].parent = r} = Successors(r)
      BY <3>3, <3>4, <3>9, <3>10, <3>13 DEF Successors
    <3>14. ASSUME NEW r \in RunIds
           PROVE  /\ runs'[r].status = "CONTINUED" => \E x \in RunIds : Successors(r)' = {x}
                  /\ runs'[r].status # "CONTINUED" => Successors(r)' = {}
      <4>1. CASE r = p.run
        <5>1. \A q \in RunIds : q = p.run => Successors(q)' = {s}
          BY <3>11, <3>12
        <5>. QED  BY <2>2, <2>3, <2>5, <4>1, <5>1
      <4>2. CASE r # p.run
        <5>1. runs'[r].status = "CONTINUED" <=> runs[r].status = "CONTINUED"
          BY <3>4, <3>6, <4>2
        <5>2. Successors(r)' = Successors(r)
          BY <3>11, <3>13, <4>2
        <5>. QED  BY <1>0, <5>1, <5>2 DEF HandedOver
      <4>. QED  BY <4>1, <4>2
    <3>. QED  BY <3>14 DEF HandedOver
  <2>. QED  BY <2>4, <2>5
<1>4. ASSUME UNCHANGED <<runs, hist>> PROVE HandedOver'
  BY <1>0, <1>4, HandedKept
<1>. QED  BY <1>0, <1>1, <1>2, <1>3, <1>4, HistoryStep DEF HandInv

\* continue-as-new hands over exactly once: the successor is started by the decision that closes
\* its parent and by nothing else, however often the decision is retried.
THEOREM OneSuccessorEach == ASSUME ContinueCloses PROVE Spec => []OneSuccessor
<1>1. Init => HandInv
  <2>. SUFFICES ASSUME Init PROVE HandInv
    OBVIOUS
  <2>1. \A r \in RunIds : runs[r] = NoRun /\ runs[r].status = "NONE"
    BY DEF Init, NoRun
  <2>2. HandedOver
    BY <2>1 DEF HandedOver, Successors
  <2>. QED  BY <2>2, GapInvInit DEF HandInv
<1>2. HandInv => OneSuccessor
  <2>. SUFFICES ASSUME HandInv, NEW r \in RunIds
                PROVE  Cardinality(Successors(r)) = IF runs[r].status = "CONTINUED" THEN 1 ELSE 0
    BY DEF OneSuccessor, Successors
  <2>1. CASE runs[r].status = "CONTINUED"
    <3>1. PICK x \in RunIds : Successors(r) = {x}
      BY <2>1 DEF HandInv, HandedOver
    <3>2. Cardinality({x}) = 1
      BY FS_Singleton
    <3>. QED  BY <2>1, <3>1, <3>2
  <2>2. CASE runs[r].status # "CONTINUED"
    <3>1. Successors(r) = {}
      BY <2>2 DEF HandInv, HandedOver
    <3>2. Cardinality({}) = 0
      BY FS_EmptySet
    <3>. QED  BY <2>2, <3>1, <3>2
  <2>. QED  BY <2>1, <2>2
<1>. QED  BY <1>1, <1>2, HandStep, PTL DEF Spec

-----------------------------------------------------------------------------
(* No activity is lost                                                     *)

\* No decision schedules two activities of one type: two would take one id of one queue.
OneOfEachType ==
    \A d \in Decisions : \A i, j \in CommandsOf(d, {"schedule_activity"}) :
        d[i].type \in ActTypes /\ (d[i].type = d[j].type => i = j)

ActsBelow == \A a \in ActKeys : a[2] >= actNext[a[1]] => acts[a] = NoAct

Carries(a, k) == acts[a] # NoAct /\ acts[a].run = k[1] /\ acts[a].event = k[2]

CarryInv == GapInv /\ ActsBelow /\ ActivityNotLost

\* The activity queues as numbers.
LEMMA ActShape ==
    ASSUME TypeOK
    PROVE  /\ \A q \in ActQueues : actNext[q] \in Nat
           /\ \A a \in ActKeys : /\ a[1] \in ActQueues /\ a[2] \in Nat /\ a = <<a[1], a[2]>>
                                 /\ acts[a] \in Act \cup {NoAct}
           /\ \A q \in ActQueues, i \in TaskIds : <<q, i>> \in ActKeys /\ <<q, i>>[1] = q /\ <<q, i>>[2] = i
<1>1. \A q \in ActQueues : actNext[q] \in Nat
  BY Bounds DEF TypeOK
<1>2. \A a \in ActKeys : a[1] \in ActQueues /\ a[2] \in TaskIds /\ a = <<a[1], a[2]>>
  BY DEF ActKeys
<1>3. \A a \in ActKeys : acts[a] \in Act \cup {NoAct}
  BY DEF TypeOK
<1>. QED  BY <1>1, <1>2, <1>3 DEF ActKeys, TaskIds

\* An activity message moves on its queue, or goes once its activity needs it no longer.
ActMoves ==
    /\ UNCHANGED actNext
    /\ \A a \in ActKeys : acts[a] = NoAct => acts'[a] = NoAct
    /\ \A a \in ActKeys, k \in EventKeys :
          Carries(a, k) => Carries(a, k)' \/ ~TerminalDue(k[1], k[2]) \/ k \in done'

\* Leaving the activities alone is a move of them.
LEMMA ActStay == ASSUME UNCHANGED <<acts, actNext>> PROVE ActMoves
  BY DEF ActMoves, Carries

\* A lease or its return is a move of the activities.
LEMMA LeasedAct ==
    ASSUME TypeOK, NEW a \in ActKeys, acts[a].state \in {"READY", "LEASED"}, NEW st \in {"READY", "LEASED"},
           acts' = [acts EXCEPT ![a].state = st], UNCHANGED actNext
    PROVE  ActMoves
<1>0. acts \in [ActKeys -> Act \cup {NoAct}] /\ acts[a] # NoAct
  BY DEF TypeOK, NoAct
<1>1. acts[a] \in Act
  BY <1>0
<1>2. acts'[a] = [acts[a] EXCEPT !.state = st] /\ \A b \in ActKeys : b # a => acts'[b] = acts[b]
  BY <1>0
<1>3. acts'[a].run = acts[a].run /\ acts'[a].event = acts[a].event /\ acts'[a].state = st
  BY <1>1, <1>2 DEF Act
<1>4. acts'[a] # NoAct
  BY <1>3 DEF NoAct
<1>. QED  BY <1>0, <1>2, <1>3, <1>4 DEF ActMoves, Carries

\* Taking the message of an activity that has its answer, or gets it now.
LEMMA ActTaken ==
    ASSUME TypeOK, NEW a \in ActKeys, acts[a] # NoAct, acts' = [acts EXCEPT ![a] = NoAct], UNCHANGED actNext,
           ~TerminalDue(acts[a].run, acts[a].event) \/ <<acts[a].run, acts[a].event>> \in done'
    PROVE  ActMoves
<1>1. acts'[a] = NoAct /\ \A b \in ActKeys : b # a => acts'[b] = acts[b]
  BY DEF TypeOK
<1>2. ASSUME NEW k \in EventKeys, Carries(a, k) PROVE ~TerminalDue(k[1], k[2]) \/ k \in done'
  BY <1>2, KeyParts DEF Carries
<1>. QED  BY <1>1, <1>2 DEF ActMoves, Carries

\* A step moves activities, or commits a decision that publishes some.
LEMMA ActivitySteps ==
    ASSUME ~AckUnrecorded, Typed, [Next]_vars
    PROVE  ActMoves \/ \E p \in proposals : Committed(p)
<1>0. TypeOK
  BY DEF Typed
<1>1. CASE ClientNext
  <2>1. ASSUME NEW r \in RunIds, Cancel(r) PROVE UNCHANGED <<acts, actNext>>
    BY <2>1, Zenon DEF Cancel, queues
  <2>. QED  BY <1>1, <2>1, ActStay DEF ClientNext, StartRun, Signal
<1>2. CASE \E w \in Workers : WorkerStep(w)
  BY <1>2, ActStay DEF WorkerStep, LeaseTask, LoadRun, ReplayHistory, Propose, GateStale, SettleTask, queues
<1>3. CASE FaultNext
  BY <1>3, ActStay DEF FaultNext, GateReject, GiveUp, WorkerCrash, queues
<1>4. CASE BrokerNext
  <2>1. ASSUME NEW p \in proposals, ApplyAppend(p) PROVE ActMoves \/ Committed(p)
    <3>1. CASE ~Fence(p)
      BY <2>1, <3>1, ActStay DEF ApplyAppend, queues
    <3>. QED  BY <2>1, <3>1 DEF Committed
  <2>2. ASSUME NEW t \in timers, FireTimer(t) PROVE ActMoves
    BY <2>2, ActStay DEF FireTimer
  <2>3. ASSUME NEW k \in TaskKeys, TaskExpires(k) \/ TaskDeadLettered(k) PROVE ActMoves
    BY <2>3, ActStay DEF TaskExpires, TaskDeadLettered
  <2>. QED  BY <1>4, <2>1, <2>2, <2>3 DEF BrokerNext
<1>5. CASE ActivityNext
  <2>1. ASSUME NEW r \in RunIds, NEW e \in EventIds, NEW type \in Outcomes, CompleteActivity(r, e, type)
        PROVE  ActMoves
    BY <2>1, ActStay DEF CompleteActivity
  <2>2. ASSUME NEW a \in ActKeys, LeaseActivity(a) \/ ActivityReturned(a) PROVE ActMoves
    <3>1. /\ acts[a].state \in {"READY", "LEASED"} /\ UNCHANGED actNext
          /\ acts' = [acts EXCEPT ![a].state = "LEASED"] \/ acts' = [acts EXCEPT ![a].state = "READY"]
      BY <2>2 DEF LeaseActivity, ActivityReturned
    <3>. QED  BY <1>0, <3>1, LeasedAct
  <2>3. ASSUME NEW a \in ActKeys, AckActivity(a) PROVE ActMoves
    <3>1. /\ acts[a].state = "LEASED" /\ UNCHANGED actNext /\ acts' = [acts EXCEPT ![a] = NoAct]
          /\ ~TerminalDue(acts[a].run, acts[a].event)
      BY <2>3 DEF AckActivity
    <3>2. acts[a] # NoAct
      BY <3>1 DEF NoAct
    <3>. QED  BY <1>0, <3>1, <3>2, ActTaken
  <2>4. ASSUME NEW a \in ActKeys, ActivityDeadLettered(a) PROVE ActMoves
    <3>1. /\ acts[a].state = "LEASED" /\ UNCHANGED actNext /\ acts' = [acts EXCEPT ![a] = NoAct]
          /\ RecordActivityTerminal(acts[a].run, acts[a].event, "ACTIVITY_FAILED")
      BY <2>4 DEF ActivityDeadLettered, Bridge
    <3>2. acts[a] # NoAct
      BY <3>1 DEF NoAct
    <3>3. ~TerminalDue(acts[a].run, acts[a].event) \/ <<acts[a].run, acts[a].event>> \in done'
      BY <3>1 DEF RecordActivityTerminal
    <3>. QED  BY <1>0, <3>1, <3>2, <3>3, ActTaken
  <2>. QED  BY <1>5, <2>1, <2>2, <2>3, <2>4 DEF ActivityNext, Outcomes
<1>6. CASE UNCHANGED vars
  BY <1>6, ActStay DEF vars, queues
<1>. QED  BY <1>1, <1>2, <1>3, <1>4, <1>5, <1>6 DEF Next

\* An activity that needs its answer after a step needed it before, or was scheduled by it.
LEMMA DueBefore ==
    ASSUME GapInv, GapInv', [Next]_vars, NEW k \in EventKeys, TerminalDue(k[1], k[2])'
    PROVE  /\ k \notin done'
           /\ TerminalDue(k[1], k[2]) \/ (hist'[k] # hist[k] /\ hist'[k].type = "ACTIVITY_SCHEDULED")
<1>0. /\ TypeOK /\ TypeOK' /\ Gapless
      /\ k[1] \in RunIds /\ k[2] \in EventIds /\ k = <<k[1], k[2]>>
  BY KeyParts DEF GapInv, Typed
<1>1. /\ runs'[k[1]].status = "RUNNING" /\ k \notin done' /\ hist'[k].type = "ACTIVITY_SCHEDULED"
  BY <1>0 DEF TerminalDue, Running
<1>2. CASE hist'[k] = hist[k]
  <2>1. k \notin done
    BY <1>1, MarksStep
  <2>2. hist[k] # NoEvent
    BY <1>1, <1>2 DEF NoEvent
  <2>3. runs[k[1]] # NoRun
    BY <1>0, <2>2 DEF Gapless
  <2>4. runs[k[1]].status \notin ClosedStatus
    BY <1>0, <1>1, HistoryFinalStep DEF ClosedStatus
  <2>5. Running(k[1])
    BY <1>0, <2>3, <2>4, RunShape DEF Running
  <2>. QED  BY <1>0, <1>1, <1>2, <2>1, <2>5 DEF TerminalDue
<1>. QED  BY <1>1, <1>2

\* A decision queues a message for each activity it schedules.
LEMMA CommitCarries ==
    ASSUME OneOfEachType, CarryInv, [Next]_vars, NEW p \in proposals, Committed(p)
    PROVE  /\ ActsBelow'
           /\ \A a \in ActKeys, k \in EventKeys : Carries(a, k) => Carries(a, k)'
           /\ \A k \in EventKeys : hist'[k] # hist[k] /\ hist'[k].type = "ACTIVITY_SCHEDULED" =>
                 \E a \in ActKeys : Carries(a, k)'
<1>0. GapInv /\ Typed /\ TypeOK /\ Fresh /\ ActsBelow
  BY DEF CarryInv, GapInv, Typed
<1>1. Recorded(p) /\ DispatchActivities(p)
  <2>1. Fence(p) /\ AppendEvents(p)
    BY DEF Committed, ApplyAppend
  <2>2. DispatchActivities(p)
    BY <2>1 DEF AppendEvents
  <2>. QED  BY <1>0, <2>1, <2>2, DecisionEffect
<1>2. p.cmds \in Decisions /\ p.seq \in Nat /\ p.run \in RunIds /\ p.seq + Len(p.cmds) + 1 \in EventIds
      /\ Running(p.run)
  BY <1>0, <1>1, ProposalShape DEF Recorded
<1>3. /\ \A q \in ActQueues : OnQueue(p, q) # {} => actNext[q] \in TaskIds /\ actNext'[q] = actNext[q] + 1
      /\ \A q \in ActQueues : OnQueue(p, q) = {} => actNext'[q] = actNext[q]
      /\ \A a \in ActKeys : OnQueue(p, a[1]) # {} /\ a[2] = actNext[a[1]] =>
            acts'[a] = [state |-> "READY", run |-> p.run, event |-> p.seq + 1 + LastIn(OnQueue(p, a[1]))]
      /\ \A a \in ActKeys : ~(OnQueue(p, a[1]) # {} /\ a[2] = actNext[a[1]]) => acts'[a] = acts[a]
  BY <1>0, <1>1, <1>2, DispatchEffect
<1>4. ASSUME NEW a \in ActKeys, a[2] >= actNext'[a[1]] PROVE acts'[a] = NoAct
  <2>1. a[1] \in ActQueues /\ a[2] \in Nat /\ actNext[a[1]] \in Nat
    BY <1>0, ActShape
  <2>2. a[2] >= actNext[a[1]] /\ ~(OnQueue(p, a[1]) # {} /\ a[2] = actNext[a[1]])
    BY <1>3, <1>4, <2>1
  <2>. QED  BY <1>0, <1>3, <2>2 DEF ActsBelow
<1>5. ASSUME NEW a \in ActKeys, NEW k \in EventKeys, Carries(a, k) PROVE Carries(a, k)'
  <2>1. acts[a] # NoAct /\ a[2] \in Nat /\ actNext[a[1]] \in Nat
    BY <1>0, <1>5, ActShape DEF Carries
  <2>2. a[2] # actNext[a[1]]
    BY <1>0, <2>1 DEF ActsBelow
  <2>3. acts'[a] = acts[a]
    BY <1>3, <2>2
  <2>. QED  BY <1>5, <2>3 DEF Carries
<1>6. ASSUME NEW k \in EventKeys, hist'[k] # hist[k], hist'[k].type = "ACTIVITY_SCHEDULED"
      PROVE  \E a \in ActKeys : Carries(a, k)'
  <2>. DEFINE i == k[2] - p.seq - 1
              q == <<p.cmds[i].type, runs[p.run].tenant>>
  <2>1. \A saw : hist'[k] # NewEvent("WORKFLOW_STARTED", 0) /\ hist'[k] # TaskCompleted(saw)
    BY <1>6 DEF NewEvent, TaskCompleted
  <2>2. k[1] = p.run /\ i \in 1..Len(p.cmds) /\ hist'[k] = NewEvent(EventOf[p.cmds[i].kind], 0)
    BY <1>0, <1>6, <2>1, CommittedEvents
  <2>3. k[2] \in Nat /\ k = <<k[1], k[2]>> /\ k[2] = p.seq + 1 + i
    BY <1>2, KeyParts DEF EventIds
  <2>. HIDE DEF i
  <2>4. p.cmds[i].kind \in CommandKinds /\ EventOf[p.cmds[i].kind] = "ACTIVITY_SCHEDULED"
    BY <1>2, <1>6, <2>2, DecisionShape DEF NewEvent
  <2>5. i \in CommandsOf(p.cmds, {"schedule_activity"})
    <3>1. p.cmds[i].kind = "schedule_activity"
      BY <2>4, EventOfKind
    <3>. QED  BY <1>2, <2>2, <3>1, DecisionShape DEF CommandsOf
  <2>6. runs[p.run].tenant \in Tenants
    BY <1>0, <1>2, RunShape
  <2>7. p.cmds[i].type \in ActTypes
    BY <1>2, <2>5 DEF OneOfEachType
  <2>8. q \in ActQueues
    BY <2>6, <2>7 DEF ActQueues
  <2>9. OnQueue(p, q) = {i}
    <3>1. i \in OnQueue(p, q)
      BY <2>5 DEF OnQueue, ScheduledOn
    <3>2. ASSUME NEW j \in OnQueue(p, q) PROVE j = i
      <4>1. j \in CommandsOf(p.cmds, {"schedule_activity"}) /\ <<p.cmds[j].type, runs[p.run].tenant>> = q
        BY DEF OnQueue, ScheduledOn
      <4>2. p.cmds[j].type = p.cmds[i].type
        BY <4>1
      <4>. QED  BY <1>2, <2>5, <4>1, <4>2 DEF OneOfEachType
    <3>. QED  BY <3>1, <3>2
  <2>. HIDE DEF q
  <2>10. LastIn(OnQueue(p, q)) = i
    <3>1. Len(p.cmds) \in Nat /\ {i} \subseteq 1..Len(p.cmds) /\ {i} # {}
      BY <1>2, <2>2, DecisionShape
    <3>2. LastIn({i}) \in {i}
      BY <3>1, LastInSet
    <3>. QED  BY <2>9, <3>2
  <2>11. PICK a \in ActKeys : a[1] = q /\ a[2] = actNext[q]
    <3>1. actNext[q] \in TaskIds
      BY <1>3, <2>8, <2>9
    <3>2. <<q, actNext[q]>> \in ActKeys /\ <<q, actNext[q]>>[1] = q /\ <<q, actNext[q]>>[2] = actNext[q]
      BY <1>0, <2>8, <3>1, ActShape
    <3>. QED  BY <3>2
  <2>12. acts'[a] = [state |-> "READY", run |-> p.run, event |-> p.seq + 1 + i]
    BY <1>3, <2>9, <2>10, <2>11
  <2>13. Carries(a, k)'
    BY <2>2, <2>3, <2>12 DEF Carries, NoAct
  <2>. QED  BY <2>13
<1>. QED  BY <1>4, <1>5, <1>6 DEF ActsBelow

\* Every step keeps each open activity carried by a message or its answer.
LEMMA CarryStep ==
    ASSUME ~AckUnrecorded, OneOfEachType PROVE CarryInv /\ [Next]_vars => CarryInv'
<1>. SUFFICES ASSUME CarryInv, [Next]_vars PROVE CarryInv'
  OBVIOUS
<1>0. GapInv /\ GapInv' /\ Typed /\ TypeOK /\ ActsBelow /\ ActivityNotLost
  BY GapInvStep DEF CarryInv, GapInv, Typed
<1>1. CASE ActMoves
  <2>1. ActsBelow'
    BY <1>0, <1>1 DEF ActMoves, ActsBelow
  <2>2. ASSUME NEW k \in EventKeys, TerminalDue(k[1], k[2])' PROVE \E a \in ActKeys : Carries(a, k)'
    <3>1. k \notin done' /\
          (TerminalDue(k[1], k[2]) \/ (hist'[k] # hist[k] /\ hist'[k].type = "ACTIVITY_SCHEDULED"))
      BY <1>0, <2>2, DueBefore
    <3>2. CASE TerminalDue(k[1], k[2])
      <4>1. PICK a \in ActKeys : Carries(a, k)
        BY <1>0, <3>2 DEF ActivityNotLost, Carries
      <4>. QED  BY <1>1, <3>1, <3>2, <4>1 DEF ActMoves
    <3>3. ASSUME hist'[k] # hist[k], hist'[k].type = "ACTIVITY_SCHEDULED"
          PROVE  \E p \in proposals : Committed(p)
      <4>1. ASSUME NEW type \in Told, NEW ref \in 0..MaxEvent, hist'[k] = NewEvent(type, ref) PROVE FALSE
        <5>1. type = "ACTIVITY_SCHEDULED"
          BY <3>3, <4>1, ToldEvent
        <5>. QED  BY <5>1 DEF Told
      <4>2. hist'[k] # NewEvent("WORKFLOW_STARTED", 0)
        BY <3>3 DEF NewEvent
      <4>. QED  BY <1>0, <3>3, <4>1, <4>2, NewEvents
    <3>4. CASE \E p \in proposals : Committed(p)
      <4>1. PICK p \in proposals : Committed(p)
        BY <3>4
      <4>2. CASE hist'[k] # hist[k] /\ hist'[k].type = "ACTIVITY_SCHEDULED"
        BY <4>1, <4>2, CommitCarries
      <4>. QED  BY <3>1, <3>2, <4>2
    <3>. QED  BY <3>1, <3>2, <3>3, <3>4
  <2>3. ActivityNotLost'
    BY <2>2 DEF ActivityNotLost, Carries
  <2>. QED  BY <1>0, <2>1, <2>3 DEF CarryInv
<1>2. ASSUME NEW p \in proposals, Committed(p) PROVE CarryInv'
  <2>1. /\ ActsBelow'
        /\ \A a \in ActKeys, k \in EventKeys : Carries(a, k) => Carries(a, k)'
        /\ \A k \in EventKeys : hist'[k] # hist[k] /\ hist'[k].type = "ACTIVITY_SCHEDULED" =>
              \E a \in ActKeys : Carries(a, k)'
    BY <1>2, CommitCarries
  <2>2. ASSUME NEW k \in EventKeys, TerminalDue(k[1], k[2])' PROVE \E a \in ActKeys : Carries(a, k)'
    <3>1. TerminalDue(k[1], k[2]) \/ (hist'[k] # hist[k] /\ hist'[k].type = "ACTIVITY_SCHEDULED")
      BY <1>0, <2>2, DueBefore
    <3>2. CASE TerminalDue(k[1], k[2])
      <4>1. PICK a \in ActKeys : Carries(a, k)
        BY <1>0, <3>2 DEF ActivityNotLost, Carries
      <4>. QED  BY <2>1, <4>1
    <3>. QED  BY <2>1, <3>1, <3>2
  <2>3. ActivityNotLost'
    BY <2>2 DEF ActivityNotLost, Carries
  <2>. QED  BY <1>0, <2>1, <2>3 DEF CarryInv
<1>. QED  BY <1>0, <1>1, <1>2, ActivitySteps

\* No activity is lost: until its terminal event is written a task message carries it, if workers
\* ack only what was recorded and no decision schedules two activities of one type (the run
\* wf_fan_out shows what happens when one does).
THEOREM ActivitiesAreKept ==
    ASSUME ~AckUnrecorded, OneOfEachType PROVE Spec => []ActivityNotLost
<1>1. Init => CarryInv
  <2>. SUFFICES ASSUME Init PROVE CarryInv
    OBVIOUS
  <2>1. /\ \A a \in ActKeys : acts[a] = NoAct
        /\ \A r \in RunIds : runs[r].status = "NONE"
    BY DEF Init, NoRun
  <2>2. ActivityNotLost
    BY <2>1, KeyParts DEF ActivityNotLost, TerminalDue, Running
  <2>. QED  BY <2>1, <2>2, GapInvInit DEF CarryInv, ActsBelow
<1>2. CarryInv => ActivityNotLost
  BY DEF CarryInv
<1>. QED  BY <1>1, <1>2, CarryStep, PTL DEF Spec
=============================================================================
