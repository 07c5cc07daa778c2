-------------------------------- MODULE Cron --------------------------------
(***************************************************************************)
(* Recurring publishes: the CRON commands of the FSM (applyCron and        *)
(* applyFireCron in internal/fsm/apply_phase4.go) and the leader that      *)
(* sweeps due rows and proposes the fires (internal/node/control.go,       *)
(* sweepTimers in internal/node/node.go).                                  *)
(*                                                                         *)
(* The leader scans the due-time index once, then proposes one FireCron    *)
(* after the other and waits for each; operators' calls are proposed       *)
(* meanwhile.  What a command carries is computed when it is proposed.  A  *)
(* leader that is deposed may leave proposals in the log that commit under *)
(* the next one, before anything that one proposes.  A schedule is a       *)
(* period; Following is the library's Next.                                *)
(***************************************************************************)
EXTENDS Integers, Sequences, FiniteSets

CONSTANTS
    Crons,          \* cron ids
    Periods,        \* schedules in use
    Horizon,        \* bound on the clock
    MaxTerm,        \* bound on the number of leaders
    MaxLog,         \* bound on the entries not yet applied
    MaxFired        \* publishes for one slot are counted up to here

ASSUME CronAssumption ==
    /\ {Horizon, MaxTerm, MaxLog, MaxFired} \subseteq Nat \ {0}
    /\ Periods \subseteq 1..Horizon

Slots == 1..(2 * Horizon)

VARIABLES
    now,        \* the leader's clock
    spec,       \* cron rows: Crons -> CronSpec or NoCron
    rows,       \* TimerCronDue rows of the due-time index: (due, cron)
    term,       \* which leader is in office
    batch,      \* rows the leader's sweep has read and not yet fired
    waiting,    \* TRUE while the leader waits for a FireCron it proposed
    log,        \* CronCmd and FireCronCmd entries not yet applied
    fired,      \* history: messages published for each slot of each cron
    tidy        \* history: operators armed a cron only while it was not armed
                \* and no command about it was in flight

vars == <<now, spec, rows, term, batch, waiting, log, fired, tidy>>

NoCron   == [exists |-> FALSE]
CronSpec == [exists: {TRUE}, period: Periods, next: Slots, paused: BOOLEAN]
Rows     == Slots \X Crons
CronOps  == {"schedule", "resume", "pause", "delete"}
Entry    == [op: {"schedule"}, cron: Crons, period: Periods, next: Slots]
              \cup [op: {"resume"}, cron: Crons, next: Slots]
              \cup [op: {"pause", "delete"}, cron: Crons]
              \cup [op: {"fire"}, cron: Crons, next: Slots, term: 1..MaxTerm]

\* The first instant of the schedule after t (external: robfig/cron).
Following(p, t) == ((t \div p) + 1) * p

Armed(c) == spec[c].exists /\ ~spec[c].paused

-----------------------------------------------------------------------------
(* Operators' calls                                                        *)

Propose(e) == Len(log) < MaxLog /\ log' = Append(log, e)

Calls(e) == Propose(e) /\ UNCHANGED <<now, spec, rows, term, batch, waiting, fired>>

InFlight(c) == (\E r \in batch : r[2] = c) \/ (\E i \in DOMAIN log : log[i].cron = c)
Arms(c)     == tidy' = (tidy /\ ~Armed(c) /\ ~InFlight(c))

ScheduleCron(c, p) ==
    /\ Calls([op |-> "schedule", cron |-> c, period |-> p, next |-> Following(p, now)])
    /\ Arms(c)

DeleteCron(c) == Calls([op |-> "delete", cron |-> c]) /\ UNCHANGED tidy

PauseCron(c) == Calls([op |-> "pause", cron |-> c]) /\ UNCHANGED tidy

\* ResumeCron reads the record for its schedule, not for its Paused flag.
ResumeCron(c) ==
    /\ spec[c].exists
    /\ Calls([op |-> "resume", cron |-> c, next |-> Following(spec[c].period, now)])
    /\ Arms(c)

-----------------------------------------------------------------------------
(* applyCron                                                               *)

\* The due row of the earlier schedule, if there is one, stays.
ApplySchedule(e) ==
    /\ spec' = [spec EXCEPT ![e.cron] = [exists |-> TRUE, period |-> e.period,
                  next |-> e.next, paused |-> FALSE]]
    /\ rows' = rows \cup {<<e.next, e.cron>>}

ApplyDelete(e) ==
    /\ spec' = [spec EXCEPT ![e.cron] = NoCron]
    /\ rows' = IF spec[e.cron].exists THEN rows \ {<<spec[e.cron].next, e.cron>>}
               ELSE rows

ApplyPause(e) ==
    IF spec[e.cron].exists
    THEN /\ spec' = [spec EXCEPT ![e.cron].paused = TRUE]
         /\ rows' = rows \ {<<spec[e.cron].next, e.cron>>}
    ELSE UNCHANGED <<spec, rows>>

ApplyResume(e) ==
    IF spec[e.cron].exists
    THEN /\ spec' = [spec EXCEPT ![e.cron].paused = FALSE, ![e.cron].next = e.next]
         /\ rows' = rows \cup {<<e.next, e.cron>>}
    ELSE UNCHANGED <<spec, rows>>

ApplyCron ==
    LET e == Head(log)
    IN  /\ log # << >> /\ e.op \in CronOps
        /\ log' = Tail(log)
        /\ \/ e.op = "schedule" /\ ApplySchedule(e)
           \/ e.op = "delete"   /\ ApplyDelete(e)
           \/ e.op = "pause"    /\ ApplyPause(e)
           \/ e.op = "resume"   /\ ApplyResume(e)
        /\ UNCHANGED <<now, term, batch, waiting, fired, tidy>>

-----------------------------------------------------------------------------
(* The leader's sweep                                                      *)

DueRows == {r \in rows : r[1] <= now}

Sweep ==
    /\ batch = {} /\ ~waiting /\ DueRows # {}
    /\ batch' = DueRows
    /\ UNCHANGED <<now, spec, rows, term, waiting, log, fired, tidy>>

\* fireCron: the record is read, the next instant computed, the fire proposed.
\* A row of a deleted cron is passed over and stays in the index.
ProposeFire(r) ==
    LET c == r[2]
    IN  /\ ~waiting
        /\ batch' = batch \ {r}
        /\ IF spec[c].exists
           THEN /\ Propose([op |-> "fire", cron |-> c, term |-> term,
                            next |-> Following(spec[c].period, now)])
                /\ waiting' = TRUE
           ELSE UNCHANGED <<log, waiting>>
        /\ UNCHANGED <<now, spec, rows, term, fired, tidy>>

\* The row of the record's next slot is still there.
NotYetFired(c) == spec[c].exists /\ <<spec[c].next, c>> \in rows

\* Mutant: the fired row is not deleted.
RowsAfter_OldKept(e) == rows \cup {<<e.next, e.cron>>}

\* Mutant: the chain of due rows is not continued.
RowsAfter_NotRearmed(e) == rows \ {<<spec[e.cron].next, e.cron>>}

\* The fired slot's row gives way to the next one.
RowsAfter(e) == (rows \ {<<spec[e.cron].next, e.cron>>}) \cup {<<e.next, e.cron>>}

\* applyFireCron.
ApplyFire ==
    LET e == Head(log)
        c == e.cron
    IN  /\ log # << >> /\ e.op = "fire"
        /\ log' = Tail(log)
        /\ waiting' = IF e.term = term THEN FALSE ELSE waiting
        /\ IF NotYetFired(c)
           THEN /\ fired' = [fired EXCEPT ![<<c, spec[c].next>>] =
                                IF @ < MaxFired THEN @ + 1 ELSE @]
                /\ rows' = RowsAfter(e)
                /\ spec' = [spec EXCEPT ![c].next = e.next]
           ELSE UNCHANGED <<fired, rows, spec>>
        /\ UNCHANGED <<now, term, batch, tidy>>

\* Another node takes over: it may keep or truncate what the old leader left
\* in the log, and starts sweeping before it has applied the rest.
LeaderChange ==
    /\ term < MaxTerm
    /\ term' = term + 1 /\ batch' = {} /\ waiting' = FALSE
    /\ \E n \in 0..Len(log) : log' = SubSeq(log, 1, n)
    /\ UNCHANGED <<now, spec, rows, fired, tidy>>

-----------------------------------------------------------------------------
(* Specification                                                           *)

Init ==
    /\ now = 1 /\ term = 1
    /\ spec = [c \in Crons |-> NoCron] /\ rows = {}
    /\ batch = {} /\ waiting = FALSE /\ log = << >>
    /\ fired = [x \in Crons \X Slots |-> 0] /\ tidy = TRUE

Tick == now < Horizon /\ now' = now + 1
        /\ UNCHANGED <<spec, rows, term, batch, waiting, log, fired, tidy>>

OperatorNext ==
    \E c \in Crons :
        \/ \E p \in Periods : ScheduleCron(c, p)
        \/ ResumeCron(c)
        \/ PauseCron(c)
        \/ DeleteCron(c)

LeaderNext == Sweep \/ (\E r \in batch : ProposeFire(r)) \/ ApplyFire \/ ApplyCron

Next == Tick \/ OperatorNext \/ LeaderNext \/ LeaderChange

Spec == Init /\ [][Next]_vars

\* The ticker of chronosLoop and the raft log never stop.
FairSpec == Spec /\ WF_vars(Tick) /\ WF_vars(LeaderNext)

-----------------------------------------------------------------------------
(* Properties                                                              *)

\* Every variable keeps its type.
TypeOK ==
    /\ now \in 1..Horizon /\ term \in 1..MaxTerm
    /\ spec \in [Crons -> CronSpec \cup {NoCron}]
    /\ rows \subseteq Rows /\ batch \subseteq Rows
    /\ waiting \in BOOLEAN
    /\ \A i \in DOMAIN log : log[i] \in Entry
    /\ fired \in [Crons \X Slots -> 0..MaxFired] /\ tidy \in BOOLEAN

\* A schedule never dies: whatever operators, sweeps and failovers do, an armed
\* cron has the due row of its next slot.
ArmedHasRow == \A c \in Crons : Armed(c) => <<spec[c].next, c>> \in rows

\* "A single message is published per scheduled instant", with operators that
\* do not arm a cron twice.
OncePerSlot == tidy => \A x \in Crons \X Slots : fired[x] <= 1

\* The same while one leader is in office.
OncePerSlotOneLeader == term = 1 => OncePerSlot

\* A cron does not fire ahead of its schedule, under the same conditions.
FiredOnTime ==
    tidy /\ term = 1 => \A x \in Crons \X Slots : fired[x] > 0 => x[2] <= now

\* An armed cron whose slot has come fires and is armed for a later one, unless
\* it is paused or deleted first.
SlotServed ==
    \A c \in Crons : (Armed(c) /\ spec[c].next <= now)
                        ~> (~Armed(c) \/ spec[c].next > now)
=============================================================================
