----------------------------- MODULE CronProofs -----------------------------
(***************************************************************************)
(* Proofs about Cron, for every set of cron ids and schedules and every    *)
(* horizon, log and number of leaders.                                     *)
(***************************************************************************)
EXTENDS Cron, TLAPS

\* The next instant of a schedule is later, by at most a period.
LEMMA FollowingLater ==
    ASSUME NEW p \in Nat \ {0}, NEW t \in Nat
    PROVE  Following(p, t) \in Nat /\ Following(p, t) > t /\ Following(p, t) <= t + p
<1>1. p * (t \div p) <= t /\ t < p * ((t \div p) + 1) /\ t \div p \in Nat
  OBVIOUS
<1>. QED  BY <1>1 DEF Following

\* The slot after now, of a period, is a slot in the future.
LEMMA FollowingSlot ==
    ASSUME TypeOK, NEW p \in Periods
    PROVE  Following(p, now) \in Slots /\ Following(p, now) > now
<1>1. p \in Nat \ {0} /\ p <= Horizon /\ now \in Nat /\ now <= Horizon /\ Horizon \in Nat
  BY CronAssumption DEF TypeOK
<1>2. /\ Following(p, now) \in Nat /\ Following(p, now) > now
      /\ Following(p, now) <= now + p
  BY <1>1, FollowingLater
<1>3. Following(p, now) \in 1..(2 * Horizon)
  BY <1>1, <1>2
<1>. QED  BY <1>2, <1>3 DEF Slots

-----------------------------------------------------------------------------
(* The log                                                                 *)

Typed == TypeOK /\ log \in Seq(Entry)

\* What the head and the tail of the log are.
LEMMA LogEnds ==
    ASSUME NEW q \in Seq(Entry), q # << >>
    PROVE  /\ Head(q) \in Entry /\ Head(q) = q[1] /\ 1 \in 1..Len(q)
           /\ Tail(q) \in Seq(Entry) /\ Len(q) \in Nat /\ Len(Tail(q)) = Len(q) - 1
           /\ \A i \in 1..Len(Tail(q)) : Tail(q)[i] = q[i + 1] /\ i + 1 \in 1..Len(q)
  OBVIOUS

\* What an appended entry leaves of the log.
LEMMA LogGrows ==
    ASSUME NEW q \in Seq(Entry), NEW e \in Entry
    PROVE  /\ Append(q, e) \in Seq(Entry) /\ Len(q) \in Nat
           /\ Len(Append(q, e)) = Len(q) + 1 /\ Append(q, e)[Len(q) + 1] = e
           /\ \A i \in 1..Len(q) : Append(q, e)[i] = q[i]
           /\ \A i \in 1..Len(Append(q, e)) : i \in 1..Len(q) \/ i = Len(q) + 1
  OBVIOUS

\* A cut of the log is a log.
LEMMA LogCut ==
    ASSUME NEW q \in Seq(Entry), NEW n \in 0..Len(q)
    PROVE  SubSeq(q, 1, n) \in Seq(Entry)
<1>1. Len(q) \in Nat /\ \A i \in 1..n : i \in 1..Len(q)
  OBVIOUS
<1>2. \A i \in 1..n : q[i] \in Entry
  BY <1>1
<1>. QED  BY <1>1, <1>2

\* The fields of an entry, by its op.
LEMMA EntryFields ==
    ASSUME NEW e \in Entry
    PROVE  /\ e.cron \in Crons /\ e.op \in CronOps \cup {"fire"}
           /\ e.op = "schedule" => e.period \in Periods
           /\ e.op \in {"schedule", "resume", "fire"} => e.next \in Slots
           /\ e.op = "fire" => e.term \in 1..MaxTerm
  BY DEF Entry, CronOps

\* What operators and the leader propose.
LEMMA EntryMade ==
    ASSUME TypeOK, NEW c \in Crons
    PROVE  /\ \A p \in Periods :
                 [op |-> "schedule", cron |-> c, period |-> p, next |-> Following(p, now)] \in Entry
           /\ spec[c].exists =>
                 /\ spec[c].period \in Periods
                 /\ [op |-> "resume", cron |-> c, next |-> Following(spec[c].period, now)] \in Entry
                 /\ [op |-> "fire", cron |-> c, term |-> term,
                     next |-> Following(spec[c].period, now)] \in Entry
           /\ [op |-> "pause", cron |-> c] \in Entry /\ [op |-> "delete", cron |-> c] \in Entry
<1>1. \A p \in Periods : Following(p, now) \in Slots
  BY FollowingSlot
<1>2. spec[c].exists => spec[c].period \in Periods
  <2>1. spec[c] \in CronSpec \/ spec[c] = NoCron
    BY DEF TypeOK
  <2>2. spec[c] = NoCron => ~spec[c].exists
    BY DEF NoCron
  <2>3. spec[c] \in CronSpec => spec[c].period \in Periods
    BY DEF CronSpec
  <2>. QED  BY <2>1, <2>2, <2>3
<1>3. term \in 1..MaxTerm
  BY DEF TypeOK
<1>4. ASSUME NEW p \in Periods
      PROVE  [op |-> "schedule", cron |-> c, period |-> p, next |-> Following(p, now)] \in Entry
  BY <1>1 DEF Entry
<1>5. ASSUME spec[c].exists
      PROVE  /\ [op |-> "resume", cron |-> c, next |-> Following(spec[c].period, now)] \in Entry
             /\ [op |-> "fire", cron |-> c, term |-> term,
                 next |-> Following(spec[c].period, now)] \in Entry
  <2>. DEFINE n == Following(spec[c].period, now)
  <2>1. n \in Slots
    BY <1>1, <1>2, <1>5
  <2>. HIDE DEF n
  <2>2. [op |-> "resume", cron |-> c, next |-> n] \in Entry
    BY <2>1 DEF Entry
  <2>3. [op |-> "fire", cron |-> c, term |-> term, next |-> n] \in Entry
    BY <1>3, <2>1 DEF Entry
  <2>. QED  BY <2>2, <2>3 DEF n
<1>6. [op |-> "pause", cron |-> c] \in Entry /\ [op |-> "delete", cron |-> c] \in Entry
  BY DEF Entry
<1>. QED  BY <1>2, <1>4, <1>5, <1>6

\* A call appends one entry.
LEMMA CallTyped ==
    ASSUME Typed, NEW e \in Entry, Calls(e), tidy' \in BOOLEAN PROVE Typed'
<1>1. log' \in Seq(Entry)
  BY LogGrows DEF Calls, Propose, Typed
<1>2. \A i \in DOMAIN log' : log'[i] \in Entry
  BY <1>1
<1>3. UNCHANGED <<now, spec, rows, term, batch, waiting, fired>>
  BY DEF Calls
<1>. QED  BY <1>1, <1>2, <1>3 DEF Typed, TypeOK

\* Every step keeps the types.
LEMMA TypedStep == Typed /\ [Next]_vars => Typed'
<1>. SUFFICES ASSUME Typed, [Next]_vars PROVE Typed'
  OBVIOUS
<1>0. TypeOK /\ log \in Seq(Entry)
  BY DEF Typed
<1>1. CASE Tick
  <2>1. now' \in 1..Horizon
    BY <1>0, <1>1, CronAssumption DEF Tick, TypeOK
  <2>. QED  BY <1>0, <1>1, <2>1 DEF Tick, Typed, TypeOK
<1>2. ASSUME NEW c \in Crons, NEW p \in Periods, ScheduleCron(c, p) PROVE Typed'
  <2>1. tidy' \in BOOLEAN
    BY <1>2, Zenon DEF ScheduleCron, Arms
  <2>. QED  BY <1>0, <1>2, <2>1, CallTyped, EntryMade DEF ScheduleCron
<1>3. ASSUME NEW c \in Crons, ResumeCron(c) PROVE Typed'
  <2>1. tidy' \in BOOLEAN
    BY <1>3, Zenon DEF ResumeCron, Arms
  <2>. QED  BY <1>0, <1>3, <2>1, CallTyped, EntryMade DEF ResumeCron
<1>4. ASSUME NEW c \in Crons, PauseCron(c) \/ DeleteCron(c) PROVE Typed'
  <2>1. tidy' \in BOOLEAN
    BY <1>0, <1>4 DEF PauseCron, DeleteCron, TypeOK
  <2>. QED  BY <1>0, <1>4, <2>1, CallTyped, EntryMade DEF PauseCron, DeleteCron
<1>5. CASE ApplyCron
  <2>. DEFINE e == Head(log)
  <2>1. log # << >> /\ log' = Tail(log)
        /\ \/ e.op = "schedule" /\ ApplySchedule(e)
           \/ e.op = "delete"   /\ ApplyDelete(e)
           \/ e.op = "pause"    /\ ApplyPause(e)
           \/ e.op = "resume"   /\ ApplyResume(e)
        /\ UNCHANGED <<now, term, batch, waiting, fired, tidy>>
    BY <1>5 DEF ApplyCron
  <2>2. e \in Entry /\ log' \in Seq(Entry)
    BY <1>0, <2>1, LogEnds
  <2>3. \A i \in DOMAIN log' : log'[i] \in Entry
    BY <2>2
  <2>. HIDE DEF e
  <2>4. e.cron \in Crons /\ (e.op = "schedule" => e.period \in Periods)
        /\ (e.op \in {"schedule", "resume"} => e.next \in Slots)
    BY <2>2, EntryFields
  <2>5. spec \in [Crons -> CronSpec \cup {NoCron}] /\ rows \subseteq Rows
    BY <1>0 DEF TypeOK
  <2>6. spec[e.cron].exists => spec[e.cron] \in CronSpec
    BY <2>4, <2>5 DEF NoCron
  <2>7. spec' \in [Crons -> CronSpec \cup {NoCron}] /\ rows' \subseteq Rows
    <3>1. CASE e.op = "schedule" /\ ApplySchedule(e)
      <4>1. [exists |-> TRUE, period |-> e.period, next |-> e.next, paused |-> FALSE] \in CronSpec
        BY <2>4, <3>1 DEF CronSpec
      <4>2. spec' \in [Crons -> CronSpec \cup {NoCron}]
        BY <2>4, <2>5, <3>1, <4>1 DEF ApplySchedule
      <4>3. rows' \subseteq Rows
        BY <2>4, <2>5, <3>1 DEF ApplySchedule, Rows
      <4>. QED  BY <4>2, <4>3
    <3>2. CASE e.op = "delete" /\ ApplyDelete(e)
      BY <2>4, <2>5, <3>2 DEF ApplyDelete
    <3>3. CASE e.op = "pause" /\ ApplyPause(e)
      <4>1. CASE spec[e.cron].exists
        <5>1. [spec[e.cron] EXCEPT !.paused = TRUE] \in CronSpec
          BY <2>6, <4>1 DEF CronSpec
        <5>. QED  BY <2>4, <2>5, <3>3, <4>1, <5>1 DEF ApplyPause
      <4>2. CASE ~spec[e.cron].exists
        BY <2>5, <3>3, <4>2 DEF ApplyPause
      <4>. QED  BY <4>1, <4>2
    <3>4. CASE e.op = "resume" /\ ApplyResume(e)
      <4>1. CASE spec[e.cron].exists
        <5>1. [spec[e.cron] EXCEPT !.paused = FALSE, !.next = e.next] \in CronSpec
          BY <2>4, <2>6, <3>4, <4>1 DEF CronSpec
        <5>2. spec' = [spec EXCEPT ![e.cron] = [spec[e.cron] EXCEPT !.paused = FALSE, !.next = e.next]]
          BY <2>4, <2>5, <2>6, <3>4, <4>1 DEF ApplyResume, CronSpec
        <5>. QED  BY <2>4, <2>5, <3>4, <4>1, <5>1, <5>2 DEF ApplyResume, Rows
      <4>2. CASE ~spec[e.cron].exists
        BY <2>5, <3>4, <4>2 DEF ApplyResume
      <4>. QED  BY <4>1, <4>2
    <3>. QED  BY <2>1, <3>1, <3>2, <3>3, <3>4
  <2>. QED  BY <1>0, <2>1, <2>2, <2>3, <2>7 DEF Typed, TypeOK
<1>6. CASE Sweep
  BY <1>0, <1>6 DEF Sweep, DueRows, Typed, TypeOK
<1>7. ASSUME NEW r \in batch, ProposeFire(r) PROVE Typed'
  <2>1. r[2] \in Crons /\ batch' \subseteq Rows
    BY <1>0, <1>7 DEF ProposeFire, TypeOK, Rows
  <2>2. log' \in Seq(Entry)
    <3>1. CASE spec[r[2]].exists
      <4>. DEFINE e == [op |-> "fire", cron |-> r[2], term |-> term,
                        next |-> Following(spec[r[2]].period, now)]
      <4>1. e \in Entry
        BY <1>0, <2>1, <3>1, EntryMade
      <4>2. log' = Append(log, e)
        BY <1>7, <3>1 DEF ProposeFire, Propose
      <4>. HIDE DEF e
      <4>. QED  BY <1>0, <4>1, <4>2, LogGrows
    <3>2. CASE ~spec[r[2]].exists
      BY <1>0, <1>7, <3>2 DEF ProposeFire
    <3>. QED  BY <3>1, <3>2
  <2>3. \A i \in DOMAIN log' : log'[i] \in Entry
    BY <2>2
  <2>4. waiting' \in BOOLEAN
    BY <1>0, <1>7 DEF ProposeFire, TypeOK
  <2>. QED  BY <1>0, <1>7, <2>1, <2>2, <2>3, <2>4 DEF ProposeFire, Typed, TypeOK
<1>8. CASE ApplyFire
  <2>. DEFINE e == Head(log)
  <2>1. /\ log # << >> /\ e.op = "fire" /\ log' = Tail(log)
        /\ waiting' = IF e.term = term THEN FALSE ELSE waiting
        /\ IF NotYetFired(e.cron)
           THEN /\ fired' = [fired EXCEPT ![<<e.cron, spec[e.cron].next>>] =
                                IF @ < MaxFired THEN @ + 1 ELSE @]
                /\ rows' = RowsAfter(e)
                /\ spec' = [spec EXCEPT ![e.cron].next = e.next]
           ELSE UNCHANGED <<fired, rows, spec>>
        /\ UNCHANGED <<now, term, batch, tidy>>
    BY <1>8 DEF ApplyFire
  <2>2. e \in Entry /\ log' \in Seq(Entry)
    BY <1>0, <2>1, LogEnds
  <2>3. \A i \in DOMAIN log' : log'[i] \in Entry
    BY <2>2
  <2>. HIDE DEF e
  <2>4. e.cron \in Crons /\ e.next \in Slots
    BY <2>1, <2>2, EntryFields
  <2>5. /\ spec \in [Crons -> CronSpec \cup {NoCron}] /\ rows \subseteq Rows
        /\ fired \in [Crons \X Slots -> 0..MaxFired] /\ waiting \in BOOLEAN /\ MaxFired \in Nat
    BY <1>0, CronAssumption DEF TypeOK
  <2>6. waiting' \in BOOLEAN
    BY <2>1, <2>5
  <2>7. CASE NotYetFired(e.cron)
    <3>1. spec[e.cron] \in CronSpec
      BY <2>4, <2>5, <2>7 DEF NotYetFired, NoCron
    <3>2. [spec[e.cron] EXCEPT !.next = e.next] \in CronSpec
      BY <2>4, <3>1 DEF CronSpec
    <3>3. spec' \in [Crons -> CronSpec \cup {NoCron}]
      BY <2>1, <2>4, <2>5, <2>7, <3>2
    <3>4. rows' \subseteq Rows
      BY <2>1, <2>4, <2>5, <2>7 DEF RowsAfter, Rows
    <3>5. fired' \in [Crons \X Slots -> 0..MaxFired]
      <4>. DEFINE x == <<e.cron, spec[e.cron].next>>
      <4>1. x \in Crons \X Slots
        BY <2>4, <3>1 DEF CronSpec
      <4>. HIDE DEF x
      <4>2. (IF fired[x] < MaxFired THEN fired[x] + 1 ELSE fired[x]) \in 0..MaxFired
        BY <2>5, <4>1
      <4>3. fired' = [fired EXCEPT ![x] = IF fired[x] < MaxFired THEN fired[x] + 1 ELSE fired[x]]
        BY <2>1, <2>7 DEF x
      <4>. QED  BY <2>5, <4>1, <4>2, <4>3
    <3>. QED  BY <1>0, <2>1, <2>2, <2>3, <2>6, <3>3, <3>4, <3>5 DEF Typed, TypeOK
  <2>8. CASE ~NotYetFired(e.cron)
    BY <1>0, <2>1, <2>2, <2>3, <2>6, <2>8 DEF Typed, TypeOK
  <2>. QED  BY <2>7, <2>8
<1>9. CASE LeaderChange
  <2>1. PICK n \in 0..Len(log) : log' = SubSeq(log, 1, n)
    BY <1>9 DEF LeaderChange
  <2>2. log' \in Seq(Entry)
    BY <1>0, <2>1, LogCut
  <2>3. \A i \in DOMAIN log' : log'[i] \in Entry
    BY <2>2
  <2>4. term' \in 1..MaxTerm
    BY <1>0, <1>9, CronAssumption DEF LeaderChange, TypeOK
  <2>. QED  BY <1>0, <1>9, <2>2, <2>3, <2>4 DEF LeaderChange, Typed, TypeOK
<1>10. CASE UNCHANGED vars
  BY <1>0, <1>10 DEF vars, Typed, TypeOK
<1>. QED
  BY <1>1, <1>2, <1>3, <1>4, <1>5, <1>6, <1>7, <1>8, <1>9, <1>10
     DEF Next, OperatorNext, LeaderNext

\* The types hold at the start.
LEMMA TypedInit == Init => Typed
<1>. SUFFICES ASSUME Init PROVE Typed
  OBVIOUS
<1>1. 1 \in 1..Horizon /\ 1 \in 1..MaxTerm /\ 0 \in 0..MaxFired
  BY CronAssumption
<1>2. log = << >> /\ log \in Seq(Entry) /\ \A i \in DOMAIN log : log[i] \in Entry
  BY DEF Init
<1>. QED  BY <1>1, <1>2 DEF Init, Typed, TypeOK

\* Every variable keeps its type: no instant computed from a schedule, and no number of
\* fires, leaves its range.
THEOREM TypeCorrect == Spec => []TypeOK
<1>1. Typed => TypeOK
  BY DEF Typed
<1>. QED  BY <1>1, TypedInit, TypedStep, PTL DEF Spec

-----------------------------------------------------------------------------
(* An armed cron has its row                                               *)

\* A cron row has the fields of its kind.
LEMMA SpecShape ==
    ASSUME TypeOK, NEW c \in Crons
    PROVE  /\ spec[c] \in CronSpec \/ spec[c] = NoCron
           /\ spec[c].exists \in BOOLEAN
           /\ spec[c].exists => spec[c] \in CronSpec /\ spec[c].next \in Slots
                                   /\ spec[c].paused \in BOOLEAN
<1>1. spec[c] \in CronSpec \/ spec[c] = NoCron
  BY DEF TypeOK
<1>2. spec[c] = NoCron => ~spec[c].exists /\ spec[c].exists \in BOOLEAN
  BY DEF NoCron
<1>3. spec[c] \in CronSpec => spec[c].next \in Slots /\ spec[c].paused \in BOOLEAN
                                /\ spec[c].exists \in BOOLEAN
  BY DEF CronSpec
<1>. QED  BY <1>1, <1>2, <1>3

\* A cron whose record and row are left alone stays armed with its row.
RowKept(c) == spec'[c] = spec[c] /\ (<<spec[c].next, c>> \in rows => <<spec[c].next, c>> \in rows')

\* An applied operator command keeps a row for every armed cron.
LEMMA ApplyCronKeepsRow ==
    ASSUME Typed, ArmedHasRow, ApplyCron PROVE ArmedHasRow'
<1>. DEFINE e == Head(log)
<1>1. log # << >>
      /\ \/ e.op = "schedule" /\ ApplySchedule(e)
         \/ e.op = "delete"   /\ ApplyDelete(e)
         \/ e.op = "pause"    /\ ApplyPause(e)
         \/ e.op = "resume"   /\ ApplyResume(e)
  BY DEF ApplyCron
<1>2. e \in Entry
  BY <1>1, LogEnds DEF Typed
<1>. HIDE DEF e
<1>3. e.cron \in Crons
  BY <1>2, EntryFields
<1>4. spec \in [Crons -> CronSpec \cup {NoCron}]
  BY DEF Typed, TypeOK
<1>5. spec[e.cron].exists => spec[e.cron] \in CronSpec
  BY <1>3, SpecShape DEF Typed
<1>6. \A c \in Crons : c # e.cron => RowKept(c)
  BY <1>1, <1>3, <1>4 DEF RowKept, ApplySchedule, ApplyDelete, ApplyPause, ApplyResume
<1>7. spec'[e.cron].exists /\ ~spec'[e.cron].paused => <<spec'[e.cron].next, e.cron>> \in rows'
  <2>1. CASE e.op = "schedule" /\ ApplySchedule(e)
    BY <1>3, <1>4, <2>1 DEF ApplySchedule
  <2>2. CASE e.op = "delete" /\ ApplyDelete(e)
    BY <1>3, <1>4, <2>2 DEF ApplyDelete, NoCron
  <2>3. CASE e.op = "pause" /\ ApplyPause(e)
    <3>1. CASE spec[e.cron].exists
      <4>1. spec'[e.cron] = [spec[e.cron] EXCEPT !.paused = TRUE]
        BY <1>3, <1>4, <2>3, <3>1 DEF ApplyPause
      <4>2. spec'[e.cron].paused
        BY <1>5, <3>1, <4>1 DEF CronSpec
      <4>. QED  BY <4>2
    <3>2. CASE ~spec[e.cron].exists
      BY <1>3, <2>3, <3>2 DEF ApplyPause
    <3>. QED  BY <3>1, <3>2
  <2>4. CASE e.op = "resume" /\ ApplyResume(e)
    <3>1. CASE spec[e.cron].exists
      <4>0. spec' = [spec EXCEPT ![e.cron] = [spec[e.cron] EXCEPT !.paused = FALSE, !.next = e.next]]
        BY <1>3, <1>4, <1>5, <2>4, <3>1 DEF ApplyResume, CronSpec
      <4>1. spec'[e.cron].next = e.next
        BY <1>3, <1>4, <1>5, <3>1, <4>0 DEF CronSpec
      <4>2. <<e.next, e.cron>> \in rows'
        BY <2>4, <3>1 DEF ApplyResume
      <4>. QED  BY <4>1, <4>2
    <3>2. CASE ~spec[e.cron].exists
      BY <1>3, <2>4, <3>2 DEF ApplyResume
    <3>. QED  BY <3>1, <3>2
  <2>. QED  BY <1>1, <2>1, <2>2, <2>3, <2>4
<1>. QED  BY <1>6, <1>7 DEF ArmedHasRow, Armed, RowKept

\* An applied fire keeps a row for every armed cron.
LEMMA ApplyFireKeepsRow ==
    ASSUME Typed, ArmedHasRow, ApplyFire PROVE ArmedHasRow'
<1>. DEFINE e == Head(log)
<1>1. /\ log # << >> /\ e.op = "fire"
      /\ IF NotYetFired(e.cron)
         THEN /\ rows' = RowsAfter(e)
              /\ spec' = [spec EXCEPT ![e.cron].next = e.next]
         ELSE UNCHANGED <<rows, spec>>
  BY DEF ApplyFire
<1>2. e \in Entry
  BY <1>1, LogEnds DEF Typed
<1>. HIDE DEF e
<1>3. e.cron \in Crons
  BY <1>2, EntryFields
<1>4. spec \in [Crons -> CronSpec \cup {NoCron}]
  BY DEF Typed, TypeOK
<1>5. CASE NotYetFired(e.cron)
  <2>1. spec[e.cron] \in CronSpec
    BY <1>3, <1>5, SpecShape DEF Typed, NotYetFired
  <2>2. \A c \in Crons : c # e.cron => RowKept(c)
    BY <1>1, <1>3, <1>4, <1>5 DEF RowKept, RowsAfter
  <2>3. <<spec'[e.cron].next, e.cron>> \in rows'
    <3>1. spec'[e.cron] = [spec[e.cron] EXCEPT !.next = e.next]
      BY <1>1, <1>3, <1>4, <1>5
    <3>2. spec'[e.cron].next = e.next
      BY <2>1, <3>1 DEF CronSpec
    <3>3. <<e.next, e.cron>> \in rows'
      BY <1>1, <1>5 DEF RowsAfter
    <3>. QED  BY <3>2, <3>3
  <2>. QED  BY <2>2, <2>3 DEF ArmedHasRow, Armed, RowKept
<1>6. CASE ~NotYetFired(e.cron)
  BY <1>1, <1>6 DEF ArmedHasRow, Armed
<1>. QED  BY <1>5, <1>6

\* Every step keeps a row for every armed cron.
LEMMA RowStep == Typed /\ ArmedHasRow /\ [Next]_vars => ArmedHasRow'
<1>. SUFFICES ASSUME Typed, ArmedHasRow, [Next]_vars PROVE ArmedHasRow'
  OBVIOUS
<1>1. CASE ApplyCron
  BY <1>1, ApplyCronKeepsRow
<1>2. CASE ApplyFire
  BY <1>2, ApplyFireKeepsRow
<1>3. CASE UNCHANGED <<spec, rows>>
  BY <1>3 DEF ArmedHasRow, Armed
<1>4. Tick \/ OperatorNext \/ Sweep \/ (\E r \in batch : ProposeFire(r)) \/ LeaderChange
        => UNCHANGED <<spec, rows>>
  BY DEF Tick, OperatorNext, ScheduleCron, ResumeCron, PauseCron, DeleteCron, Calls,
         Sweep, ProposeFire, LeaderChange
<1>. QED  BY <1>1, <1>2, <1>3, <1>4 DEF Next, LeaderNext, vars

\* Under any operators' calls, sweeps and failovers an armed cron has the due row of its next
\* slot: applyCron and applyFireCron write the row with every next slot they record, and
\* delete no row but the one they replace.
THEOREM ScheduleNeverDies == Spec => []ArmedHasRow
<1>1. Init => ArmedHasRow
  BY DEF Init, ArmedHasRow, Armed, NoCron
<1>. QED  BY <1>1, TypedInit, TypedStep, RowStep, PTL DEF Spec

-----------------------------------------------------------------------------
(* One leader and operators that do not arm a cron twice: what is in the   *)
(* index, the sweep and the log about a cron agrees.                       *)

Arming(e, c) == e.op \in {"schedule", "resume"} /\ e.cron = c

\* Every slot of c that was served lies before t.
ServedBefore(f, c, t) == \A s \in Slots : f[<<c, s>>] > 0 => s < t

\* Armed after the step.
ArmedNext(c) == spec'[c].exists /\ ~spec'[c].paused

\* The index holds the rows of armed crons' next slots and no other.
RowsOK == \A r \in rows : Armed(r[2]) /\ r[1] = spec[r[2]].next

\* What the sweep holds is due and nothing else about its cron is under way.
BatchOK ==
    \A r \in batch :
        /\ r[1] <= now
        /\ Armed(r[2]) => r[1] = spec[r[2]].next
        /\ \A i \in DOMAIN log : ~Arming(log[i], r[2])
        /\ \A q \in batch : q[2] = r[2] => q = r

\* The log holds at most one fire, the one the leader waits for.
FireOK ==
    \A i \in DOMAIN log : log[i].op = "fire" =>
        /\ waiting /\ log[i].term = 1
        /\ \A j \in DOMAIN log : log[j].op = "fire" => j = i
        /\ \A j \in DOMAIN log : ~Arming(log[j], log[i].cron)
        /\ \A r \in batch : r[2] # log[i].cron
        /\ Armed(log[i].cron) => /\ spec[log[i].cron].next <= now
                                 /\ spec[log[i].cron].next < log[i].next
        /\ ServedBefore(fired, log[i].cron, log[i].next)

\* A cron is armed from rest.
ArmOK ==
    \A i \in DOMAIN log, c \in Crons : Arming(log[i], c) =>
        /\ ~Armed(c) /\ ServedBefore(fired, c, log[i].next)
        /\ \A j \in DOMAIN log : j < i => log[j].cron # c

NextOK == \A c \in Crons : Armed(c) => ServedBefore(fired, c, spec[c].next)

ServedOK == \A x \in Crons \X Slots : fired[x] <= 1 /\ (fired[x] > 0 => x[2] <= now)

Agree == RowsOK /\ BatchOK /\ FireOK /\ ArmOK /\ NextOK /\ ServedOK

\* The indices of the log.
LEMMA LogDomain ==
    ASSUME Typed
    PROVE  DOMAIN log = 1..Len(log) /\ Len(log) \in Nat /\ \A i \in DOMAIN log : log[i] \in Entry
  BY DEF Typed

\* Nothing was served later than now.
LEMMA ServedByNow ==
    ASSUME Typed, ServedOK, NEW c \in Crons, NEW t \in Slots, t > now
    PROVE  ServedBefore(fired, c, t)
<1>. SUFFICES ASSUME NEW s \in Slots, fired[<<c, s>>] > 0 PROVE s < t
  BY DEF ServedBefore
<1>1. <<c, s>> \in Crons \X Slots /\ <<c, s>>[2] = s
  OBVIOUS
<1>2. s <= now
  BY <1>1, Zenon DEF ServedOK
<1>3. s \in Nat /\ now \in Nat /\ t \in Nat
  BY CronAssumption DEF Slots, Typed, TypeOK
<1>. QED  BY <1>2, <1>3

\* An operator's call: nothing else about a cron it arms is under way.
LEMMA CallAgrees ==
    ASSUME Typed, Agree, NEW e \in Entry, Calls(e), e.op # "fire",
           \A c \in Crons : Arming(e, c) => ~Armed(c) /\ ~InFlight(c) /\ e.next > now
    PROVE  Agree'
<1>. DEFINE n == Len(log) + 1
<1>1. /\ log' = Append(log, e)
      /\ UNCHANGED <<now, spec, rows, term, batch, waiting, fired>>
  BY DEF Calls, Propose
<1>2. /\ \A i \in DOMAIN log' : (i \in DOMAIN log /\ log'[i] = log[i]) \/ (i = n /\ log'[i] = e)
      /\ \A i \in DOMAIN log : i < n /\ i \in Nat
      /\ n \in Nat
  BY <1>1, LogGrows, LogDomain DEF Typed
<1>. HIDE DEF n
<1>3. RowsOK /\ BatchOK /\ FireOK /\ ArmOK /\ NextOK /\ ServedOK
  BY DEF Agree
<1>4. \A c \in Crons : (ArmedNext(c) <=> Armed(c)) /\ spec'[c].next = spec[c].next
  BY <1>1 DEF Armed, ArmedNext
<1>6. RowsOK'
  BY <1>1, <1>3 DEF RowsOK, Armed
<1>7. batch \subseteq Rows /\ \A i \in DOMAIN log : log[i] \in Entry
  BY DEF Typed, TypeOK
<1>8. e.cron \in Crons /\ \A c : Arming(e, c) => c = e.cron /\ e.next \in Slots
  BY EntryFields DEF Arming
<1>9. BatchOK'
  <2>. SUFFICES ASSUME NEW r \in batch
                PROVE  /\ r[1] <= now'
                       /\ ArmedNext(r[2]) => r[1] = spec'[r[2]].next
                       /\ \A i \in DOMAIN log' : ~Arming(log'[i], r[2])
                       /\ \A q \in batch : q[2] = r[2] => q = r
    BY <1>1 DEF BatchOK, Arming, Armed, ArmedNext
  <2>1. r[2] \in Crons
    BY <1>7 DEF Rows
  <2>2. ~Arming(e, r[2])
    BY <2>1 DEF InFlight
  <2>. QED  BY <1>1, <1>2, <1>3, <1>4, <2>1, <2>2 DEF BatchOK
<1>10. FireOK'
  <2>. SUFFICES ASSUME NEW i \in DOMAIN log', log'[i].op = "fire"
                PROVE  /\ waiting' /\ log'[i].term = 1
                       /\ \A j \in DOMAIN log' : log'[j].op = "fire" => j = i
                       /\ \A j \in DOMAIN log' : ~Arming(log'[j], log'[i].cron)
                       /\ \A r \in batch' : r[2] # log'[i].cron
                       /\ ArmedNext(log'[i].cron) => /\ spec'[log'[i].cron].next <= now'
                                                  /\ spec'[log'[i].cron].next < log'[i].next
                       /\ ServedBefore(fired', log'[i].cron, log'[i].next)
    BY DEF FireOK, Arming, Armed, ArmedNext, ServedBefore
  <2>1. i \in DOMAIN log /\ log'[i] = log[i] /\ log[i].op = "fire"
    BY <1>2
  <2>. DEFINE d == log[i].cron
  <2>2. d \in Crons
    BY <1>7, <2>1, EntryFields
  <2>3. /\ waiting /\ log[i].term = 1
        /\ \A j \in DOMAIN log : log[j].op = "fire" => j = i
        /\ \A j \in DOMAIN log : ~Arming(log[j], d)
        /\ \A r \in batch : r[2] # d
        /\ Armed(d) => spec[d].next <= now /\ spec[d].next < log[i].next
        /\ ServedBefore(fired, d, log[i].next)
    BY <1>3, <2>1 DEF FireOK
  <2>. HIDE DEF d
  <2>4. log'[i].cron = d /\ log'[i].next = log[i].next /\ log'[i].term = log[i].term
    BY <2>1 DEF d
  <2>5. ~Arming(e, d)
    <3>1. InFlight(d)
      BY <2>1 DEF d, InFlight
    <3>. QED  BY <2>2, <3>1
  <2>6. \A j \in DOMAIN log' : ~Arming(log'[j], d)
    BY <1>2, <2>3, <2>5
  <2>7. \A j \in DOMAIN log' : log'[j].op = "fire" => j = i
    BY <1>2, <2>3
  <2>8. ServedBefore(fired', d, log[i].next)
    BY <1>1, <2>3
  <2>. QED  BY <1>1, <1>4, <2>2, <2>3, <2>4, <2>6, <2>7, <2>8
<1>11. ArmOK'
  <2>. SUFFICES ASSUME NEW i \in DOMAIN log', NEW c \in Crons, Arming(log'[i], c)
                PROVE  /\ ~ArmedNext(c) /\ ServedBefore(fired', c, log'[i].next)
                       /\ \A j \in DOMAIN log' : j < i => log'[j].cron # c
    BY DEF ArmOK, Arming, Armed, ArmedNext, ServedBefore
  <2>1. CASE i \in DOMAIN log /\ log'[i] = log[i]
    <3>1. /\ ~Armed(c) /\ ServedBefore(fired, c, log[i].next)
          /\ \A j \in DOMAIN log : j < i => log[j].cron # c
      BY <1>3, <2>1 DEF ArmOK
    <3>2. ServedBefore(fired', c, log'[i].next)
      BY <1>1, <2>1, <3>1 DEF ServedBefore
    <3>3. \A j \in DOMAIN log' : j < i => j \in DOMAIN log /\ log'[j] = log[j]
      BY <1>2, <2>1
    <3>. QED  BY <1>4, <3>1, <3>2, <3>3
  <2>2. CASE i = n /\ log'[i] = e
    <3>1. ~Armed(c) /\ ~InFlight(c) /\ e.next > now /\ e.next \in Slots
      BY <1>8, <2>2
    <3>2. ServedBefore(fired, c, e.next)
      BY <1>3, <3>1, ServedByNow
    <3>3. ServedBefore(fired', c, log'[i].next)
      BY <1>1, <2>2, <3>2 DEF ServedBefore
    <3>4. \A j \in DOMAIN log' : j < i => j \in DOMAIN log /\ log'[j] = log[j]
      BY <1>2, <2>2
    <3>5. \A j \in DOMAIN log : log[j].cron # c
      BY <3>1 DEF InFlight
    <3>. QED  BY <1>4, <3>1, <3>3, <3>4, <3>5
  <2>. QED  BY <1>2, <2>1, <2>2
<1>12. NextOK' /\ ServedOK'
  BY <1>1, <1>3 DEF NextOK, ServedOK, Armed, ServedBefore
<1>. QED  BY <1>6, <1>9, <1>10, <1>11, <1>12 DEF Agree

\* The conjuncts after a step.
BatchAfter(r) ==
    /\ r[1] <= now'
    /\ ArmedNext(r[2]) => r[1] = spec'[r[2]].next
    /\ \A i \in DOMAIN log' : ~Arming(log'[i], r[2])
    /\ \A q \in batch' : q[2] = r[2] => q = r

FireAfter(i) ==
    /\ waiting' /\ log'[i].term = 1
    /\ \A j \in DOMAIN log' : log'[j].op = "fire" => j = i
    /\ \A j \in DOMAIN log' : ~Arming(log'[j], log'[i].cron)
    /\ \A r \in batch' : r[2] # log'[i].cron
    /\ ArmedNext(log'[i].cron) => /\ spec'[log'[i].cron].next <= now'
                                  /\ spec'[log'[i].cron].next < log'[i].next
    /\ ServedBefore(fired', log'[i].cron, log'[i].next)

ArmAfter(i, c) ==
    /\ ~ArmedNext(c) /\ ServedBefore(fired', c, log'[i].next)
    /\ \A j \in DOMAIN log' : j < i => log'[j].cron # c

\* It is enough to look at each row, fire and arming after the step.
LEMMA AfterStep ==
    /\ (\A r \in batch' : BatchAfter(r)) => BatchOK'
    /\ (\A i \in DOMAIN log' : log'[i].op = "fire" => FireAfter(i)) => FireOK'
    /\ (\A i \in DOMAIN log', c \in Crons : Arming(log'[i], c) => ArmAfter(i, c)) => ArmOK'
<1>1. (\A r \in batch' : BatchAfter(r)) => BatchOK'
  BY DEF BatchAfter, BatchOK, Arming, Armed, ArmedNext
<1>2. (\A i \in DOMAIN log' : log'[i].op = "fire" => FireAfter(i)) => FireOK'
  BY DEF FireAfter, FireOK, Arming, Armed, ArmedNext, ServedBefore
<1>3. (\A i \in DOMAIN log', c \in Crons : Arming(log'[i], c) => ArmAfter(i, c)) => ArmOK'
  BY DEF ArmAfter, ArmOK, Arming, Armed, ArmedNext, ServedBefore
<1>. QED  BY <1>1, <1>2, <1>3

\* A command other than a fire touches its own cron's record and row, and arms it only when
\* it is a schedule or a resume.
LEMMA ApplyCronEffect ==
    ASSUME Typed, Agree, ApplyCron
    PROVE  /\ \A r \in rows' : ArmedNext(r[2]) /\ r[1] = spec'[r[2]].next
           /\ \A d \in Crons : ArmedNext(d) =>
                \/ Armed(d) /\ spec'[d].next = spec[d].next
                \/ Arming(Head(log), d) /\ spec'[d].next = Head(log).next
<1>. DEFINE e == Head(log)
            c == e.cron
<1>1. log # << >>
      /\ \/ e.op = "schedule" /\ ApplySchedule(e)
         \/ e.op = "delete"   /\ ApplyDelete(e)
         \/ e.op = "pause"    /\ ApplyPause(e)
         \/ e.op = "resume"   /\ ApplyResume(e)
  BY DEF ApplyCron
<1>2. e \in Entry
  BY <1>1, LogEnds DEF Typed
<1>. HIDE DEF e
<1>3. c \in Crons
  BY <1>2, EntryFields
<1>4. spec \in [Crons -> CronSpec \cup {NoCron}] /\ rows \subseteq Rows
  BY DEF Typed, TypeOK
<1>5. spec[c].exists => spec[c] \in CronSpec
  BY <1>3, SpecShape DEF Typed
<1>6. \A d \in Crons : d # c => spec'[d] = spec[d]
  BY <1>1, <1>3, <1>4 DEF ApplySchedule, ApplyDelete, ApplyPause, ApplyResume
<1>7. \/ /\ Arming(e, c) /\ ArmedNext(c) /\ spec'[c].next = e.next
         /\ rows' = rows \cup {<<e.next, c>>}
      \/ /\ ~ArmedNext(c) /\ spec[c].exists
         /\ rows' = rows \ {<<spec[c].next, c>>}
      \/ UNCHANGED <<rows, spec>>
      \/ ~ArmedNext(c) /\ ~spec[c].exists /\ rows' = rows
  <2>1. CASE e.op = "schedule" /\ ApplySchedule(e)
    <3>1. spec'[c] = [exists |-> TRUE, period |-> e.period, next |-> e.next, paused |-> FALSE]
      BY <1>3, <1>4, <2>1 DEF ApplySchedule
    <3>2. ArmedNext(c) /\ spec'[c].next = e.next
      BY <3>1 DEF ArmedNext
    <3>3. Arming(e, c) /\ rows' = rows \cup {<<e.next, c>>}
      BY <2>1 DEF Arming, ApplySchedule
    <3>. QED  BY <3>2, <3>3
  <2>2. CASE e.op = "delete" /\ ApplyDelete(e)
    <3>1. spec'[c] = NoCron
      BY <1>3, <1>4, <2>2 DEF ApplyDelete
    <3>2. ~ArmedNext(c)
      BY <3>1 DEF ArmedNext, NoCron
    <3>. QED  BY <2>2, <3>2 DEF ApplyDelete
  <2>3. CASE e.op = "pause" /\ ApplyPause(e)
    <3>1. CASE spec[c].exists
      <4>1. spec'[c] = [spec[c] EXCEPT !.paused = TRUE]
        BY <1>3, <1>4, <2>3, <3>1 DEF ApplyPause
      <4>2. ~ArmedNext(c)
        BY <1>5, <3>1, <4>1 DEF CronSpec, ArmedNext
      <4>. QED  BY <2>3, <3>1, <4>2 DEF ApplyPause
    <3>2. CASE ~spec[c].exists
      BY <2>3, <3>2 DEF ApplyPause
    <3>. QED  BY <3>1, <3>2
  <2>4. CASE e.op = "resume" /\ ApplyResume(e)
    <3>1. CASE spec[c].exists
      <4>0. spec' = [spec EXCEPT ![c] = [spec[c] EXCEPT !.paused = FALSE, !.next = e.next]]
        BY <1>3, <1>4, <1>5, <2>4, <3>1 DEF ApplyResume, CronSpec
      <4>1. spec'[c] = [spec[c] EXCEPT !.paused = FALSE, !.next = e.next]
        BY <1>3, <1>4, <4>0
      <4>2. ArmedNext(c) /\ spec'[c].next = e.next
        BY <1>5, <3>1, <4>1 DEF CronSpec, ArmedNext
      <4>3. Arming(e, c) /\ rows' = rows \cup {<<e.next, c>>}
        BY <2>4, <3>1 DEF Arming, ApplyResume
      <4>. QED  BY <4>2, <4>3
    <3>2. CASE ~spec[c].exists
      BY <2>4, <3>2 DEF ApplyResume
    <3>. QED  BY <3>1, <3>2
  <2>. QED  BY <1>1, <2>1, <2>2, <2>3, <2>4
<1>. HIDE DEF c
<1>8. \A r \in rows : r \in Rows /\ r[2] \in Crons /\ Armed(r[2]) /\ r[1] = spec[r[2]].next
                        /\ r = <<r[1], r[2]>>
  BY <1>4 DEF Agree, RowsOK, Rows
<1>9. Arming(e, c) => ~Armed(c)
  <2>1. 1 \in DOMAIN log /\ log[1] = e
    BY <1>1, LogEnds DEF Typed, e
  <2>. QED  BY <1>3, <2>1 DEF Agree, ArmOK
<1>10. ASSUME NEW r \in rows' PROVE ArmedNext(r[2]) /\ r[1] = spec'[r[2]].next
  <2>1. CASE r \in rows /\ r[2] # c
    BY <1>6, <1>8, <2>1 DEF Armed, ArmedNext
  <2>2. CASE r \in rows /\ r[2] = c
    <3>1. Armed(c) /\ r = <<spec[c].next, c>> /\ spec[c].exists
      BY <1>8, <2>2 DEF Armed
    <3>2. UNCHANGED <<rows, spec>>
      BY <1>7, <1>9, <1>10, <3>1
    <3>. QED  BY <2>2, <1>8, <3>2 DEF Armed, ArmedNext
  <2>3. CASE r \notin rows
    <3>1. ArmedNext(c) /\ spec'[c].next = e.next /\ r = <<e.next, c>>
      BY <1>7, <1>10, <2>3
    <3>. QED  BY <3>1
  <2>. QED  BY <2>1, <2>2, <2>3
<1>11. ASSUME NEW d \in Crons, ArmedNext(d)
       PROVE  \/ Armed(d) /\ spec'[d].next = spec[d].next
              \/ Arming(e, d) /\ spec'[d].next = e.next
  BY <1>6, <1>7, <1>11 DEF Armed, ArmedNext
<1>. QED  BY <1>10, <1>11 DEF e

\* An applied operator command keeps the batch and the log in agreement.
LEMMA ApplyCronAgrees ==
    ASSUME Typed, Agree, ApplyCron PROVE Agree'
<1>. DEFINE e == Head(log)
<1>1. /\ log # << >> /\ log' = Tail(log)
      /\ UNCHANGED <<now, term, batch, waiting, fired, tidy>>
  BY DEF ApplyCron
<1>2. /\ \A i \in DOMAIN log' : i \in Nat /\ i >= 1 /\ i + 1 \in DOMAIN log /\ log'[i] = log[i + 1]
      /\ 1 \in DOMAIN log /\ log[1] = e
  BY <1>1, LogEnds DEF Typed
<1>3. RowsOK /\ BatchOK /\ FireOK /\ ArmOK /\ NextOK /\ ServedOK
  BY DEF Agree
<1>4. /\ \A r \in rows' : ArmedNext(r[2]) /\ r[1] = spec'[r[2]].next
      /\ \A d \in Crons : ArmedNext(d) =>
            \/ Armed(d) /\ spec'[d].next = spec[d].next
            \/ Arming(e, d) /\ spec'[d].next = e.next
  BY ApplyCronEffect
<1>. HIDE DEF e
<1>5. batch \subseteq Rows /\ \A i \in DOMAIN log : log[i] \in Entry /\ log[i].cron \in Crons
  BY EntryFields DEF Typed, TypeOK
<1>6. RowsOK'
  BY <1>4 DEF RowsOK, Armed, ArmedNext
<1>7. ASSUME NEW r \in batch' PROVE BatchAfter(r)
  <2>1. r \in batch /\ r[2] \in Crons
    BY <1>1, <1>5 DEF Rows
  <2>2. /\ r[1] <= now
        /\ Armed(r[2]) => r[1] = spec[r[2]].next
        /\ \A i \in DOMAIN log : ~Arming(log[i], r[2])
        /\ \A q \in batch : q[2] = r[2] => q = r
    BY <1>3, <2>1 DEF BatchOK
  <2>3. ~Arming(e, r[2]) /\ \A i \in DOMAIN log' : ~Arming(log'[i], r[2])
    BY <1>2, <2>2
  <2>. QED  BY <1>1, <1>4, <2>1, <2>2, <2>3 DEF BatchAfter
<1>8. ASSUME NEW i \in DOMAIN log', log'[i].op = "fire" PROVE FireAfter(i)
  <2>. DEFINE k == i + 1
              d == log[k].cron
  <2>1. k \in DOMAIN log /\ log'[i] = log[k] /\ log[k].op = "fire" /\ d \in Crons
    BY <1>2, <1>5, <1>8
  <2>2. /\ waiting /\ log[k].term = 1
        /\ \A j \in DOMAIN log : log[j].op = "fire" => j = k
        /\ \A j \in DOMAIN log : ~Arming(log[j], d)
        /\ \A r \in batch : r[2] # d
        /\ Armed(d) => spec[d].next <= now /\ spec[d].next < log[k].next
        /\ ServedBefore(fired, d, log[k].next)
    BY <1>3, <2>1 DEF FireOK
  <2>3. log'[i].cron = d /\ log'[i].next = log[k].next /\ log'[i].term = log[k].term
    BY <2>1
  <2>4. \A j \in DOMAIN log' : log'[j].op = "fire" => j = i
    BY <1>2, <2>2
  <2>. HIDE DEF d, k
  <2>5. \A j \in DOMAIN log' : ~Arming(log'[j], d)
    BY <1>2, <2>2
  <2>6. ArmedNext(d) => spec'[d].next <= now' /\ spec'[d].next < log[k].next
    BY <1>1, <1>2, <1>4, <2>1, <2>2
  <2>. QED  BY <1>1, <2>2, <2>3, <2>4, <2>5, <2>6 DEF FireAfter
<1>9. ASSUME NEW i \in DOMAIN log', NEW c \in Crons, Arming(log'[i], c) PROVE ArmAfter(i, c)
  <2>1. i + 1 \in DOMAIN log /\ log'[i] = log[i + 1] /\ i \in Nat /\ 1 < i + 1
    BY <1>2
  <2>2. /\ ~Armed(c) /\ ServedBefore(fired, c, log[i + 1].next)
        /\ \A j \in DOMAIN log : j < i + 1 => log[j].cron # c
    BY <1>3, <1>9, <2>1 DEF ArmOK
  <2>3. ~Arming(e, c)
    BY <1>2, <2>1, <2>2 DEF Arming
  <2>4. \A j \in DOMAIN log' : j < i => log'[j].cron # c
    BY <1>2, <2>1, <2>2
  <2>. QED  BY <1>1, <1>4, <2>1, <2>2, <2>3, <2>4 DEF ArmAfter
<1>10. NextOK'
  <2>. SUFFICES ASSUME NEW d \in Crons, ArmedNext(d) PROVE ServedBefore(fired, d, spec'[d].next)
    BY <1>1 DEF NextOK, Armed, ArmedNext, ServedBefore
  <2>1. CASE Armed(d) /\ spec'[d].next = spec[d].next
    BY <1>3, <2>1 DEF NextOK
  <2>2. CASE Arming(e, d) /\ spec'[d].next = e.next
    BY <1>2, <1>3, <2>2 DEF ArmOK
  <2>. QED  BY <1>4, <2>1, <2>2
<1>11. ServedOK'
  BY <1>1, <1>3 DEF ServedOK
<1>. QED  BY <1>6, <1>7, <1>8, <1>9, <1>10, <1>11, AfterStep DEF Agree

\* Time passing keeps the batch and the log in agreement.
LEMMA TickAgrees ==
    ASSUME Typed, Agree, Tick PROVE Agree'
<1>1. /\ now' = now + 1 /\ UNCHANGED <<spec, rows, term, batch, waiting, log, fired, tidy>>
      /\ now \in Nat
  BY DEF Tick, Typed, TypeOK
<1>2. \A n \in Nat : n <= now => n <= now'
  BY <1>1
<1>3. \A r \in batch : r[1] \in Nat
  BY DEF Typed, TypeOK, Rows, Slots
<1>4. \A c \in Crons : Armed(c) => spec[c].next \in Nat
  BY SpecShape DEF Armed, Typed, Slots
<1>5. \A i \in DOMAIN log : log[i].cron \in Crons
  BY EntryFields DEF Typed, TypeOK
<1>6. RowsOK' /\ ArmOK' /\ NextOK'
  BY <1>1 DEF Agree, RowsOK, ArmOK, NextOK, Armed, ServedBefore, Arming
<1>7. BatchOK'
  BY <1>1, <1>2, <1>3 DEF Agree, BatchOK, Armed, Arming
<1>8. ASSUME NEW i \in DOMAIN log', log'[i].op = "fire" PROVE FireAfter(i)
  <2>. DEFINE d == log[i].cron
  <2>1. i \in DOMAIN log /\ d \in Crons /\ log[i].op = "fire"
    BY <1>1, <1>5, <1>8
  <2>2. /\ waiting /\ log[i].term = 1
        /\ \A j \in DOMAIN log : log[j].op = "fire" => j = i
        /\ \A j \in DOMAIN log : ~Arming(log[j], d)
        /\ \A r \in batch : r[2] # d
        /\ Armed(d) => spec[d].next <= now /\ spec[d].next < log[i].next
        /\ ServedBefore(fired, d, log[i].next)
    BY <2>1 DEF Agree, FireOK
  <2>3. ArmedNext(d) => Armed(d) /\ spec'[d].next = spec[d].next
    BY <1>1 DEF Armed, ArmedNext
  <2>4. ArmedNext(d) => spec'[d].next <= now' /\ spec'[d].next < log[i].next
    BY <1>2, <1>4, <2>1, <2>2, <2>3
  <2>. QED  BY <1>1, <2>2, <2>4 DEF FireAfter
<1>9. ServedOK'
  <2>1. \A x \in Crons \X Slots : x[2] \in Nat
    BY DEF Slots
  <2>. QED  BY <1>1, <1>2, <2>1 DEF Agree, ServedOK
<1>. QED  BY <1>6, <1>7, <1>8, <1>9, AfterStep DEF Agree

\* The sweep reads rows of crons nothing else is under way for.
LEMMA SweepAgrees ==
    ASSUME Typed, Agree, Sweep PROVE Agree'
<1>1. /\ batch' = DueRows /\ ~waiting
      /\ UNCHANGED <<now, spec, rows, term, waiting, log, fired, tidy>>
  BY DEF Sweep
<1>2. \A i \in DOMAIN log : log[i].op # "fire"
  BY <1>1 DEF Agree, FireOK
<1>3. RowsOK' /\ ArmOK' /\ NextOK' /\ ServedOK'
  BY <1>1 DEF Agree, RowsOK, ArmOK, NextOK, ServedOK, Armed, ServedBefore, Arming
<1>4. FireOK'
  BY <1>1, <1>2 DEF FireOK
<1>5. ASSUME NEW r \in batch' PROVE BatchAfter(r)
  <2>1. \A q \in batch' : /\ q \in rows /\ q[1] <= now /\ q = <<q[1], q[2]>> /\ q[2] \in Crons
                          /\ Armed(q[2]) /\ q[1] = spec[q[2]].next
    BY <1>1 DEF DueRows, Agree, RowsOK, Typed, TypeOK, Rows
  <2>2. \A i \in DOMAIN log : ~Arming(log[i], r[2])
    BY <2>1 DEF Agree, ArmOK
  <2>3. \A q \in batch' : q[2] = r[2] => q = r
    BY <2>1
  <2>. QED  BY <1>1, <2>1, <2>2, <2>3 DEF BatchAfter
<1>. QED  BY <1>3, <1>4, <1>5, AfterStep DEF Agree

\* fireCron: the fire takes the place of the row in the sweep, and what it computes for the
\* next instant lies after everything served so far.
LEMMA ProposeFireAgrees ==
    ASSUME Typed, Agree, term = 1, NEW r \in batch, ProposeFire(r) PROVE Agree'
<1>. DEFINE c == r[2]
<1>1. /\ ~waiting /\ batch' = batch \ {r}
      /\ UNCHANGED <<now, spec, rows, term, fired, tidy>>
  BY DEF ProposeFire
<1>2. c \in Crons
  BY DEF Typed, TypeOK, Rows
<1>3. RowsOK /\ BatchOK /\ FireOK /\ ArmOK /\ NextOK /\ ServedOK
  BY DEF Agree
<1>4. /\ r[1] <= now
      /\ Armed(c) => r[1] = spec[c].next
      /\ \A i \in DOMAIN log : ~Arming(log[i], c)
      /\ \A q \in batch : q[2] = c => q = r
  BY <1>3 DEF BatchOK
<1>5. \A i \in DOMAIN log : log[i].op # "fire"
  BY <1>1, <1>3 DEF FireOK
<1>6. RowsOK' /\ NextOK' /\ ServedOK'
  BY <1>1, <1>3 DEF RowsOK, NextOK, ServedOK, Armed, ServedBefore
<1>7. CASE ~spec[c].exists
  <2>1. UNCHANGED <<log, waiting>>
    BY <1>7 DEF ProposeFire
  <2>2. BatchOK' /\ ArmOK'
    BY <1>1, <1>3, <2>1 DEF BatchOK, ArmOK, Armed, ServedBefore, Arming
  <2>3. FireOK'
    BY <1>5, <2>1 DEF FireOK
  <2>. QED  BY <1>6, <2>2, <2>3 DEF Agree
<1>8. CASE spec[c].exists
  <2>. DEFINE e == [op |-> "fire", cron |-> c, term |-> term, next |-> Following(spec[c].period, now)]
              n == Len(log) + 1
  <2>1. log' = Append(log, e) /\ waiting'
    BY <1>8 DEF ProposeFire, Propose
  <2>2. e \in Entry /\ spec[c].period \in Periods
    BY <1>2, <1>8, EntryMade DEF Typed
  <2>3. e.op = "fire" /\ e.cron = c /\ e.term = 1 /\ e.next \in Slots /\ e.next > now
    BY <2>2, FollowingSlot DEF Typed
  <2>. HIDE DEF e
  <2>4. /\ \A i \in DOMAIN log' : (i \in DOMAIN log /\ log'[i] = log[i]) \/ (i = n /\ log'[i] = e)
        /\ \A i \in DOMAIN log : i < n /\ i \in Nat
        /\ n \in Nat
    BY <2>1, <2>2, LogGrows, LogDomain DEF Typed
  <2>. HIDE DEF n, c
  <2>5. \A d : ~Arming(e, d)
    BY <2>3 DEF Arming
  <2>6. \A d : ArmedNext(d) <=> Armed(d)
    BY <1>1 DEF Armed, ArmedNext
  <2>7. ASSUME NEW q \in batch' PROVE BatchAfter(q)
    <3>1. q \in batch
      BY <1>1, <2>7
    <3>2. /\ q[1] <= now
          /\ Armed(q[2]) => q[1] = spec[q[2]].next
          /\ \A i \in DOMAIN log : ~Arming(log[i], q[2])
          /\ \A s \in batch : s[2] = q[2] => s = q
      BY <1>3, <3>1 DEF BatchOK
    <3>3. \A i \in DOMAIN log' : ~Arming(log'[i], q[2])
      BY <2>4, <2>5, <3>2
    <3>. QED  BY <1>1, <2>6, <3>2, <3>3 DEF BatchAfter
  <2>8. ASSUME NEW i \in DOMAIN log', log'[i].op = "fire" PROVE FireAfter(i)
    <3>1. i = n /\ log'[i] = e
      BY <1>5, <2>4, <2>8
    <3>2. \A j \in DOMAIN log' : log'[j].op = "fire" => j = i
      BY <1>5, <2>4, <3>1
    <3>3. \A j \in DOMAIN log' : ~Arming(log'[j], c)
      BY <1>4, <2>4, <2>5 DEF c
    <3>4. \A q \in batch' : q[2] # c
      BY <1>1, <1>4 DEF c
    <3>5. Armed(c) => spec[c].next <= now /\ spec[c].next < e.next
      <4>1. r[1] \in Nat /\ now \in Nat /\ e.next \in Nat
        BY <2>3, CronAssumption DEF Typed, TypeOK, Rows, Slots
      <4>. QED  BY <1>4, <2>3, <4>1 DEF c
    <3>6. ServedBefore(fired, c, e.next)
      BY <1>2, <1>3, <2>3, ServedByNow DEF c
    <3>7. log'[i].cron = c /\ log'[i].term = 1 /\ log'[i].next = e.next
      BY <2>3, <3>1
    <3>. QED  BY <1>1, <2>1, <2>6, <3>2, <3>3, <3>4, <3>5, <3>6, <3>7 DEF FireAfter
  <2>9. ASSUME NEW i \in DOMAIN log', NEW d \in Crons, Arming(log'[i], d) PROVE ArmAfter(i, d)
    <3>1. i \in DOMAIN log /\ log'[i] = log[i] /\ i < n
      BY <2>4, <2>5, <2>9
    <3>2. /\ ~Armed(d) /\ ServedBefore(fired, d, log[i].next)
          /\ \A j \in DOMAIN log : j < i => log[j].cron # d
      BY <1>3, <2>9, <3>1 DEF ArmOK
    <3>3. \A j \in DOMAIN log' : j < i => j \in DOMAIN log /\ log'[j] = log[j]
      BY <2>4, <3>1
    <3>. QED  BY <1>1, <2>6, <3>1, <3>2, <3>3 DEF ArmAfter
  <2>. QED  BY <1>6, <2>7, <2>8, <2>9, AfterStep DEF Agree
<1>. QED  BY <1>7, <1>8

\* applyFireCron: one slot of one cron is served, the one that was due.
LEMMA ApplyFireAgrees ==
    ASSUME Typed, Agree, ApplyFire PROVE Agree'
<1>. DEFINE e == Head(log)
            c == e.cron
            x == <<c, spec[c].next>>
<1>1. /\ log # << >> /\ e.op = "fire" /\ log' = Tail(log)
      /\ IF NotYetFired(c)
         THEN /\ fired' = [fired EXCEPT ![x] = IF @ < MaxFired THEN @ + 1 ELSE @]
              /\ rows' = RowsAfter(e)
              /\ spec' = [spec EXCEPT ![c].next = e.next]
         ELSE UNCHANGED <<fired, rows, spec>>
      /\ UNCHANGED <<now, term, batch, tidy>>
  BY DEF ApplyFire
<1>2. /\ \A i \in DOMAIN log' : i \in Nat /\ i >= 1 /\ i + 1 \in DOMAIN log /\ log'[i] = log[i + 1]
      /\ 1 \in DOMAIN log /\ log[1] = e /\ e \in Entry
  BY <1>1, LogEnds DEF Typed
<1>. HIDE DEF e
<1>3. RowsOK /\ BatchOK /\ FireOK /\ ArmOK /\ NextOK /\ ServedOK
  BY DEF Agree
<1>4. c \in Crons /\ e.next \in Slots
  BY <1>1, <1>2, EntryFields
<1>5. /\ \A j \in DOMAIN log : log[j].op = "fire" => j = 1
      /\ \A j \in DOMAIN log : ~Arming(log[j], c)
      /\ \A r \in batch : r[2] # c
      /\ Armed(c) => spec[c].next <= now /\ spec[c].next < e.next
      /\ ServedBefore(fired, c, e.next)
  BY <1>1, <1>2, <1>3 DEF FireOK
<1>6. FireOK'
  <2>1. \A i \in DOMAIN log' : log'[i].op # "fire"
    BY <1>2, <1>5
  <2>. QED  BY <2>1 DEF FireOK
<1>7. \A i \in DOMAIN log' : ~Arming(log'[i], c)
  BY <1>2, <1>5
<1>. HIDE DEF c
<1>8. \A d \in Crons : d # c => /\ spec'[d] = spec[d]
                                /\ \A s \in Slots : fired'[<<d, s>>] = fired[<<d, s>>]
  <2>1. CASE NotYetFired(c)
    <3>1. spec \in [Crons -> CronSpec \cup {NoCron}] /\ fired \in [Crons \X Slots -> 0..MaxFired]
      BY DEF Typed, TypeOK
    <3>2. \A d \in Crons, s \in Slots : d # c => <<d, s>> \in Crons \X Slots /\ <<d, s>> # x
      OBVIOUS
    <3>. HIDE DEF x
    <3>3. \A d \in Crons, s \in Slots : d # c => fired'[<<d, s>>] = fired[<<d, s>>]
      BY <1>1, <2>1, <3>1, <3>2
    <3>4. \A d \in Crons : d # c => spec'[d] = spec[d]
      BY <1>1, <1>4, <2>1, <3>1
    <3>. QED  BY <3>3, <3>4
  <2>2. CASE ~NotYetFired(c)
    BY <1>1, <2>2
  <2>. QED  BY <2>1, <2>2
<1>9. \A d \in Crons : d # c =>
         /\ ArmedNext(d) <=> Armed(d)
         /\ spec'[d].next = spec[d].next
         /\ \A t : ServedBefore(fired, d, t) => ServedBefore(fired', d, t)
  BY <1>8 DEF ArmedNext, Armed, ServedBefore
<1>10. ASSUME NEW r \in batch' PROVE BatchAfter(r)
  <2>1. r \in batch /\ r[2] \in Crons /\ r[2] # c
    BY <1>1, <1>5 DEF Typed, TypeOK, Rows
  <2>2. /\ r[1] <= now
        /\ Armed(r[2]) => r[1] = spec[r[2]].next
        /\ \A i \in DOMAIN log : ~Arming(log[i], r[2])
        /\ \A q \in batch : q[2] = r[2] => q = r
    BY <1>3, <2>1 DEF BatchOK
  <2>3. \A i \in DOMAIN log' : ~Arming(log'[i], r[2])
    BY <1>2, <2>2
  <2>. QED  BY <1>1, <1>9, <2>1, <2>2, <2>3 DEF BatchAfter
<1>11. ASSUME NEW i \in DOMAIN log', NEW d \in Crons, Arming(log'[i], d) PROVE ArmAfter(i, d)
  <2>1. i + 1 \in DOMAIN log /\ log'[i] = log[i + 1] /\ i \in Nat /\ d # c
    BY <1>2, <1>7, <1>11
  <2>2. /\ ~Armed(d) /\ ServedBefore(fired, d, log[i + 1].next)
        /\ \A j \in DOMAIN log : j < i + 1 => log[j].cron # d
    BY <1>3, <1>11, <2>1 DEF ArmOK
  <2>3. \A j \in DOMAIN log' : j < i => log'[j].cron # d
    BY <1>2, <2>1, <2>2
  <2>. QED  BY <1>9, <2>1, <2>2, <2>3 DEF ArmAfter
<1>12. \A r \in rows : r \in Rows /\ r = <<r[1], r[2]>> /\ r[2] \in Crons /\ r[1] = spec[r[2]].next
                        /\ Armed(r[2])
  BY <1>3 DEF RowsOK, Typed, TypeOK, Rows
<1>13. CASE NotYetFired(c)
  <2>1. Armed(c) /\ spec[c] \in CronSpec /\ spec[c].next \in Slots /\ x \in Crons \X Slots
    <3>1. <<spec[c].next, c>> \in rows
      BY <1>13 DEF NotYetFired
    <3>2. Armed(c)
      BY <1>12, <3>1
    <3>. QED  BY <1>4, <3>2, SpecShape DEF Armed, Typed
  <2>2. spec[c].next <= now /\ spec[c].next < e.next /\ ServedBefore(fired, c, spec[c].next)
    BY <1>3, <1>4, <1>5, <2>1 DEF NextOK
  <2>3. spec'[c] = [spec[c] EXCEPT !.next = e.next]
    BY <1>1, <1>4, <1>13 DEF Typed, TypeOK
  <2>4. ArmedNext(c) /\ spec'[c].next = e.next
    BY <2>1, <2>3 DEF CronSpec, Armed, ArmedNext
  <2>5. /\ fired' = [fired EXCEPT ![x] = IF fired[x] < MaxFired THEN fired[x] + 1 ELSE fired[x]]
        /\ fired \in [Crons \X Slots -> 0..MaxFired]
    BY <1>1, <1>13 DEF Typed, TypeOK
  <2>6. fired[x] = 0
    <3>1. spec[c].next \in Nat /\ fired[x] \in Nat /\ MaxFired \in Nat
      BY <2>1, <2>5, CronAssumption DEF Slots
    <3>2. ~(fired[<<c, spec[c].next>>] > 0)
      BY <2>1, <2>2, <3>1 DEF ServedBefore
    <3>. QED  BY <3>1, <3>2
  <2>7. fired'[x] <= 1 /\ \A y \in Crons \X Slots : y # x => fired'[y] = fired[y]
    <3>1. MaxFired \in Nat
      BY CronAssumption
    <3>. HIDE DEF x
    <3>. QED  BY <2>1, <2>5, <2>6, <3>1
  <2>8. ServedOK'
    <3>. SUFFICES ASSUME NEW y \in Crons \X Slots
                  PROVE  fired'[y] <= 1 /\ (fired'[y] > 0 => y[2] <= now')
      BY DEF ServedOK
    <3>1. CASE y = x
      <4>1. y[2] = spec[c].next
        BY <3>1
      <4>. QED  BY <1>1, <2>2, <2>7, <3>1, <4>1
    <3>2. CASE y # x
      BY <1>1, <1>3, <2>7, <3>2 DEF ServedOK
    <3>. QED  BY <3>1, <3>2
  <2>9. ServedBefore(fired', c, e.next)
    <3>. SUFFICES ASSUME NEW s \in Slots, fired'[<<c, s>>] > 0 PROVE s < e.next
      BY DEF ServedBefore
    <3>1. CASE s = spec[c].next
      BY <2>2, <3>1
    <3>2. CASE s # spec[c].next
      <4>1. fired'[<<c, s>>] = fired[<<c, s>>]
        BY <1>4, <2>7, <3>2
      <4>. QED  BY <1>5, <4>1 DEF ServedBefore
    <3>. QED  BY <3>1, <3>2
  <2>10. NextOK'
    <3>. SUFFICES ASSUME NEW d \in Crons, ArmedNext(d) PROVE ServedBefore(fired', d, spec'[d].next)
      BY DEF NextOK, Armed, ArmedNext, ServedBefore
    <3>1. CASE d = c
      BY <2>4, <2>9, <3>1
    <3>2. CASE d # c
      BY <1>3, <1>9, <3>2 DEF NextOK
    <3>. QED  BY <3>1, <3>2
  <2>11. RowsOK'
    <3>. SUFFICES ASSUME NEW r \in rows' PROVE ArmedNext(r[2]) /\ r[1] = spec'[r[2]].next
      BY DEF RowsOK, Armed, ArmedNext
    <3>1. (r \in rows /\ r # <<spec[c].next, c>>) \/ r = <<e.next, c>>
      BY <1>1, <1>13 DEF RowsAfter, c
    <3>2. CASE r = <<e.next, c>>
      BY <2>4, <3>2
    <3>3. CASE r \in rows /\ r # <<spec[c].next, c>>
      <4>1. r[2] # c /\ r[2] \in Crons /\ Armed(r[2]) /\ r[1] = spec[r[2]].next
        BY <1>12, <3>3
      <4>. QED  BY <1>9, <4>1
    <3>. QED  BY <3>1, <3>2, <3>3
  <2>. QED  BY <1>6, <1>10, <1>11, <2>8, <2>10, <2>11, AfterStep DEF Agree
<1>14. CASE ~NotYetFired(c)
  <2>1. UNCHANGED <<fired, rows, spec, now>>
    BY <1>1, <1>14
  <2>2. RowsOK' /\ NextOK' /\ ServedOK'
    BY <1>3, <2>1 DEF RowsOK, NextOK, ServedOK, Armed, ServedBefore
  <2>. QED  BY <1>6, <1>10, <1>11, <2>2, AfterStep DEF Agree
<1>. QED  BY <1>13, <1>14

-----------------------------------------------------------------------------
(* Slots are served once and not early                                     *)

CalmInv == Typed /\ (tidy /\ term = 1 => Agree)

\* Every step keeps the agreement, while operators are tidy and one leader is in office.
LEMMA CalmStep == CalmInv /\ [Next]_vars => CalmInv'
<1>. SUFFICES ASSUME CalmInv, [Next]_vars PROVE CalmInv'
  OBVIOUS
<1>1. Typed /\ Typed'
  BY TypedStep DEF CalmInv
<1>. SUFFICES ASSUME tidy', term' = 1 PROVE Agree'
  BY <1>1 DEF CalmInv
<1>2. tidy /\ term = 1 /\ ~LeaderChange
  <2>1. term \in Nat /\ term >= 1
    BY <1>1 DEF Typed, TypeOK
  <2>2. ~LeaderChange
    <3>1. LeaderChange => term' = term + 1
      BY DEF LeaderChange
    <3>. QED  BY <2>1, <3>1
  <2>4. term' = term
    BY <2>2 DEF Next, LeaderNext, Tick, OperatorNext, ScheduleCron, ResumeCron, PauseCron,
                DeleteCron, Calls, Sweep, ProposeFire, ApplyFire, ApplyCron, vars
  <2>3. tidy
    <3>1. CASE OperatorNext
      <4>1. tidy' = tidy \/ \E c \in Crons : Arms(c)
        BY <3>1 DEF OperatorNext, ScheduleCron, ResumeCron, PauseCron, DeleteCron
      <4>. QED  BY <4>1, Zenon DEF Arms
    <3>2. CASE Tick \/ LeaderNext \/ UNCHANGED vars
      BY <3>2 DEF Tick, LeaderNext, Sweep, ProposeFire, ApplyFire, ApplyCron, vars
    <3>. QED  BY <2>2, <3>1, <3>2 DEF Next
  <2>. QED  BY <2>2, <2>3, <2>4
<1>3. Agree
  BY <1>2 DEF CalmInv
<1>4. CASE Tick
  BY <1>1, <1>3, <1>4, TickAgrees
<1>5. CASE Sweep
  BY <1>1, <1>3, <1>5, SweepAgrees
<1>6. CASE \E r \in batch : ProposeFire(r)
  BY <1>1, <1>2, <1>3, <1>6, ProposeFireAgrees
<1>7. CASE ApplyFire
  BY <1>1, <1>3, <1>7, ApplyFireAgrees
<1>8. CASE ApplyCron
  BY <1>1, <1>3, <1>8, ApplyCronAgrees
<1>9. CASE UNCHANGED vars
  BY <1>3, <1>9 DEF vars, Agree, RowsOK, BatchOK, FireOK, ArmOK, NextOK, ServedOK, Armed, Arming,
                    ServedBefore
<1>10. ASSUME NEW c \in Crons, NEW p \in Periods, ScheduleCron(c, p) PROVE Agree'
  <2>. DEFINE e == [op |-> "schedule", cron |-> c, period |-> p, next |-> Following(p, now)]
  <2>1. e \in Entry /\ Following(p, now) > now
    BY <1>1, EntryMade, FollowingSlot DEF Typed
  <2>2. Calls(e) /\ ~Armed(c) /\ ~InFlight(c)
    BY <1>10, Zenon DEF ScheduleCron, Arms
  <2>3. e.op # "fire" /\ e.cron = c /\ e.next > now
    BY <2>1
  <2>. HIDE DEF e
  <2>4. \A d : Arming(e, d) => d = c
    BY <2>3 DEF Arming
  <2>. QED  BY <1>1, <1>3, <2>1, <2>2, <2>3, <2>4, CallAgrees
<1>11. ASSUME NEW c \in Crons, ResumeCron(c) PROVE Agree'
  <2>. DEFINE e == [op |-> "resume", cron |-> c, next |-> Following(spec[c].period, now)]
  <2>1. e \in Entry /\ Following(spec[c].period, now) > now
    BY <1>1, <1>11, EntryMade, FollowingSlot DEF Typed, ResumeCron
  <2>2. Calls(e) /\ ~Armed(c) /\ ~InFlight(c)
    BY <1>11, Zenon DEF ResumeCron, Arms
  <2>3. e.op # "fire" /\ e.cron = c /\ e.next > now
    BY <2>1
  <2>. HIDE DEF e
  <2>4. \A d : Arming(e, d) => d = c
    BY <2>3 DEF Arming
  <2>. QED  BY <1>1, <1>3, <2>1, <2>2, <2>3, <2>4, CallAgrees
<1>12. ASSUME NEW c \in Crons, PauseCron(c) \/ DeleteCron(c) PROVE Agree'
  <2>1. CASE PauseCron(c)
    <3>. DEFINE e == [op |-> "pause", cron |-> c]
    <3>1. e \in Entry /\ Calls(e) /\ e.op # "fire" /\ \A d : ~Arming(e, d)
      BY <1>1, <2>1, EntryMade DEF Typed, PauseCron, Arming
    <3>. QED  BY <1>1, <1>3, <3>1, CallAgrees
  <2>2. CASE DeleteCron(c)
    <3>. DEFINE e == [op |-> "delete", cron |-> c]
    <3>1. e \in Entry /\ Calls(e) /\ e.op # "fire" /\ \A d : ~Arming(e, d)
      BY <1>1, <2>2, EntryMade DEF Typed, DeleteCron, Arming
    <3>. QED  BY <1>1, <1>3, <3>1, CallAgrees
  <2>. QED  BY <1>12, <2>1, <2>2
<1>. QED
  BY <1>2, <1>4, <1>5, <1>6, <1>7, <1>8, <1>9, <1>10, <1>11, <1>12
     DEF Next, OperatorNext, LeaderNext

\* The agreement holds at the start.
LEMMA CalmInit == Init => CalmInv
<1>. SUFFICES ASSUME Init PROVE CalmInv
  OBVIOUS
<1>1. Typed
  BY TypedInit
<1>2. log = << >> /\ rows = {} /\ batch = {} /\ DOMAIN log = {}
  BY DEF Init
<1>3. \A x \in Crons \X Slots : fired[x] = 0
  BY DEF Init
<1>4. \A c \in Crons : ~Armed(c)
  BY DEF Init, Armed, NoCron
<1>. QED  BY <1>1, <1>2, <1>3, <1>4 DEF CalmInv, Agree, RowsOK, BatchOK, FireOK, ArmOK, NextOK, ServedOK

\* While one leader is in office and operators arm a cron only when it is at rest, a slot is
\* published once: the sweep, the fire it waits for and the record never disagree on the slot
\* that is due, whatever pauses and deletions come between.
THEOREM PublishedOnce == Spec => []OncePerSlotOneLeader
<1>1. CalmInv => OncePerSlotOneLeader
  BY DEF CalmInv, OncePerSlotOneLeader, OncePerSlot, Agree, ServedOK
<1>. QED  BY <1>1, CalmInit, CalmStep, PTL DEF Spec

\* Under the same conditions no slot is published before its time: a fire the leader proposed
\* for one row is not applied to a later slot.
THEOREM NeverEarly == Spec => []FiredOnTime
<1>1. CalmInv => FiredOnTime
  BY DEF CalmInv, FiredOnTime, Agree, ServedOK
<1>. QED  BY <1>1, CalmInit, CalmStep, PTL DEF Spec
=============================================================================
