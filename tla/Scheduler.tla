----------------------------- MODULE Scheduler ------------------------------
(***************************************************************************)
(* The fair scheduler of one lane on the leader (internal/scheduler): the  *)
(* virtual time of every group, the pick, the charge for it, and the       *)
(* breaker that quarantines a faulting policy.  It is leader-local memory; *)
(* a Pick runs under the scheduler's lock and is one action.               *)
(*                                                                         *)
(* Virtual time is counted in units in which every charge 1/weight is a    *)
(* positive integer (cost); float rounding is left out.  Policies are told *)
(* apart by how they rank: by virtual time (WFQ and completion_aware, the  *)
(* latter with a larger charge), mostly by weight (strict_priority), or at *)
(* will (lottery, CEL and WASM, of which the last two may fault).          *)
(***************************************************************************)
EXTENDS Integers, FiniteSets, Sequences

CONSTANTS
    Groups,         \* group ids, numbers: equal scores go to the smaller id
    Unit, Costs,    \* a weight w costs Unit/w; the costs of the weights in use
    Tier,           \* the 1e6 that strict_priority multiplies weights by
    MaxCharge,      \* bound on the ServeCost of completion_aware
    Kinds,          \* policies operators install
    Filters,        \* sets of groups consumers accept work from
    MaxVt,          \* bound on virtual time
    Threshold,      \* quarantineThreshold
    Window,         \* quarantineWindowMs
    Horizon         \* bound on the clock

AllKinds == {"wfq", "completion_aware", "strict_priority", "at_will"}

ASSUME SchedulerAssumption ==
    /\ Groups \subseteq Nat
    /\ MaxCharge \in Nat \ {0} /\ Costs \subseteq 1..MaxCharge
    /\ {Unit, Tier} \subseteq Nat \ {0} /\ \A c \in Costs : Unit % c = 0
    /\ Kinds \subseteq AllKinds /\ Filters \subseteq SUBSET Groups
    /\ {MaxVt, Window} \subseteq Nat /\ {Threshold, Horizon} \subseteq Nat \ {0}

VARIABLES
    now,            \* nowMs
    ready,          \* groups with ready messages that are not paused
    cost,           \* 1/weight of each group
    vt,             \* laneState.vt, Unknown for a group without an entry
    pol,            \* the installed policy, "none" is the built-in default
    faults, windowStart, quarantined,
    passed,         \* history: turns by virtual time h took since g waits
    owed,           \* history: how far h was behind g at the first of them
    faultTimes      \* history: faults of the installed policy, oldest first

lane    == <<vt, pol, faults, windowStart, quarantined>>
history == <<passed, owed, faultTimes>>
vars    == <<now, ready, cost, lane, history>>

Unknown  == -1
Known(g) == vt[g] # Unknown

-----------------------------------------------------------------------------
(* Pick                                                                    *)

\* The least virtual time among the active groups A, 0 if none has an entry.
MinVt(A) ==
    LET S == {g \in A : Known(g)}
    IN  IF S = {} THEN 0 ELSE vt[CHOOSE g \in S : \A h \in S : vt[g] <= vt[h]]

\* New groups join at it.
Joined(A) ==
    [g \in Groups |-> IF g \in A /\ ~Known(g) THEN MinVt(A) ELSE vt[g]]

\* The highest WFQ score, -vt; equal scores go to the smaller id.
BestByVt(A, g) ==
    \A h \in A : \/ Joined(A)[g] < Joined(A)[h]
                 \/ Joined(A)[g] = Joined(A)[h] /\ g <= h

\* builtinStrict: a weight unit is worth Tier of virtual time.
StrictScore(A, g) == Tier * (Unit \div cost[g]) - Joined(A)[g]

BestByWeight(A, g) ==
    \A h \in A : \/ StrictScore(A, g) > StrictScore(A, h)
                 \/ StrictScore(A, g) = StrictScore(A, h) /\ g <= h

\* Mutant: the served group is not charged.
Charged_Not(A, g, c) == Joined(A)

\* The served group's virtual time advances.
Charged(A, g, c) == [Joined(A) EXCEPT ![g] = @ + c]

\* What the waiting groups of A saw of a turn of g that virtual time gave it.
CountTurn(A, g) ==
    /\ passed' = [x \in Groups |-> [y \in Groups |->
          IF x = g THEN 0
          ELSE IF x \in A /\ y = g THEN passed[x][y] + 1 ELSE passed[x][y]]]
    /\ owed' = [x \in Groups |-> [y \in Groups |->
          IF x \in A /\ y = g /\ passed[x][y] = 0
          THEN Joined(A)[x] - Joined(A)[y] ELSE owed[x][y]]]

\* A turn some other ranking gave is not counted; it starts the count anew.
ForgetTurns(g) ==
    /\ passed' = [x \in Groups |-> [y \in Groups |->
          IF g \in {x, y} THEN 0 ELSE passed[x][y]]]
    /\ UNCHANGED owed

Serve(A, g, c) ==
    /\ Joined(A)[g] + c <= MaxVt
    /\ vt' = Charged(A, g, c)
    /\ UNCHANGED <<now, ready, cost, pol>>

Obeyed == pol # "none" /\ ~quarantined

\* No policy, a quarantined one, or one that ranks by virtual time.
PickByVt(A, g) ==
    /\ ~Obeyed \/ pol \in {"wfq", "completion_aware"}
    /\ BestByVt(A, g)
    /\ \E c \in IF Obeyed /\ pol = "completion_aware" THEN cost[g]..MaxCharge
                ELSE {cost[g]} : Serve(A, g, c)
    /\ CountTurn(A, g)
    /\ UNCHANGED <<faults, windowStart, quarantined, faultTimes>>

PickByPolicy(A, g) ==
    /\ Obeyed
    /\ \/ pol = "strict_priority" /\ BestByWeight(A, g)
       \/ pol = "at_will"
    /\ Serve(A, g, cost[g])
    /\ ForgetTurns(g)
    /\ UNCHANGED <<faults, windowStart, quarantined, faultTimes>>

\* Mutant: the count is never started anew.
WindowOver_Never == windowStart = 0

WindowOver == windowStart = 0 \/ now - windowStart > Window

\* recordFault.
RecordFault ==
    LET n == IF WindowOver THEN 1 ELSE faults + 1
    IN  /\ faults' = n
        /\ windowStart' = IF WindowOver THEN now ELSE windowStart
        /\ quarantined' = (quarantined \/ n >= Threshold)
        /\ faultTimes' = Append(faultTimes, now)

\* The policy faults: this pick falls back to virtual time.
PickFallback(A, g) ==
    /\ Obeyed /\ pol = "at_will"
    /\ BestByVt(A, g)
    /\ Serve(A, g, cost[g])
    /\ CountTurn(A, g)
    /\ RecordFault

-----------------------------------------------------------------------------
(* What goes on around the scheduler                                       *)

\* SetPolicy, and ClearPolicy for "none".
SetPolicy(k) ==
    /\ pol' = k /\ quarantined' = FALSE /\ faults' = 0
    /\ faultTimes' = << >>
    /\ UNCHANGED <<now, ready, cost, vt, windowStart, passed, owed>>

\* A group gets its first ready message, or is resumed.
Arrive(g) ==
    /\ g \notin ready
    /\ ready' = ready \cup {g}
    /\ UNCHANGED <<now, cost, lane, history>>

\* Its last ready message is leased, expires or is dropped, or it is paused.
Leave(g) ==
    /\ g \in ready
    /\ ready' = ready \ {g}
    /\ passed' = [passed EXCEPT ![g] = [h \in Groups |-> 0]]
    /\ UNCHANGED <<now, cost, lane, owed, faultTimes>>

\* SetGroupConfig, or the weight hint of a publish.
SetWeight(g, c) ==
    /\ cost[g] # c
    /\ cost' = [cost EXCEPT ![g] = c]
    /\ UNCHANGED <<now, ready, lane, history>>

Tick == now < Horizon /\ now' = now + 1 /\ UNCHANGED <<ready, cost, lane, history>>

-----------------------------------------------------------------------------
(* Specification                                                           *)

Init ==
    /\ now = 1 /\ ready = {}
    /\ cost \in [Groups -> Costs]
    /\ vt = [g \in Groups |-> Unknown]
    /\ pol = "none" /\ faults = 0 /\ windowStart = 0 /\ quarantined = FALSE
    /\ passed = [g \in Groups |-> [h \in Groups |-> 0]]
    /\ owed = [g \in Groups |-> [h \in Groups |-> 0]]
    /\ faultTimes = << >>

Next ==
    \/ Tick
    \/ \E g \in Groups :
          \/ Arrive(g) \/ Leave(g)
          \/ \E c \in Costs : SetWeight(g, c)
    \/ \E F \in Filters : \E g \in ready \cap F :
          \/ PickByVt(ready \cap F, g)
          \/ PickByPolicy(ready \cap F, g)
          \/ PickFallback(ready \cap F, g)
    \/ \E k \in Kinds \cup {"none"} : SetPolicy(k)

Spec == Init /\ [][Next]_vars

-----------------------------------------------------------------------------
(* Properties                                                              *)

\* Every variable keeps its type; a policy under quarantine has its reason.
TypeOK ==
    /\ now \in Nat \ {0} /\ ready \subseteq Groups
    /\ cost \in [Groups -> Costs]
    /\ vt \in [Groups -> Nat \cup {Unknown}]
    /\ pol \in Kinds \cup {"none"}
    /\ faults \in 0..Threshold /\ quarantined \in BOOLEAN
    /\ windowStart \in 0..now
    /\ passed \in [Groups -> [Groups -> Nat]]
    /\ owed \in [Groups -> [Groups -> Int]]
    /\ faultTimes \in Seq(Nat)

\* No group starves under virtual time: while g waits, another group takes no
\* more turns ahead of it than it was behind by, and one, whatever groups come
\* and go, weights change, consumers filter and policies are swapped or fault.
WaitBounded ==
    \A g, h \in Groups :
        passed[g][h] > 0 => passed[g][h] <= 1 + owed[g][h]

\* A policy is quarantined only for Threshold faults of its own inside one
\* window.
QuarantineJustified ==
    LET n == Len(faultTimes)
    IN  quarantined =>
            /\ n >= Threshold
            /\ faultTimes[n] - faultTimes[n - Threshold + 1] <= Window
=============================================================================
