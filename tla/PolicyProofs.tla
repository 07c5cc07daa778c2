---------------------------- MODULE PolicyProofs ----------------------------
(****************************************************************************)
(* Proofs about the scheduling side of a leader, the modules MCPolicy puts  *)
(* together.                                                                *)
(*                                                                          *)
(* Scheduler, for every set of groups, every weight, policy, filter,        *)
(* threshold and window:                                                    *)
(*   TypeCorrect           the lane state keeps its types                   *)
(*   NoGroupStarves        the bound on the turns taken ahead of a group    *)
(*   QuarantineIsEarned    a quarantine rests on faults inside one window   *)
(* PolicyInstall, for every number of operators, lease calls and failovers: *)
(*   InstallTypeCorrect    bindings and versions keep their types           *)
(*   NewLeaderPicksUpAlways what a leader, new or back again, installs      *)
(*   FairUnderInstallation the scheduler's guarantees survive a policy that *)
(*                         is replaced while it works                       *)
(* Observatory, for every ring, ribbon, lane, group and number of streams:  *)
(*   NoNudgeLost           a stream that lacks a served event emits again   *)
(*   CountsAreRolling      the rolling counts are those of the ring         *)
(****************************************************************************)
EXTENDS PolicyInstall, Observatory, TLAPS, WellFoundedInduction, FiniteSetTheorems

-----------------------------------------------------------------------------
(* Scheduler: the inductive invariants                                     *)

\* The breaker has not tripped while it counts less than the threshold.
BreakerOpen == ~quarantined => faults < Threshold

\* A group that passed another since it waits has caught up with what it was
\* behind by; the gap that is left pays for the turns still to come.
PassedPaid(g, h) ==
    passed[g][h] > 0 =>
        /\ Known(g) /\ Known(h)
        /\ vt[g] + passed[g][h] <= vt[h] + owed[g][h]
        /\ passed[g][h] <= 1 + owed[g][h]

TurnsPaid == \A g, h \in Groups : PassedPaid(g, h)

\* The faults counted are the last of the policy's, all of one window.
FaultsCounted ==
    /\ faults <= Len(faultTimes)
    /\ quarantined => faults >= Threshold
    /\ \A i \in 1..Len(faultTimes) :
          i > Len(faultTimes) - faults =>
              windowStart <= faultTimes[i] /\ faultTimes[i] <= windowStart + Window

-----------------------------------------------------------------------------
(* Joining and charging                                                    *)

\* A set of naturals that is not empty has a least element.
LEMMA LeastNatural ==
    ASSUME NEW T, T \subseteq Nat, T # {}
    PROVE  \E x \in T : \A y \in T : x <= y
<1>. DEFINE R == {ss \in Nat \X Nat : ss[1] < ss[2]}
<1>1. IsWellFoundedOn(R, Nat)
  BY NatLessThanWellFounded DEF OpToRel
<1>2. PICK x \in T : \A y \in T : ~(<<y, x>> \in R)
  <2>. HIDE DEF R
  <2>. QED  BY <1>1, WFMin
<1>3. ASSUME NEW y \in T PROVE x <= y
  <2>1. x \in Nat /\ y \in Nat
    OBVIOUS
  <2>2. ~(y < x)
    BY <1>2, <2>1
  <2>. QED  BY <2>1, <2>2
<1>. QED  BY <1>3

\* The least virtual time is a natural number.
LEMMA MinVtNat ==
    ASSUME TypeOK, NEW A \in SUBSET Groups
    PROVE  MinVt(A) \in Nat
<1>. DEFINE S == {g \in A : Known(g)}
<1>1. CASE S = {}
  BY <1>1 DEF MinVt
<1>2. CASE S # {}
  <2>. DEFINE T == {vt[g] : g \in S}
  <2>1. T \subseteq Nat
    BY DEF TypeOK, Known, Unknown
  <2>2. PICK x \in T : \A y \in T : x <= y
    <3>1. T # {}
      BY <1>2
    <3>. HIDE DEF T
    <3>. QED  BY <2>1, <3>1, LeastNatural
  <2>3. \E g \in S : \A h \in S : vt[g] <= vt[h]
    BY <2>2
  <2>. DEFINE m == CHOOSE g \in S : \A h \in S : vt[g] <= vt[h]
  <2>4. m \in S
    BY <2>3
  <2>5. MinVt(A) = vt[m]
    BY <1>2 DEF MinVt
  <2>. QED  BY <2>1, <2>4, <2>5
<1>. QED  BY <1>1, <1>2

\* Joining gives the active groups an entry and moves nobody else.
LEMMA JoinedVt ==
    ASSUME TypeOK, NEW A \in SUBSET Groups
    PROVE  /\ Joined(A) \in [Groups -> Nat \cup {Unknown}]
           /\ \A g \in A : Joined(A)[g] \in Nat
           /\ \A g \in Groups : Known(g) => Joined(A)[g] = vt[g]
BY MinVtNat DEF Joined, Known, TypeOK, Unknown

\* A serve advances the served group by at least one and no other group.
LEMMA ServeVt ==
    ASSUME TypeOK, NEW A \in SUBSET Groups, NEW g \in A, NEW c \in Nat \ {0},
           Serve(A, g, c)
    PROVE  /\ vt' \in [Groups -> Nat \cup {Unknown}]
           /\ vt'[g] = Joined(A)[g] + c
           /\ \A h \in Groups : h # g => vt'[h] = Joined(A)[h]
           /\ now' = now /\ ready' = ready /\ cost' = cost /\ pol' = pol
<1>. DEFINE J == Joined(A)
<1>1. J \in [Groups -> Nat \cup {Unknown}] /\ J[g] \in Nat /\ g \in Groups
  BY JoinedVt
<1>2. vt' = [J EXCEPT ![g] = J[g] + c]
  BY <1>1 DEF Serve, Charged
<1>3. J[g] + c \in Nat
  BY <1>1
<1>4. now' = now /\ ready' = ready /\ cost' = cost /\ pol' = pol
  BY DEF Serve
<1>. HIDE DEF J
<1>5. /\ vt' \in [Groups -> Nat \cup {Unknown}]
      /\ vt'[g] = J[g] + c
      /\ \A h \in Groups : h # g => vt'[h] = J[h]
  BY <1>1, <1>2, <1>3
<1>. QED  BY <1>4, <1>5 DEF J

\* What is charged is at least one.
LEMMA ChargePositive ==
    ASSUME TypeOK, NEW g \in Groups
    PROVE  cost[g] \in Nat \ {0} /\ cost[g]..MaxCharge \subseteq Nat \ {0}
<1>1. cost[g] \in 1..MaxCharge /\ MaxCharge \in Nat
  BY SchedulerAssumption DEF TypeOK
<1>. QED  BY <1>1

-----------------------------------------------------------------------------
(* Type correctness                                                        *)

\* The histories of a turn keep their types.
LEMMA TurnTypes ==
    ASSUME TypeOK, NEW A \in SUBSET Groups, NEW g \in A,
           CountTurn(A, g) \/ ForgetTurns(g)
    PROVE  /\ passed' \in [Groups -> [Groups -> Nat]]
           /\ owed' \in [Groups -> [Groups -> Int]]
<1>1. CASE CountTurn(A, g)
  <2>1. \A x \in A : Joined(A)[x] \in Int
    BY JoinedVt
  <2>2. \A x, y \in Groups : passed[x][y] \in Nat /\ owed[x][y] \in Int
    BY DEF TypeOK
  <2>3. passed' \in [Groups -> [Groups -> Nat]]
    BY <1>1, <2>2 DEF CountTurn
  <2>4. owed' \in [Groups -> [Groups -> Int]]
    BY <1>1, <2>1, <2>2 DEF CountTurn
  <2>. QED  BY <2>3, <2>4
<1>2. CASE ForgetTurns(g)
  BY <1>2 DEF ForgetTurns, TypeOK
<1>. QED  BY <1>1, <1>2

\* recordFault keeps the breaker's types and the relation of count and flag.
LEMMA FaultTypes ==
    ASSUME TypeOK, BreakerOpen, ~quarantined, RecordFault
    PROVE  /\ faults' \in 0..Threshold /\ quarantined' \in BOOLEAN
           /\ windowStart' \in 0..now /\ faultTimes' \in Seq(Nat)
           /\ ~quarantined' => faults' < Threshold
<1>1. Threshold \in Nat \ {0}
  BY SchedulerAssumption
<1>2. faultTimes' \in Seq(Nat)
  BY DEF RecordFault, TypeOK
<1>3. quarantined' \in BOOLEAN
  BY DEF RecordFault
<1>4. /\ faults' = IF WindowOver THEN 1 ELSE faults + 1
      /\ windowStart' \in {now, windowStart}
  BY DEF RecordFault
<1>5. quarantined' <=> faults' >= Threshold
  BY <1>4 DEF RecordFault
<1>6. faults \in Nat /\ faults < Threshold /\ windowStart \in 0..now /\ now \in Nat
  BY DEF TypeOK, BreakerOpen
<1>7. faults' \in 0..Threshold /\ windowStart' \in 0..now
  BY <1>1, <1>4, <1>6
<1>8. ~quarantined' => faults' < Threshold
  BY <1>1, <1>5, <1>7
<1>. QED  BY <1>2, <1>3, <1>7, <1>8

\* Every pick is a serve of at least one, a note of the turn, and at most a
\* fault of an installed policy that is not under quarantine.
LEMMA PickParts ==
    ASSUME TypeOK, NEW A \in SUBSET Groups, NEW g \in A,
           \/ PickByVt(A, g) \/ PickByPolicy(A, g) \/ PickFallback(A, g)
    PROVE  /\ \E c \in Nat \ {0} : Serve(A, g, c)
           /\ \/ BestByVt(A, g) /\ CountTurn(A, g)
              \/ ForgetTurns(g)
           /\ \/ UNCHANGED <<faults, windowStart, quarantined, faultTimes>>
              \/ ~quarantined /\ RecordFault
<1>. g \in Groups
  OBVIOUS
<1>1. CASE PickByVt(A, g)
  <2>1. PICK c \in IF Obeyed /\ pol = "completion_aware" THEN cost[g]..MaxCharge
                   ELSE {cost[g]} : Serve(A, g, c)
    BY <1>1 DEF PickByVt
  <2>2. c \in Nat \ {0}
    BY <2>1, ChargePositive
  <2>. QED  BY <1>1, <2>1, <2>2 DEF PickByVt
<1>2. CASE PickByPolicy(A, g)
  BY <1>2, ChargePositive DEF PickByPolicy
<1>3. CASE PickFallback(A, g)
  BY <1>3, ChargePositive DEF PickFallback, Obeyed
<1>. QED  BY <1>1, <1>2, <1>3

\* A pick keeps the types.
LEMMA PickTyped ==
    ASSUME TypeOK, BreakerOpen, NEW A \in SUBSET Groups, NEW g \in A,
           \/ PickByVt(A, g) \/ PickByPolicy(A, g) \/ PickFallback(A, g)
    PROVE  TypeOK' /\ BreakerOpen'
<1>1. PICK c \in Nat \ {0} : Serve(A, g, c)
  BY PickParts
<1>2. /\ vt' \in [Groups -> Nat \cup {Unknown}]
      /\ now' = now /\ ready' = ready /\ cost' = cost /\ pol' = pol
  BY <1>1, ServeVt
<1>3. /\ passed' \in [Groups -> [Groups -> Nat]]
      /\ owed' \in [Groups -> [Groups -> Int]]
  <2>1. CountTurn(A, g) \/ ForgetTurns(g)
    BY PickParts
  <2>. QED  BY <2>1, TurnTypes
<1>4. /\ faults' \in 0..Threshold /\ quarantined' \in BOOLEAN
      /\ windowStart' \in 0..now /\ faultTimes' \in Seq(Nat)
      /\ ~quarantined' => faults' < Threshold
  <2>1. CASE UNCHANGED <<faults, windowStart, quarantined, faultTimes>>
    BY <2>1 DEF TypeOK, BreakerOpen
  <2>2. CASE ~quarantined /\ RecordFault
    BY <2>2, FaultTypes
  <2>. QED  BY <2>1, <2>2, PickParts
<1>. QED  BY <1>2, <1>3, <1>4 DEF TypeOK, BreakerOpen, Unknown

\* Every step keeps the types and the breaker's relation.
LEMMA TypedStep == TypeOK /\ BreakerOpen /\ [Next]_vars => TypeOK' /\ BreakerOpen'
<1>. SUFFICES ASSUME TypeOK, BreakerOpen, [Next]_vars
              PROVE  TypeOK' /\ BreakerOpen'
  OBVIOUS
<1>0. Threshold \in Nat \ {0}
  BY SchedulerAssumption
<1>1. CASE Tick
  BY <1>1 DEF Tick, lane, history, TypeOK, BreakerOpen, Unknown
<1>2. ASSUME NEW g \in Groups, Arrive(g)
      PROVE  TypeOK' /\ BreakerOpen'
  BY <1>2 DEF Arrive, lane, history, TypeOK, BreakerOpen, Unknown
<1>3. ASSUME NEW g \in Groups, Leave(g)
      PROVE  TypeOK' /\ BreakerOpen'
  BY <1>3 DEF Leave, lane, TypeOK, BreakerOpen, Unknown
<1>4. ASSUME NEW g \in Groups, NEW c \in Costs, SetWeight(g, c)
      PROVE  TypeOK' /\ BreakerOpen'
  BY <1>4 DEF SetWeight, lane, history, TypeOK, BreakerOpen, Unknown
<1>5. ASSUME NEW k \in Kinds \cup {"none"}, SetPolicy(k)
      PROVE  TypeOK' /\ BreakerOpen'
  <2>1. faultTimes' \in Seq(Nat)
    BY <1>5 DEF SetPolicy
  <2>2. pol' \in Kinds \cup {"none"} /\ quarantined' \in BOOLEAN
    BY <1>5 DEF SetPolicy
  <2>3. faults' \in 0..Threshold /\ faults' < Threshold
    BY <1>0, <1>5 DEF SetPolicy
  <2>4. UNCHANGED <<now, ready, cost, vt, windowStart, passed, owed>>
    BY <1>5 DEF SetPolicy
  <2>. QED  BY <2>1, <2>2, <2>3, <2>4 DEF TypeOK, BreakerOpen, Unknown
<1>6. ASSUME NEW F \in Filters, NEW g \in ready \cap F,
             \/ PickByVt(ready \cap F, g) \/ PickByPolicy(ready \cap F, g)
             \/ PickFallback(ready \cap F, g)
      PROVE  TypeOK' /\ BreakerOpen'
  BY <1>6, PickTyped DEF TypeOK
<1>7. CASE UNCHANGED vars
  BY <1>7 DEF vars, lane, history, TypeOK, BreakerOpen, Unknown
<1>. QED  BY <1>1, <1>2, <1>3, <1>4, <1>5, <1>6, <1>7 DEF Next

\* The initial state is well typed.
LEMMA TypedInit == Init => TypeOK /\ BreakerOpen
<1>. SUFFICES ASSUME Init PROVE TypeOK /\ BreakerOpen
  OBVIOUS
<1>1. Threshold \in Nat \ {0}
  BY SchedulerAssumption
<1>2. faultTimes \in Seq(Nat)
  BY DEF Init
<1>3. pol \in Kinds \cup {"none"} /\ quarantined \in BOOLEAN
  BY DEF Init
<1>4. faults \in 0..Threshold /\ faults < Threshold
  BY <1>1 DEF Init
<1>5. /\ now \in Nat \ {0} /\ ready \subseteq Groups /\ windowStart \in 0..now
      /\ cost \in [Groups -> Costs] /\ vt \in [Groups -> Nat \cup {Unknown}]
      /\ passed \in [Groups -> [Groups -> Nat]]
      /\ owed \in [Groups -> [Groups -> Int]]
  BY DEF Init
<1>. QED  BY <1>2, <1>3, <1>4, <1>5 DEF TypeOK, BreakerOpen

\* The scheduler's lane state keeps its types, and the fault count stays within
\* the threshold: a quarantined policy is not evaluated, so it cannot fault.
THEOREM TypeCorrect == Spec => []TypeOK
BY TypedInit, TypedStep, PTL DEF Spec

-----------------------------------------------------------------------------
(* No group starves                                                        *)

\* A turn given by virtual time is paid for by the gap between the two.
LEMMA CountedTurnPaid ==
    ASSUME TypeOK, TurnsPaid, NEW A \in SUBSET Groups, NEW g \in A,
           NEW c \in Nat \ {0}, Serve(A, g, c), BestByVt(A, g), CountTurn(A, g)
    PROVE  TurnsPaid'
<1>. SUFFICES ASSUME NEW x \in Groups, NEW y \in Groups, passed'[x][y] > 0
              PROVE  /\ vt'[x] # Unknown /\ vt'[y] # Unknown
                     /\ vt'[x] + passed'[x][y] <= vt'[y] + owed'[x][y]
                     /\ passed'[x][y] <= 1 + owed'[x][y]
  BY DEF TurnsPaid, PassedPaid, Known
<1>. DEFINE J == Joined(A)
<1>1. /\ \A h \in A : J[h] \in Nat
      /\ \A h \in Groups : Known(h) => J[h] = vt[h] /\ vt[h] \in Nat
  BY JoinedVt DEF TypeOK, Known
<1>2. /\ vt'[g] = J[g] + c
      /\ \A h \in Groups : h # g => vt'[h] = J[h]
  BY ServeVt
<1>3. x # g
  BY DEF CountTurn
<1>4. passed[x][y] \in Nat /\ owed[x][y] \in Int
  BY DEF TypeOK
<1>5. passed[x][y] > 0 =>
          /\ Known(x) /\ Known(y)
          /\ vt[x] + passed[x][y] <= vt[y] + owed[x][y]
          /\ passed[x][y] <= 1 + owed[x][y]
  BY DEF TurnsPaid, PassedPaid
<1>6. CASE x \in A /\ y = g
  <2>1. passed'[x][y] = passed[x][y] + 1
    BY <1>3, <1>6 DEF CountTurn
  <2>2. J[g] <= J[x]
    BY <1>1, <1>6 DEF BestByVt
  <2>3. owed'[x][y] = IF passed[x][y] = 0 THEN J[x] - J[g] ELSE owed[x][y]
    BY <1>6 DEF CountTurn
  <2>. HIDE DEF J
  <2>. QED  BY <1>1, <1>2, <1>3, <1>4, <1>5, <1>6, <2>1, <2>2, <2>3 DEF Unknown
<1>7. CASE ~(x \in A /\ y = g)
  <2>1. passed'[x][y] = passed[x][y] /\ owed'[x][y] = owed[x][y]
    BY <1>3, <1>7 DEF CountTurn
  <2>. HIDE DEF J
  <2>. QED  BY <1>1, <1>2, <1>3, <1>4, <1>5, <2>1 DEF Unknown
<1>. QED  BY <1>6, <1>7

\* A turn given by another ranking starts the count of its pairs anew.
LEMMA ForgottenTurnPaid ==
    ASSUME TypeOK, TurnsPaid, NEW A \in SUBSET Groups, NEW g \in A,
           NEW c \in Nat \ {0}, Serve(A, g, c), ForgetTurns(g)
    PROVE  TurnsPaid'
<1>. SUFFICES ASSUME NEW x \in Groups, NEW y \in Groups, passed'[x][y] > 0
              PROVE  /\ vt'[x] # Unknown /\ vt'[y] # Unknown
                     /\ vt'[x] + passed'[x][y] <= vt'[y] + owed'[x][y]
                     /\ passed'[x][y] <= 1 + owed'[x][y]
  BY DEF TurnsPaid, PassedPaid, Known
<1>1. x # g /\ y # g /\ passed'[x][y] = passed[x][y] /\ owed'[x][y] = owed[x][y]
  BY DEF ForgetTurns
<1>2. PassedPaid(x, y)
  BY DEF TurnsPaid
<1>3. vt'[x] = vt[x] /\ vt'[y] = vt[y]
  <2>1. Known(x) /\ Known(y)
    BY <1>1, <1>2 DEF PassedPaid
  <2>2. \A h \in Groups : h # g => vt'[h] = Joined(A)[h]
    BY ServeVt
  <2>3. \A h \in Groups : Known(h) => Joined(A)[h] = vt[h]
    BY JoinedVt
  <2>. QED  BY <1>1, <2>1, <2>2, <2>3
<1>. QED  BY <1>1, <1>2, <1>3 DEF PassedPaid, Known

\* Every step keeps the turns paid for.
LEMMA PaidStep == TypeOK /\ TurnsPaid /\ [Next]_vars => TurnsPaid'
<1>. SUFFICES ASSUME TypeOK, TurnsPaid, [Next]_vars
              PROVE  TurnsPaid'
  OBVIOUS
<1>1. ASSUME UNCHANGED <<vt, passed, owed>>
      PROVE  TurnsPaid'
  BY <1>1 DEF TurnsPaid, PassedPaid, Known
<1>2. ASSUME NEW g \in Groups, Leave(g)
      PROVE  TurnsPaid'
  <2>. SUFFICES ASSUME NEW x \in Groups, NEW y \in Groups, passed'[x][y] > 0
                PROVE  PassedPaid(x, y)'
    BY DEF TurnsPaid, PassedPaid
  <2>1. x # g /\ passed'[x][y] = passed[x][y]
    BY <1>2 DEF Leave, TypeOK
  <2>2. PassedPaid(x, y)
    BY DEF TurnsPaid
  <2>. QED  BY <1>2, <2>1, <2>2 DEF Leave, lane, PassedPaid, Known
<1>3. ASSUME NEW F \in Filters, NEW g \in ready \cap F,
             \/ PickByVt(ready \cap F, g) \/ PickByPolicy(ready \cap F, g)
             \/ PickFallback(ready \cap F, g)
      PROVE  TurnsPaid'
  <2>. DEFINE A == ready \cap F
  <2>1. A \in SUBSET Groups /\ g \in A
    BY <1>3 DEF TypeOK
  <2>2. /\ \E c \in Nat \ {0} : Serve(A, g, c)
        /\ \/ BestByVt(A, g) /\ CountTurn(A, g)
           \/ ForgetTurns(g)
    <3>1. \/ PickByVt(A, g) \/ PickByPolicy(A, g) \/ PickFallback(A, g)
      BY <1>3
    <3>. HIDE DEF A
    <3>. QED  BY <2>1, <3>1, PickParts
  <2>. HIDE DEF A
  <2>. QED  BY <2>1, <2>2, CountedTurnPaid, ForgottenTurnPaid
<1>4. CASE Tick
  BY <1>1, <1>4 DEF Tick, lane, history
<1>5. ASSUME NEW g \in Groups, Arrive(g)
      PROVE  TurnsPaid'
  BY <1>1, <1>5 DEF Arrive, lane, history
<1>6. ASSUME NEW g \in Groups, NEW c \in Costs, SetWeight(g, c)
      PROVE  TurnsPaid'
  BY <1>1, <1>6 DEF SetWeight, lane, history
<1>7. ASSUME NEW k \in Kinds \cup {"none"}, SetPolicy(k)
      PROVE  TurnsPaid'
  BY <1>1, <1>7 DEF SetPolicy
<1>8. CASE UNCHANGED vars
  BY <1>1, <1>8 DEF vars, lane, history
<1>. QED  BY <1>2, <1>3, <1>4, <1>5, <1>6, <1>7, <1>8 DEF Next

\* No group starves under virtual time: the turns another group takes ahead of
\* a waiting one are bounded by what it was behind by at the first of them.
THEOREM NoGroupStarves == Spec => []WaitBounded
<1>1. Init => TurnsPaid
  BY DEF Init, TurnsPaid, PassedPaid
<1>2. TurnsPaid => WaitBounded
  BY DEF TurnsPaid, PassedPaid, WaitBounded
<1>. QED  BY TypeCorrect, PaidStep, <1>1, <1>2, PTL DEF Spec

-----------------------------------------------------------------------------
(* A quarantine is earned                                                  *)

\* recordFault counts the fault into the window it belongs to.
LEMMA FaultCounted ==
    ASSUME TypeOK, BreakerOpen, FaultsCounted, ~quarantined, RecordFault, now' = now
    PROVE  FaultsCounted'
<1>. DEFINE n == Len(faultTimes)
<1>1. /\ faultTimes \in Seq(Nat) /\ n \in Nat /\ now \in Nat
      /\ faults \in Nat /\ windowStart \in 0..now
      /\ Window \in Nat /\ Threshold \in Nat \ {0}
  BY SchedulerAssumption DEF TypeOK
<1>2. /\ Len(faultTimes') = n + 1
      /\ faultTimes'[n + 1] = now
      /\ \A i \in 1..n : faultTimes'[i] = faultTimes[i] /\ faultTimes[i] \in Nat
  BY <1>1 DEF RecordFault
<1>3. /\ faults' = IF WindowOver THEN 1 ELSE faults + 1
      /\ windowStart' = IF WindowOver THEN now ELSE windowStart
      /\ ~WindowOver => now <= windowStart + Window
  BY <1>1 DEF RecordFault, WindowOver
<1>4. quarantined' => faults' >= Threshold
  BY DEF RecordFault
<1>5. faults <= n
  BY DEF FaultsCounted
<1>6. ASSUME NEW i \in 1..n, i > n - faults
      PROVE  windowStart <= faultTimes[i] /\ faultTimes[i] <= windowStart + Window
  BY <1>6 DEF FaultsCounted
<1>7. faults' <= n + 1
  BY <1>1, <1>3, <1>5
<1>8. ASSUME NEW i \in 1..(n + 1), i > n + 1 - faults'
      PROVE  /\ windowStart' <= faultTimes'[i]
             /\ faultTimes'[i] <= windowStart' + Window
  <2>1. CASE i = n + 1
    BY <1>1, <1>2, <1>3, <2>1
  <2>2. CASE i # n + 1
    <3>1. ~WindowOver /\ i \in 1..n /\ i > n - faults
      BY <1>1, <1>3, <1>8, <2>2
    <3>. QED  BY <1>2, <1>3, <1>6, <3>1
  <2>. QED  BY <2>1, <2>2
<1>9. \A i \in 1..Len(faultTimes') :
         i > Len(faultTimes') - faults' =>
             windowStart' <= faultTimes'[i] /\ faultTimes'[i] <= windowStart' + Window
  <2>. SUFFICES ASSUME NEW i \in 1..Len(faultTimes'), i > Len(faultTimes') - faults'
                PROVE  /\ windowStart' <= faultTimes'[i]
                       /\ faultTimes'[i] <= windowStart' + Window
    OBVIOUS
  <2>1. n \in Nat /\ faults' \in Nat
    BY <1>1, <1>3
  <2>2. i \in 1..(n + 1) /\ i > n + 1 - faults'
    BY <1>2, <2>1
  <2>. HIDE DEF n
  <2>. QED  BY <1>8, <2>2
<1>. QED  BY <1>2, <1>4, <1>7, <1>9 DEF FaultsCounted

\* Every step keeps the count right.
LEMMA CountedStep ==
    TypeOK /\ BreakerOpen /\ FaultsCounted /\ [Next]_vars => FaultsCounted'
<1>. SUFFICES ASSUME TypeOK, BreakerOpen, FaultsCounted, [Next]_vars
              PROVE  FaultsCounted'
  OBVIOUS
<1>1. ASSUME UNCHANGED <<faults, windowStart, quarantined, faultTimes>>
      PROVE  FaultsCounted'
  BY <1>1 DEF FaultsCounted
<1>2. ASSUME NEW k \in Kinds \cup {"none"}, SetPolicy(k)
      PROVE  FaultsCounted'
  <2>1. faults' = 0 /\ quarantined' = FALSE /\ Len(faultTimes') = 0
    BY <1>2 DEF SetPolicy
  <2>. QED  BY <2>1 DEF FaultsCounted
<1>3. ASSUME NEW F \in Filters, NEW g \in ready \cap F,
             \/ PickByVt(ready \cap F, g) \/ PickByPolicy(ready \cap F, g)
             \/ PickFallback(ready \cap F, g)
      PROVE  FaultsCounted'
  <2>. DEFINE A == ready \cap F
  <2>1. A \in SUBSET Groups /\ g \in A
    BY <1>3 DEF TypeOK
  <2>2. /\ \E c \in Nat \ {0} : Serve(A, g, c)
        /\ \/ UNCHANGED <<faults, windowStart, quarantined, faultTimes>>
           \/ ~quarantined /\ RecordFault
    <3>1. \/ PickByVt(A, g) \/ PickByPolicy(A, g) \/ PickFallback(A, g)
      BY <1>3
    <3>. HIDE DEF A
    <3>. QED  BY <2>1, <3>1, PickParts
  <2>3. now' = now
    BY <2>2 DEF Serve
  <2>. QED  BY <1>1, <2>2, <2>3, FaultCounted
<1>4. CASE Tick
  BY <1>1, <1>4 DEF Tick, lane, history
<1>5. ASSUME NEW g \in Groups, Arrive(g) \/ Leave(g)
      PROVE  FaultsCounted'
  BY <1>1, <1>5 DEF Arrive, Leave, lane, history
<1>6. ASSUME NEW g \in Groups, NEW c \in Costs, SetWeight(g, c)
      PROVE  FaultsCounted'
  BY <1>1, <1>6 DEF SetWeight, lane, history
<1>7. CASE UNCHANGED vars
  BY <1>1, <1>7 DEF vars, lane, history
<1>. QED  BY <1>2, <1>3, <1>4, <1>5, <1>6, <1>7 DEF Next

\* Faults that are counted right justify a quarantine.
LEMMA CountedJustifies == TypeOK /\ FaultsCounted => QuarantineJustified
<1>. SUFFICES ASSUME TypeOK, FaultsCounted, quarantined
              PROVE  /\ Len(faultTimes) >= Threshold
                     /\ faultTimes[Len(faultTimes)]
                          - faultTimes[Len(faultTimes) - Threshold + 1] <= Window
  BY DEF QuarantineJustified
<1>. DEFINE n == Len(faultTimes)  m == n - Threshold + 1
<1>1. /\ Threshold \in Nat \ {0} /\ Window \in Nat /\ n \in Nat
      /\ faults \in Nat /\ windowStart \in Nat
  BY SchedulerAssumption DEF TypeOK
<1>2. faults <= n /\ faults >= Threshold
  BY DEF FaultsCounted
<1>3. n \in 1..n /\ m \in 1..n /\ n > n - faults /\ m > n - faults
  BY <1>1, <1>2
<1>4. faultTimes[n] \in Nat /\ faultTimes[m] \in Nat
  BY <1>3 DEF TypeOK
<1>5. windowStart <= faultTimes[m] /\ faultTimes[n] <= windowStart + Window
  BY <1>3 DEF FaultsCounted
<1>. QED  BY <1>1, <1>2, <1>4, <1>5

\* A policy is quarantined only for Threshold faults of its own inside one
\* window.
THEOREM QuarantineIsEarned == Spec => []QuarantineJustified
<1>1. Init => FaultsCounted
  BY DEF Init, FaultsCounted
<1>2. TypeOK /\ FaultsCounted => QuarantineJustified
  BY CountedJustifies
<1>3. Spec => [](TypeOK /\ BreakerOpen)
  BY TypedInit, TypedStep, PTL DEF Spec
<1>. QED  BY <1>1, <1>2, <1>3, CountedStep, PTL DEF Spec

-----------------------------------------------------------------------------
(* PolicyInstall: what each step of a call leaves in order                 *)

\* A binding is the sentinel or a log entry; so is a version with a policy.
InLog(b)    == b = NoBinding \/ \E i \in 1..Len(log) : log[i] = b
Named(v, k) == \E b \in Binding \cup {NoBinding} : InLog(b) /\ b.version = v /\ b.kind = k

\* What a SetPolicy that got past its read carries is a binding, and once it is
\* applied the log has it; a lease call has read what the log has.
CallsOK ==
    /\ \A o \in Operators : /\ setter[o].at # "idle" => setter[o].new \in Binding
                            /\ setter[o].at \in {"applied", "installed"} => InLog(setter[o].new)
    /\ \A l \in Leasers : InLog(leaser[l].raw)

\* Types, but for what the other nodes keep in memory.
Bound ==
    /\ leader \in Nodes /\ log \in Seq(Binding)
    /\ applied \in [Nodes -> Nat] /\ \A n \in Nodes : applied[n] <= Len(log)
    /\ loaded \in 0..MaxVersion
    /\ setter \in [Operators -> SetCall] /\ leaser \in [Leasers -> LeaseCall]
    /\ calm \in BOOLEAN /\ torn \subseteq Nodes
    /\ CallsOK

\* The lane state a node keeps at time t is one a scheduler can go on from.
SoundMemory(m, t) ==
    /\ m \in Memory /\ m.windowStart <= t
    /\ ~m.quarantined => m.faults < Threshold
    /\ m.faults <= Len(m.faultTimes)
    /\ m.quarantined => m.faults >= Threshold
    /\ \A i \in 1..Len(m.faultTimes) :
          i > Len(m.faultTimes) - m.faults =>
              m.windowStart <= m.faultTimes[i] /\ m.faultTimes[i] <= m.windowStart + Window

MemoryOK ==
    /\ memory = [n \in Nodes \ {leader} |-> memory[n]]
    /\ \A n \in Nodes \ {leader} : SoundMemory(memory[n], now)

\* The policy and the recorded version of a node, leader or not.
PolOn(n)    == IF n = leader THEN pol ELSE memory[n].pol
LoadedOn(n) == IF n = leader THEN loaded ELSE memory[n].loaded

\* A SetPolicy has installed its binding on a node and has yet to record it.
Unrecorded(o, n) == setter[o].on = n /\ setter[o].at = "installed"

\* On a node whose last install tore no other call's, every install that is not
\* recorded is of the policy in force, and if there is none the recorded version
\* is that policy's.
RecordOn(n) ==
    n \notin torn =>
        /\ \A o \in Operators : Unrecorded(o, n) => setter[o].new.kind = PolOn(n)
        /\ (\A o \in Operators : ~Unrecorded(o, n)) => Named(LoadedOn(n), PolOn(n))

RecordOK == \A n \in Nodes : RecordOn(n)

\* On a leader under which no binding has moved: no SetPolicy is on its way,
\* every lease call has read the stored binding, and once one is through
\* ensurePolicy the stored version is the recorded one.
CalmOK ==
    calm => /\ \A o \in Operators : setter[o].on # leader
            /\ \A l \in Leasers : leaser[l].on = leader => leaser[l].raw = stored
            /\ \A l \in Leasers : Here(leaser[l], "ensured") => loaded = stored.version

-----------------------------------------------------------------------------
(* Bindings and the log                                                    *)

\* The sentinel is no binding, and what a binding holds.
LEMMA NoBindingFresh ==
    /\ NoBinding \notin Binding /\ NoBinding.version = 0 /\ NoBinding.kind = "none"
    /\ \A b \in Binding : b.version \in 1..MaxVersion /\ b.kind \in Kinds /\ b.version # 0
    /\ \A b \in Binding \cup {NoBinding} :
          b.version \in 0..MaxVersion /\ b.kind \in Kinds \cup {"none"}
BY InstallAssumption DEF NoBinding, Binding

\* The stored binding is the sentinel or a log entry.
LEMMA StoredInLog ==
    ASSUME Bound
    PROVE  stored \in Binding \cup {NoBinding} /\ InLog(stored)
<1>1. applied[leader] \in Nat /\ applied[leader] <= Len(log)
  BY DEF Bound
<1>2. CASE applied[leader] = 0
  BY <1>2 DEF stored, InLog
<1>3. CASE applied[leader] # 0
  <2>1. applied[leader] \in 1..Len(log) /\ log \in Seq(Binding)
    BY <1>1, <1>3 DEF Bound
  <2>. QED  BY <1>3, <2>1 DEF stored, InLog
<1>. QED  BY <1>2, <1>3

\* The log as it was is a prefix of the log as it is.
Longer ==
    /\ log' \in Seq(Binding) /\ Len(log) <= Len(log')
    /\ \A i \in 1..Len(log) : log'[i] = log[i]

\* An entry goes to the end of the log.
LEMMA LongerByOne ==
    ASSUME Bound, NEW b \in Binding, log' = Append(log, b)
    PROVE  Longer /\ Len(log') = Len(log) + 1 /\ InLog(b)'
<1>1. /\ log \in Seq(Binding) /\ Append(log, b) \in Seq(Binding)
      /\ Len(Append(log, b)) = Len(log) + 1 /\ Len(log) \in Nat
      /\ Append(log, b)[Len(log) + 1] = b
      /\ \A i \in 1..Len(log) : Append(log, b)[i] = log[i]
  BY DEF Bound
<1>2. Len(log) + 1 \in 1..(Len(log) + 1)
  BY <1>1
<1>. QED  BY <1>1, <1>2 DEF Longer, InLog

\* What waits for an answer when the lead moves may go to the end of the log.
LEMMA LongerAfterFailover ==
    ASSUME Bound, NEW n, NEW restarted, Failover(n, restarted)
    PROVE  Longer
<1>1. PICK s \in Survivors : log' = log \o [i \in DOMAIN s |-> setter[s[i]].new]
  BY DEF Failover
<1>2. PICK k \in Nat : s \in [1..k -> Proposed]
  BY <1>1 DEF Survivors
<1>. DEFINE e == [i \in 1..k |-> setter[s[i]].new]
<1>3. e \in Seq(Binding)
  <2>1. \A i \in 1..k : setter[s[i]].new \in Binding
    <3>. SUFFICES ASSUME NEW i \in 1..k PROVE setter[s[i]].new \in Binding
      OBVIOUS
    <3>1. s[i] \in Operators /\ setter[s[i]].at = "read"
      BY <1>2 DEF Proposed, Here
    <3>. QED  BY <3>1 DEF Bound, CallsOK
  <2>. QED  BY <2>1
<1>4. log' = log \o e
  BY <1>1, <1>2
<1>. HIDE DEF e
<1>5. log \in Seq(Binding)
  BY DEF Bound
<1>. QED  BY <1>3, <1>4, <1>5 DEF Longer

\* Every step leaves the log longer or as it is.
LEMMA LogStep == Bound /\ [InstallNext]_installVars => Longer
<1>. SUFFICES ASSUME Bound, [InstallNext]_installVars PROVE Longer
  OBVIOUS
<1>1. CASE log' = log
  BY <1>1 DEF Longer, Bound
<1>2. ASSUME NEW o \in Operators, SetCommit(o) \/ SetFails(o), log' # log PROVE Longer
  <2>1. setter[o].new \in Binding
    BY <1>2 DEF SetCommit, SetFails, Here, Bound, CallsOK
  <2>2. log' = Append(log, setter[o].new)
    BY <1>2 DEF SetCommit, SetFails
  <2>. QED  BY <2>1, <2>2, LongerByOne
<1>3. ASSUME NEW n \in Nodes, NEW r \in BOOLEAN, Failover(n, r) PROVE Longer
  BY <1>3, LongerAfterFailover
<1>4. ASSUME NEW o \in Operators,
             (\E k \in Kinds \cup BadKinds : SetBegin(o, k)) \/ SetInstall(o) \/ SetRecord(o)
      PROVE  log' = log
  BY <1>4 DEF SetBegin, SetInstall, SetRecord
<1>5. ASSUME NEW l \in Leasers,
             \/ EnsureRead(l) \/ EnsureInstall(l) \/ EnsureLoaded(l)
             \/ LeasePick(l) \/ LeaseNone(l)
      PROVE  log' = log
  BY <1>5 DEF EnsureRead, EnsureInstall, EnsureLoaded, LeasePick, LeaseNone
<1>6. ASSUME NEW n \in Nodes, ApplyEntry(n) PROVE log' = log
  BY <1>6 DEF ApplyEntry
<1>7. ASSUME UNCHANGED install PROVE log' = log
  BY <1>7 DEF install
<1>. QED  BY <1>1, <1>2, <1>3, <1>4, <1>5, <1>6, <1>7 DEF InstallNext, installVars

\* What the log has it keeps.
LEMMA LogKeeps ==
    ASSUME Bound, Longer
    PROVE  /\ \A b : InLog(b) => InLog(b)'
           /\ \A v, k : Named(v, k) => Named(v, k)'
<1>1. Len(log) \in Nat /\ Len(log') \in Nat
  BY DEF Bound, Longer
<1>2. \A i \in 1..Len(log) : i \in 1..Len(log')
  BY <1>1 DEF Longer
<1>3. ASSUME NEW b, InLog(b) PROVE InLog(b)'
  BY <1>2, <1>3 DEF InLog, Longer
<1>. QED  BY <1>3 DEF Named

-----------------------------------------------------------------------------
(* Types                                                                   *)

\* The bindings are in order at the start.
LEMMA BoundInit == InstallInit => Bound
<1>. SUFFICES ASSUME InstallInit PROVE Bound
  OBVIOUS
<1>1. calm \in BOOLEAN
  BY Zenon DEF InstallInit
<1>2. SetterIdle \in SetCall /\ LeaserIdle \in LeaseCall
  BY DEF SetterIdle, LeaserIdle, SetCall, LeaseCall
<1>3. /\ setter \in [Operators -> SetCall] /\ leaser \in [Leasers -> LeaseCall]
      /\ \A o \in Operators : setter[o] = SetterIdle
      /\ \A l \in Leasers : leaser[l] = LeaserIdle
  BY <1>2 DEF InstallInit
<1>4. CallsOK
  BY <1>3 DEF CallsOK, SetterIdle, LeaserIdle, InLog
<1>5. /\ leader \in Nodes /\ log \in Seq(Binding) /\ Len(log) = 0 /\ loaded \in 0..MaxVersion
      /\ applied \in [Nodes -> Nat] /\ \A n \in Nodes : applied[n] = 0
      /\ torn \subseteq Nodes
  BY InstallAssumption DEF InstallInit
<1>. QED  BY <1>1, <1>3, <1>4, <1>5 DEF Bound

\* What a SetPolicy call does to its own state.
LEMMA SetterStep ==
    ASSUME Bound, Longer, NEW o \in Operators, NEW s, setter' = [setter EXCEPT ![o] = s],
           s \in SetCall, s.at # "idle" => s.new \in Binding,
           s.at \in {"applied", "installed"} => InLog(s.new)',
           leaser' = leaser
    PROVE  /\ CallsOK' /\ setter' \in [Operators -> SetCall]
           /\ setter'[o] = s /\ \A x \in Operators \ {o} : setter'[x] = setter[x]
<1>1. /\ setter' \in [Operators -> SetCall]
      /\ setter'[o] = s /\ \A x \in Operators \ {o} : setter'[x] = setter[x]
  BY DEF Bound
<1>2. \A b : InLog(b) => InLog(b)'
  BY LogKeeps
<1>3. ASSUME NEW x \in Operators
      PROVE  /\ setter'[x].at # "idle" => setter'[x].new \in Binding
             /\ setter'[x].at \in {"applied", "installed"} => InLog(setter[x].new)'
  <2>1. CASE x = o
    BY <1>1, <2>1
  <2>2. CASE x # o
    <3>1. setter'[x] = setter[x]
      BY <1>1, <2>2
    <3>2. /\ setter[x].at # "idle" => setter[x].new \in Binding
          /\ setter[x].at \in {"applied", "installed"} => InLog(setter[x].new)
      BY DEF Bound, CallsOK
    <3>. QED  BY <1>2, <3>1, <3>2
  <2>. QED  BY <2>1, <2>2
<1>. QED  BY <1>1, <1>2, <1>3 DEF CallsOK, Bound

\* SetPolicy, step by step.
LEMMA BoundSet ==
    ASSUME Bound, Longer, NEW o \in Operators,
           \/ \E k \in Kinds \cup BadKinds : SetBegin(o, k)
           \/ SetCommit(o) \/ SetFails(o) \/ SetInstall(o) \/ SetRecord(o)
    PROVE  Bound'
<1>0. /\ setter[o] \in SetCall /\ UNCHANGED <<leader, leaser>>
      /\ leader \in Nodes /\ Len(log) \in Nat /\ Len(log') \in Nat /\ Len(log) <= Len(log')
  BY DEF Bound, SetBegin, SetCommit, SetFails, SetInstall, SetRecord, Longer
<1>1. ASSUME NEW k \in Kinds \cup BadKinds, SetBegin(o, k) PROVE Bound'
  <2>1. k \in Kinds
    BY <1>1 DEF SetBegin, Validate
  <2>2. stored.version + 1 \in 1..MaxVersion
    BY <1>1, StoredInLog, NoBindingFresh, InstallAssumption DEF SetBegin
  <2>. DEFINE v == stored.version + 1
              s == [at |-> "read", on |-> leader, new |-> [kind |-> k, version |-> v]]
  <2>3. setter' = [setter EXCEPT ![o] = s]
    BY <1>1 DEF SetBegin
  <2>. HIDE DEF v
  <2>4. [kind |-> k, version |-> v] \in Binding
    BY <2>1, <2>2 DEF Binding, v
  <2>5. s \in SetCall /\ s.at = "read" /\ s.new \in Binding
    BY <1>0, <2>4 DEF SetCall
  <2>6. calm' \in BOOLEAN
    BY <1>1, Zenon DEF SetBegin
  <2>. HIDE DEF s
  <2>7. CallsOK' /\ setter' \in [Operators -> SetCall]
    BY <1>0, <2>3, <2>5, SetterStep
  <2>. QED  BY <1>0, <1>1, <2>6, <2>7 DEF SetBegin, Bound
<1>2. CASE SetCommit(o) \/ SetInstall(o)
  <2>1. PICK a \in {"applied", "installed"} : setter' = [setter EXCEPT ![o].at = a]
    BY <1>2 DEF SetCommit, SetInstall
  <2>2. setter[o].new \in Binding
    BY <1>2 DEF SetCommit, SetInstall, Here, Bound, CallsOK
  <2>3. PICK s \in SetCall : s = [setter[o] EXCEPT !.at = a]
    BY <1>0, <2>1 DEF SetCall
  <2>4. setter' = [setter EXCEPT ![o] = s] /\ s.new = setter[o].new
    BY <1>0, <2>1, <2>3 DEF SetCall
  <2>5. InLog(s.new)'
    <3>1. CASE SetCommit(o)
      BY <2>2, <2>4, <3>1, LongerByOne DEF SetCommit
    <3>2. CASE SetInstall(o)
      <4>1. InLog(s.new)
        BY <2>4, <3>2 DEF SetInstall, Here, Bound, CallsOK
      <4>. QED  BY <4>1, LogKeeps
    <3>. QED  BY <1>2, <3>1, <3>2
  <2>6. CallsOK' /\ setter' \in [Operators -> SetCall]
    BY <1>0, <2>2, <2>4, <2>5, SetterStep
  <2>7. UNCHANGED <<loaded, calm>> /\ torn' \subseteq Nodes
    BY <1>0, <1>2 DEF SetCommit, SetInstall, Install, Bound
  <2>8. applied' \in [Nodes -> Nat] /\ \A n \in Nodes : applied'[n] <= Len(log')
    <3>1. CASE SetCommit(o)
      <4>1. Len(log') = Len(log) + 1
        BY <2>2, <3>1, LongerByOne DEF SetCommit
      <4>. QED  BY <1>0, <3>1, <4>1 DEF SetCommit, Bound
    <3>2. CASE SetInstall(o)
      BY <3>2 DEF SetInstall, Bound
    <3>. QED  BY <1>2, <3>1, <3>2
  <2>. QED  BY <1>0, <2>6, <2>7, <2>8 DEF Bound, Longer
<1>3. CASE SetFails(o) \/ SetRecord(o)
  <2>1. setter' = [setter EXCEPT ![o] = SetterIdle]
    BY <1>3 DEF SetFails, SetRecord
  <2>2. SetterIdle \in SetCall /\ SetterIdle.at = "idle"
    BY DEF SetterIdle, SetCall
  <2>3. CallsOK' /\ setter' \in [Operators -> SetCall]
    BY <1>0, <2>1, <2>2, SetterStep
  <2>4. setter[o].new \in Binding
    BY <1>3 DEF SetFails, SetRecord, Here, Bound, CallsOK
  <2>5. UNCHANGED <<applied, calm, torn>> /\ loaded' \in 0..MaxVersion
    BY <1>3, <2>4, NoBindingFresh DEF SetFails, SetRecord, Bound
  <2>6. \A n \in Nodes : applied[n] \in Nat /\ applied[n] <= Len(log')
    BY <1>0 DEF Bound
  <2>. QED  BY <1>0, <2>3, <2>5, <2>6 DEF Bound, Longer
<1>. QED  BY <1>1, <1>2, <1>3

\* A lease call, step by step.
LEMMA BoundLease ==
    ASSUME Bound, NEW l \in Leasers,
           \/ EnsureRead(l) \/ EnsureInstall(l) \/ EnsureLoaded(l)
           \/ LeasePick(l) \/ LeaseNone(l)
    PROVE  Bound'
<1>1. UNCHANGED <<leader, log, applied, setter, calm>> /\ torn' \subseteq Nodes
  BY DEF EnsureRead, EnsureInstall, EnsureLoaded, LeasePick, LeaseNone, Install, Bound
<1>2. leaser \in [Leasers -> LeaseCall] /\ leaser[l] \in LeaseCall
  BY DEF Bound
<1>3. \E s \in LeaseCall : leaser' = [leaser EXCEPT ![l] = s] /\ InLog(s.raw)
  <2>1. CASE EnsureRead(l)
    <3>1. [at |-> "read", on |-> leader, raw |-> stored] \in LeaseCall
      BY StoredInLog DEF Bound, LeaseCall
    <3>. QED  BY <2>1, <3>1, StoredInLog DEF EnsureRead
  <2>2. CASE EnsureInstall(l) \/ EnsureLoaded(l)
    <3>1. /\ [leaser[l] EXCEPT !.at = "ensured"] \in LeaseCall
          /\ [leaser[l] EXCEPT !.at = "ensured"].raw = leaser[l].raw
      BY <1>2 DEF LeaseCall
    <3>. QED  BY <2>2, <3>1 DEF EnsureInstall, EnsureLoaded, Bound, CallsOK
  <2>3. CASE LeasePick(l) \/ LeaseNone(l)
    <3>1. LeaserIdle \in LeaseCall /\ InLog(LeaserIdle.raw)
      BY DEF LeaserIdle, LeaseCall, InLog
    <3>. QED  BY <2>3, <3>1 DEF LeasePick, LeaseNone
  <2>. QED  BY <2>1, <2>2, <2>3
<1>4. leaser' \in [Leasers -> LeaseCall] /\ \A x \in Leasers : InLog(leaser'[x].raw)
  BY <1>2, <1>3 DEF Bound, CallsOK
<1>5. loaded' \in 0..MaxVersion
  <2>1. leaser[l].raw.version \in 0..MaxVersion
    BY <1>2, NoBindingFresh DEF LeaseCall
  <2>. QED  BY <2>1 DEF EnsureRead, EnsureInstall, EnsureLoaded, LeasePick, LeaseNone, Bound
<1>6. CallsOK'
  BY <1>1, <1>4 DEF CallsOK, Bound, InLog
<1>. QED  BY <1>1, <1>4, <1>5, <1>6 DEF Bound

\* A node applies an entry.
LEMMA BoundApply ==
    ASSUME Bound, NEW n \in Nodes, ApplyEntry(n)
    PROVE  Bound'
<1>1. calm' \in BOOLEAN
  BY Zenon DEF ApplyEntry
<1>2. applied[n] \in Nat /\ applied[n] < Len(log) /\ Len(log) \in Nat
  BY DEF Bound, ApplyEntry
<1>3. applied' \in [Nodes -> Nat] /\ \A x \in Nodes : applied'[x] <= Len(log)
  BY <1>2 DEF Bound, ApplyEntry
<1>. QED  BY <1>1, <1>3 DEF Bound, ApplyEntry, CallsOK, InLog

\* What the next leader takes over with.
Kept(n)        == IF n = leader THEN Current ELSE memory[n]
Taken(n, r)    == IF r THEN Opened ELSE Kept(n)

\* A failover keeps the bindings in order.
LEMMA BoundFailover ==
    ASSUME Bound, Longer, NEW n \in Nodes, NEW r \in BOOLEAN, Failover(n, r),
           Taken(n, r) \in Memory
    PROVE  Bound'
<1>1. leader' = n /\ applied' = applied
  BY DEF Failover
<1>2. calm' \in BOOLEAN
  BY Zenon DEF Failover
<1>3. loaded' = Taken(n, r).loaded
  BY DEF Failover, Taken, Kept
<1>4. loaded' \in 0..MaxVersion
  BY <1>3 DEF Memory
<1>5. SetterIdle \in SetCall /\ LeaserIdle \in LeaseCall
  BY DEF SetterIdle, LeaserIdle, SetCall, LeaseCall
<1>6. /\ \A o \in Operators : setter'[o] \in {setter[o], SetterIdle}
      /\ \A l \in Leasers : leaser'[l] \in {leaser[l], LeaserIdle}
      /\ setter' \in [Operators -> SetCall] /\ leaser' \in [Leasers -> LeaseCall]
  BY <1>5 DEF Failover, Bound
<1>7. CallsOK'
  <2>1. \A b : InLog(b) => InLog(b)'
    BY LogKeeps
  <2>2. SetterIdle.at = "idle" /\ InLog(LeaserIdle.raw)
    BY DEF SetterIdle, LeaserIdle, InLog
  <2>. QED  BY <1>6, <2>1, <2>2 DEF CallsOK, Bound
<1>8. \A x \in Nodes : applied[x] \in Nat /\ applied[x] <= Len(log')
  BY DEF Bound, Longer
<1>9. torn' \subseteq Nodes
  BY DEF Failover, Bound
<1>. QED  BY <1>1, <1>2, <1>4, <1>6, <1>7, <1>8, <1>9 DEF Bound, Longer

-----------------------------------------------------------------------------
(* What nodes keep of their schedulers                                     *)

\* The memory of Open, and the leader's, are such as a scheduler can go on from.
LEMMA OpenedSound == \A t \in Nat : SoundMemory(Opened, t)
<1>1. Threshold \in Nat \ {0} /\ MaxVersion \in Nat
  BY SchedulerAssumption, InstallAssumption
<1>2. FALSE \in BOOLEAN /\ << >> \in Seq(Nat) /\ Len(<< >>) = 0
  OBVIOUS
<1>3. Opened \in Memory
  BY <1>1, <1>2 DEF Opened, Memory
<1>4. /\ Opened.windowStart = 0 /\ Opened.faults = 0 /\ Opened.faultTimes = << >>
      /\ Opened.quarantined = FALSE
  BY DEF Opened
<1>. QED  BY <1>1, <1>2, <1>3, <1>4 DEF SoundMemory

\* The same of the leader's.
LEMMA CurrentSound ==
    ASSUME TypeOK, BreakerOpen, FaultsCounted, Bound
    PROVE  SoundMemory(Current, now)
<1>1. /\ Current.vt = vt /\ Current.pol = pol /\ Current.faults = faults
      /\ Current.windowStart = windowStart /\ Current.quarantined = quarantined
      /\ Current.faultTimes = faultTimes /\ Current.loaded = loaded
  BY DEF Current
<1>2. Current \in Memory
  BY DEF Current, Memory, TypeOK, Bound
<1>3. windowStart <= now
  BY DEF TypeOK
<1>. HIDE DEF Current
<1>. QED  BY <1>1, <1>2, <1>3 DEF SoundMemory, BreakerOpen, FaultsCounted

\* Whatever the next leader takes over with, it can go on from.
LEMMA TakenSound ==
    ASSUME TypeOK, BreakerOpen, FaultsCounted, Bound, MemoryOK,
           NEW n \in Nodes, NEW r \in BOOLEAN
    PROVE  SoundMemory(Taken(n, r), now) /\ SoundMemory(Kept(n), now)
<1>1. SoundMemory(Opened, now)
  BY OpenedSound DEF TypeOK
<1>2. SoundMemory(Kept(n), now)
  BY CurrentSound DEF Kept, MemoryOK
<1>. QED  BY <1>1, <1>2 DEF Taken

\* Every step is one of the scheduler's, or a failover.
LEMMA SchedulerSteps ==
    Bound /\ [InstallNext]_installVars =>
        [Next]_vars \/ \E n \in Nodes, r \in BOOLEAN : Failover(n, r)
<1>. SUFFICES ASSUME Bound, [InstallNext]_installVars
              PROVE  [Next]_vars \/ \E n \in Nodes, r \in BOOLEAN : Failover(n, r)
  OBVIOUS
<1>1. ASSUME NEW o \in Operators, SetInstall(o) PROVE Next
  <2>1. setter[o].new.kind \in Kinds
    BY <1>1, NoBindingFresh DEF SetInstall, Here, Bound, CallsOK
  <2>. QED  BY <1>1, <2>1 DEF SetInstall, Install, Next
<1>2. ASSUME NEW l \in Leasers, EnsureInstall(l) PROVE Next
  <2>1. leaser[l].raw \in Binding \cup {NoBinding}
    BY DEF Bound, LeaseCall
  <2>2. leaser[l].raw.kind \in Kinds \cup {"none"}
    BY <2>1, NoBindingFresh
  <2>. QED  BY <1>2, <2>2 DEF EnsureInstall, Install, Next
<1>3. ASSUME NEW l \in Leasers, LeasePick(l) PROVE Next
  BY <1>3 DEF LeasePick, Next
<1>4. ASSUME NEW g \in Groups, Arrive(g) \/ Leave(g) \/ \E c \in Costs : SetWeight(g, c)
      PROVE  Next
  BY <1>4 DEF Next
<1>5. CASE Tick
  BY <1>5 DEF Next
<1>6. ASSUME NEW o \in Operators,
             \/ \E k \in Kinds \cup BadKinds : SetBegin(o, k)
             \/ SetCommit(o) \/ SetFails(o) \/ SetRecord(o)
      PROVE  UNCHANGED vars
  BY <1>6 DEF SetBegin, SetCommit, SetFails, SetRecord
<1>7. ASSUME NEW l \in Leasers, EnsureRead(l) \/ EnsureLoaded(l) \/ LeaseNone(l)
      PROVE  UNCHANGED vars
  BY <1>7 DEF EnsureRead, EnsureLoaded, LeaseNone
<1>8. ASSUME NEW n \in Nodes, ApplyEntry(n) PROVE UNCHANGED vars
  BY <1>8 DEF ApplyEntry
<1>9. CASE UNCHANGED installVars
  BY <1>9 DEF installVars
<1>. QED  BY <1>1, <1>2, <1>3, <1>4, <1>5, <1>6, <1>7, <1>8, <1>9 DEF InstallNext

\* A leader goes on from what it takes over with.
LEMMA FailoverFair ==
    ASSUME TypeOK, NEW n \in Nodes, NEW r \in BOOLEAN, Failover(n, r),
           SoundMemory(Taken(n, r), now)
    PROVE  TypeOK' /\ BreakerOpen' /\ TurnsPaid' /\ FaultsCounted'
<1>1. PICK m : m = Taken(n, r)
  OBVIOUS
<1>2. /\ vt' = m.vt /\ pol' = m.pol /\ faults' = m.faults
      /\ windowStart' = m.windowStart /\ quarantined' = m.quarantined
      /\ faultTimes' = m.faultTimes
      /\ UNCHANGED <<now, ready, cost>>
  BY <1>1 DEF Failover, Taken, Kept
<1>3. m \in Memory /\ SoundMemory(m, now)
  BY <1>1 DEF SoundMemory
<1>4. quarantined' \in BOOLEAN
  <2>1. m.quarantined \in BOOLEAN
    BY <1>3 DEF Memory
  <2>. QED  BY <1>2, <2>1, Zenon
<1>5. /\ vt' \in [Groups -> Nat \cup {Unknown}] /\ pol' \in Kinds \cup {"none"}
      /\ faults' \in 0..Threshold /\ windowStart' \in Nat /\ faultTimes' \in Seq(Nat)
  BY <1>2, <1>3 DEF Memory
<1>6. windowStart' \in 0..now'
  BY <1>2, <1>3, <1>5 DEF SoundMemory, TypeOK
<1>7. /\ \A g, h \in Groups : passed'[g][h] = 0
      /\ passed' \in [Groups -> [Groups -> Nat]]
      /\ owed' \in [Groups -> [Groups -> Int]]
  BY DEF Failover
<1>8. TurnsPaid'
  BY <1>7 DEF TurnsPaid, PassedPaid
<1>9. BreakerOpen' /\ FaultsCounted'
  BY <1>2, <1>3 DEF SoundMemory, BreakerOpen, FaultsCounted
<1>10. TypeOK'
  BY <1>2, <1>4, <1>5, <1>6, <1>7 DEF TypeOK
<1>. QED  BY <1>8, <1>9, <1>10

\* What a node keeps stays good as time goes by.
LEMMA SoundLater ==
    ASSUME NEW m, NEW t \in Nat, NEW u \in Nat, t <= u, SoundMemory(m, t)
    PROVE  SoundMemory(m, u)
<1>1. m.windowStart \in Nat /\ m.windowStart <= t
  BY DEF SoundMemory, Memory
<1>2. m.windowStart <= u
  BY <1>1
<1>. QED  BY <1>2 DEF SoundMemory

\* Every step keeps what is in memory, and time does not go back.
LEMMA MemoryStep ==
    ASSUME TypeOK, BreakerOpen, FaultsCounted, Bound, MemoryOK, TypeOK',
           [InstallNext]_installVars
    PROVE  MemoryOK'
<1>1. CASE UNCHANGED <<leader, memory>> /\ now' \in {now, now + 1}
  <2>1. now \in Nat /\ now' \in Nat /\ now <= now'
    BY <1>1 DEF TypeOK
  <2>2. ASSUME NEW n \in Nodes \ {leader} PROVE SoundMemory(memory[n], now')
    BY <2>1, SoundLater DEF MemoryOK
  <2>3. ASSUME NEW n \in Nodes \ {leader'} PROVE SoundMemory(memory[n], now)'
    BY <1>1, <2>2 DEF SoundMemory
  <2>4. memory' = [n \in Nodes \ {leader'} |-> memory'[n]]
    BY <1>1 DEF MemoryOK
  <2>. QED  BY <2>3, <2>4 DEF MemoryOK
<1>2. ASSUME NEW n \in Nodes, NEW r \in BOOLEAN, Failover(n, r) PROVE MemoryOK'
  <2>1. leader' = n /\ now' = now /\ memory' = [x \in Nodes \ {n} |-> Kept(x)]
    BY <1>2 DEF Failover, Kept
  <2>2. ASSUME NEW x \in Nodes \ {n} PROVE SoundMemory(memory'[x], now')
    <3>1. SoundMemory(Kept(x), now)
      BY TakenSound
    <3>. QED  BY <2>1, <3>1
  <2>3. memory' = [x \in Nodes \ {leader'} |-> memory'[x]]
    BY <2>1
  <2>. QED  BY <2>1, <2>2, <2>3 DEF MemoryOK, SoundMemory
<1>3. ASSUME NEW o \in Operators,
             \/ \E k \in Kinds \cup BadKinds : SetBegin(o, k)
             \/ SetCommit(o) \/ SetFails(o) \/ SetInstall(o) \/ SetRecord(o)
      PROVE  UNCHANGED <<leader, memory, now>>
  BY <1>3 DEF SetBegin, SetCommit, SetFails, SetInstall, SetRecord, Install, SetPolicy, vars
<1>4. ASSUME NEW l \in Leasers,
             \/ EnsureRead(l) \/ EnsureInstall(l) \/ EnsureLoaded(l)
             \/ LeasePick(l) \/ LeaseNone(l)
      PROVE  UNCHANGED <<leader, memory, now>>
  BY <1>4 DEF EnsureRead, EnsureInstall, EnsureLoaded, LeasePick, LeaseNone, Install,
              SetPolicy, vars, PickByVt, PickByPolicy, PickFallback, Serve
<1>5. ASSUME NEW n \in Nodes, ApplyEntry(n) PROVE UNCHANGED <<leader, memory, now>>
  BY <1>5 DEF ApplyEntry, vars
<1>6. ASSUME NEW g \in Groups, Arrive(g) \/ Leave(g) \/ \E c \in Costs : SetWeight(g, c),
             UNCHANGED install
      PROVE  UNCHANGED <<leader, memory, now>>
  BY <1>6 DEF Arrive, Leave, SetWeight, install
<1>7. CASE Tick /\ UNCHANGED install
  BY <1>1, <1>7 DEF Tick, install
<1>8. CASE UNCHANGED installVars
  BY <1>1, <1>8 DEF installVars, vars, install
<1>. QED  BY <1>1, <1>2, <1>3, <1>4, <1>5, <1>6, <1>7, <1>8 DEF InstallNext

\* Schedulers, what nodes keep of them, and bindings: the induction that holds
\* them together.
Sound == /\ TypeOK /\ BreakerOpen /\ TurnsPaid /\ FaultsCounted
         /\ Bound /\ MemoryOK

\* It holds at the start.
LEMMA SoundInit == InstallInit => Sound
<1>. SUFFICES ASSUME InstallInit PROVE Sound
  OBVIOUS
<1>1. Bound /\ TypeOK /\ BreakerOpen
  BY BoundInit, TypedInit DEF InstallInit
<1>2. TurnsPaid /\ FaultsCounted
  BY DEF InstallInit, Init, TurnsPaid, PassedPaid, FaultsCounted
<1>3. now \in Nat /\ memory = [n \in Nodes \ {leader} |-> Opened]
  BY <1>1 DEF InstallInit, TypeOK
<1>4. MemoryOK
  BY <1>3, OpenedSound DEF MemoryOK
<1>. QED  BY <1>1, <1>2, <1>4 DEF Sound

\* Every step keeps it.
LEMMA SoundStep == Sound /\ [InstallNext]_installVars => Sound'
<1>. SUFFICES ASSUME Sound, [InstallNext]_installVars PROVE Sound'
  OBVIOUS
<1>1. Longer
  BY LogStep DEF Sound
<1>2. ASSUME NEW n \in Nodes, NEW r \in BOOLEAN, Failover(n, r)
      PROVE  /\ TypeOK' /\ BreakerOpen' /\ TurnsPaid' /\ FaultsCounted'
             /\ Bound'
  <2>1. SoundMemory(Taken(n, r), now)
    BY TakenSound DEF Sound
  <2>2. Taken(n, r) \in Memory
    BY <2>1 DEF SoundMemory
  <2>. QED  BY <1>1, <1>2, <2>1, <2>2, FailoverFair, BoundFailover DEF Sound
<1>3. ASSUME [Next]_vars PROVE TypeOK' /\ BreakerOpen' /\ TurnsPaid' /\ FaultsCounted'
  BY <1>3, TypedStep, PaidStep, CountedStep DEF Sound
<1>4. TypeOK' /\ BreakerOpen' /\ TurnsPaid' /\ FaultsCounted'
  BY <1>2, <1>3, SchedulerSteps DEF Sound
<1>5. Bound'
  <2>1. CASE UNCHANGED install
    BY <2>1 DEF Sound, install, Bound, CallsOK, InLog
  <2>2. ASSUME NEW o \in Operators,
               \/ \E k \in Kinds \cup BadKinds : SetBegin(o, k)
               \/ SetCommit(o) \/ SetFails(o) \/ SetInstall(o) \/ SetRecord(o)
        PROVE  Bound'
    BY <1>1, <2>2, BoundSet DEF Sound
  <2>3. ASSUME NEW l \in Leasers,
               \/ EnsureRead(l) \/ EnsureInstall(l) \/ EnsureLoaded(l)
               \/ LeasePick(l) \/ LeaseNone(l)
        PROVE  Bound'
    BY <2>3, BoundLease DEF Sound
  <2>4. ASSUME NEW n \in Nodes, ApplyEntry(n) PROVE Bound'
    BY <2>4, BoundApply DEF Sound
  <2>. QED  BY <1>2, <2>1, <2>2, <2>3, <2>4 DEF InstallNext, installVars
<1>. QED  BY <1>4, <1>5, MemoryStep DEF Sound

\* Bindings, versions, the calls that install them and what nodes that do not lead
\* keep in memory have their types.
THEOREM InstallTypeCorrect == InstallSpec => []InstallTypeOK
<1>1. Sound => InstallTypeOK
  <2>. SUFFICES ASSUME Sound PROVE InstallTypeOK
    OBVIOUS
  <2>1. memory \in [Nodes \ {leader} -> Memory]
    BY DEF Sound, MemoryOK, SoundMemory
  <2>. QED  BY <2>1 DEF Sound, Bound, InstallTypeOK
<1>. QED  BY <1>1, SoundInit, SoundStep, PTL DEF InstallSpec

\* The fairness and the breaker's guarantees do not depend on who installs which
\* policy when, or on leaders that come, go and come back: they hold of every lane
\* under concurrent SetPolicy calls, ensurePolicy and failovers, of a scheduler
\* that starts empty as of one that is taken up where it was left.
THEOREM FairUnderInstallation == InstallSpec => [](WaitBounded /\ QuarantineJustified)
<1>1. Sound => WaitBounded /\ QuarantineJustified
  BY CountedJustifies DEF Sound, TurnsPaid, PassedPaid, WaitBounded
<1>. QED  BY <1>1, SoundInit, SoundStep, PTL DEF InstallSpec

-----------------------------------------------------------------------------
(* A leader's policy and the version it recorded                           *)

\* A node on which nothing that matters changes.
SameOn(n) ==
    /\ PolOn(n)' = PolOn(n) /\ LoadedOn(n)' = LoadedOn(n)
    /\ n \in torn => n \in torn'
    /\ \A o \in Operators : /\ Unrecorded(o, n)' <=> Unrecorded(o, n)
                            /\ Unrecorded(o, n) => setter'[o].new = setter[o].new

\* The record of such a node stays right.
LEMMA RecordSame ==
    ASSUME Bound, Longer, RecordOK, NEW n \in Nodes, SameOn(n)
    PROVE  RecordOn(n)'
<1>. SUFFICES ASSUME n \notin torn' PROVE RecordOn(n)'
  BY DEF RecordOn
<1>1. RecordOn(n) /\ n \notin torn
  BY DEF RecordOK, SameOn
<1>2. ASSUME NEW o \in Operators, Unrecorded(o, n)' PROVE setter'[o].new.kind = PolOn(n)'
  BY <1>1, <1>2 DEF RecordOn, SameOn
<1>3. ASSUME \A o \in Operators : ~Unrecorded(o, n)' PROVE Named(LoadedOn(n), PolOn(n))'
  <2>1. \A o \in Operators : ~Unrecorded(o, n)
    BY <1>3 DEF SameOn
  <2>2. PICK v, k : v = LoadedOn(n) /\ k = PolOn(n)
    OBVIOUS
  <2>3. Named(v, k)
    BY <1>1, <2>1, <2>2 DEF RecordOn
  <2>4. Named(v, k)'
    BY <2>3, LogKeeps
  <2>5. v = LoadedOn(n)' /\ k = PolOn(n)'
    BY <2>2 DEF SameOn
  <2>. QED  BY <2>4, <2>5 DEF Named
<1>. QED  BY <1>2, <1>3 DEF RecordOn

\* Steps of calls that neither install nor record, and of the scheduler.
LEMMA RecordQuiet ==
    ASSUME Bound, Longer, RecordOK, UNCHANGED <<leader, pol, loaded, memory, torn>>,
           \/ setter' = setter
           \/ \E o \in Operators, s \in SetCall :
                 /\ setter' = [setter EXCEPT ![o] = s]
                 /\ setter[o].at # "installed" /\ s.at # "installed"
    PROVE  RecordOK'
<1>. SUFFICES ASSUME NEW n \in Nodes PROVE RecordOn(n)'
  BY DEF RecordOK
<1>1. setter \in [Operators -> SetCall]
  BY DEF Bound
<1>2. ASSUME NEW x \in Operators
      PROVE  /\ Unrecorded(x, n)' <=> Unrecorded(x, n)
             /\ Unrecorded(x, n) => setter'[x].new = setter[x].new
  BY <1>1 DEF Unrecorded
<1>3. PolOn(n)' = PolOn(n) /\ LoadedOn(n)' = LoadedOn(n)
  BY DEF PolOn, LoadedOn
<1>. QED  BY <1>2, <1>3, RecordSame DEF SameOn

\* A binding goes to the leader's scheduler: other nodes are as they were, and on
\* the leader what is not recorded is of the policy in force.
LEMMA RecordInstall ==
    ASSUME Bound, Longer, RecordOK, NEW b \in Binding \cup {NoBinding}, InLog(b)', Install(b),
           UNCHANGED <<leader, memory>>,
           \A x \in Operators : Unrecorded(x, leader)' /\ ~Unrecorded(x, leader) => setter'[x].new = b,
           \A x \in Operators : Unrecorded(x, leader) => setter'[x] = setter[x],
           \A x \in Operators, n \in Nodes \ {leader} :
               /\ Unrecorded(x, n)' <=> Unrecorded(x, n)
               /\ Unrecorded(x, n) => setter'[x] = setter[x],
           \/ loaded' = b.version
           \/ \E x \in Operators : Unrecorded(x, leader)'
    PROVE  RecordOK'
<1>1. ASSUME NEW n \in Nodes \ {leader} PROVE RecordOn(n)'
  <2>1. PolOn(n)' = PolOn(n) /\ LoadedOn(n)' = LoadedOn(n)
    BY DEF PolOn, LoadedOn
  <2>2. n \in torn => n \in torn'
    BY DEF Install
  <2>. QED  BY <2>1, <2>2, RecordSame DEF SameOn
<1>2. ASSUME leader \notin torn' PROVE RecordOn(leader)'
  <2>1. \A x \in Operators : Unrecorded(x, leader) => setter[x].new = b
    BY <1>2 DEF Install, Unrecorded, Here, Bound
  <2>2. pol' = b.kind /\ leader' = leader
    BY DEF Install, SetPolicy
  <2>3. ASSUME NEW x \in Operators, Unrecorded(x, leader)' PROVE setter'[x].new = b
    BY <2>1, <2>3
  <2>4. ASSUME \A x \in Operators : ~Unrecorded(x, leader)'
        PROVE  Named(LoadedOn(leader), PolOn(leader))'
    <3>1. LoadedOn(leader)' = b.version /\ PolOn(leader)' = b.kind
      BY <2>2, <2>4 DEF LoadedOn, PolOn
    <3>. QED  BY <3>1 DEF Named
  <2>5. PolOn(leader)' = b.kind
    BY <2>2 DEF PolOn
  <2>. QED  BY <2>3, <2>4, <2>5 DEF RecordOn
<1>. QED  BY <1>1, <1>2 DEF RecordOK, RecordOn

\* SetPolicy installs, and records.
LEMMA RecordSet ==
    ASSUME Bound, Longer, RecordOK, NEW o \in Operators, SetInstall(o) \/ SetRecord(o)
    PROVE  RecordOK'
<1>0. setter \in [Operators -> SetCall] /\ setter[o] \in SetCall /\ leader \in Nodes
  BY DEF Bound
<1>1. PICK b : b = setter[o].new
  OBVIOUS
<1>2. b \in Binding /\ InLog(b) /\ setter[o].on = leader
  BY <1>1 DEF SetInstall, SetRecord, Here, Bound, CallsOK
<1>3. InLog(b)'
  BY <1>2, LogKeeps
<1>4. CASE SetInstall(o)
  <2>1. /\ setter[o].at = "applied" /\ setter'[o].at = "installed"
        /\ setter'[o].new = b /\ setter'[o].on = leader
        /\ \A x \in Operators \ {o} : setter'[x] = setter[x]
        /\ Install(b) /\ UNCHANGED <<leader, memory>>
    BY <1>0, <1>1, <1>2, <1>4 DEF SetInstall, Here, SetCall
  <2>2. Unrecorded(o, leader)' /\ \A n : ~Unrecorded(o, n)
    BY <2>1 DEF Unrecorded
  <2>3. \A n \in Nodes \ {leader} : ~Unrecorded(o, n)'
    BY <2>1 DEF Unrecorded
  <2>4. \A x \in Operators \ {o}, n \in Nodes : Unrecorded(x, n)' <=> Unrecorded(x, n)
    BY <2>1 DEF Unrecorded
  <2>5. \A x \in Operators : Unrecorded(x, leader)' /\ ~Unrecorded(x, leader) => setter'[x].new = b
    BY <1>0, <2>1, <2>4
  <2>6. \A x \in Operators : Unrecorded(x, leader) => setter'[x] = setter[x]
    BY <2>1, <2>2
  <2>7. \A x \in Operators, n \in Nodes \ {leader} :
            /\ Unrecorded(x, n)' <=> Unrecorded(x, n)
            /\ Unrecorded(x, n) => setter'[x] = setter[x]
    BY <2>1, <2>2, <2>3, <2>4
  <2>. QED  BY <1>2, <1>3, <2>1, <2>2, <2>5, <2>6, <2>7, RecordInstall
<1>5. CASE SetRecord(o)
  <2>1. /\ setter[o].at = "installed" /\ setter'[o].at = "idle" /\ loaded' = b.version
        /\ \A x \in Operators \ {o} : setter'[x] = setter[x]
        /\ UNCHANGED <<leader, memory, pol, torn>>
    BY <1>0, <1>1, <1>2, <1>5 DEF SetRecord, Here, SetterIdle, vars, lane
  <2>2. \A n : ~Unrecorded(o, n)'
    BY <2>1 DEF Unrecorded
  <2>3. \A x \in Operators \ {o}, n \in Nodes : Unrecorded(x, n)' <=> Unrecorded(x, n)
    BY <2>1 DEF Unrecorded
  <2>4. ASSUME NEW n \in Nodes \ {leader} PROVE RecordOn(n)'
    <3>1. PolOn(n)' = PolOn(n) /\ LoadedOn(n)' = LoadedOn(n)
      BY <2>1 DEF PolOn, LoadedOn
    <3>2. ~Unrecorded(o, n)
      BY <1>2 DEF Unrecorded
    <3>. QED  BY <2>1, <2>2, <2>3, <3>1, <3>2, RecordSame DEF SameOn
  <2>5. ASSUME leader \notin torn PROVE RecordOn(leader)'
    <3>1. Unrecorded(o, leader)
      BY <1>2, <2>1 DEF Unrecorded
    <3>2. \A x \in Operators : Unrecorded(x, leader) => setter[x].new.kind = PolOn(leader)
      BY <1>0, <2>5 DEF RecordOK, RecordOn
    <3>3. LoadedOn(leader)' = b.version /\ PolOn(leader)' = b.kind /\ PolOn(leader) = b.kind
      BY <1>1, <2>1, <3>1, <3>2 DEF LoadedOn, PolOn
    <3>4. Named(LoadedOn(leader), PolOn(leader))'
      BY <1>2, <1>3, <3>3 DEF Named
    <3>5. ASSUME NEW x \in Operators, Unrecorded(x, leader)'
          PROVE  setter'[x].new.kind = PolOn(leader)'
      <4>1. x # o /\ Unrecorded(x, leader) /\ setter'[x] = setter[x]
        BY <1>0, <2>1, <2>2, <2>3, <3>5
      <4>. QED  BY <3>2, <3>3, <4>1
    <3>. QED  BY <3>4, <3>5 DEF RecordOn
  <2>. QED  BY <2>1, <2>4, <2>5 DEF RecordOK, RecordOn
<1>. QED  BY <1>4, <1>5

\* ensurePolicy installs and records in one step.
LEMMA RecordEnsure ==
    ASSUME Bound, Longer, RecordOK, NEW l \in Leasers, EnsureInstall(l)
    PROVE  RecordOK'
<1>1. PICK b : b = leaser[l].raw
  OBVIOUS
<1>2. b \in Binding \cup {NoBinding} /\ InLog(b)
  BY <1>1 DEF Bound, CallsOK, LeaseCall
<1>3. InLog(b)'
  BY <1>2, LogKeeps
<1>4. Install(b) /\ loaded' = b.version /\ UNCHANGED <<leader, memory, setter>>
  BY <1>1 DEF EnsureInstall
<1>5. \A x \in Operators, n \in Nodes : Unrecorded(x, n)' <=> Unrecorded(x, n)
  BY <1>4 DEF Unrecorded
<1>6. leader \in Nodes
  BY DEF Bound
<1>. QED  BY <1>2, <1>3, <1>4, <1>5, <1>6, RecordInstall

\* A change of leader takes every node's memory along.
LEMMA RecordFailover ==
    ASSUME Bound, Longer, RecordOK, MemoryOK, NEW n \in Nodes, NEW r \in BOOLEAN, Failover(n, r)
    PROVE  RecordOK'
<1>1. /\ leader' = n /\ memory' = [x \in Nodes \ {n} |-> Kept(x)]
      /\ pol' = Taken(n, r).pol /\ loaded' = Taken(n, r).loaded
      /\ torn' = IF r THEN torn \ {n} ELSE torn
  BY DEF Failover, Taken, Kept
<1>2. \A x \in Nodes : Kept(x).pol = PolOn(x) /\ Kept(x).loaded = LoadedOn(x)
  BY DEF Kept, Current, PolOn, LoadedOn
<1>3. \A o \in Operators :
          setter'[o] = IF Outlasts(setter[o], n, r) THEN setter[o] ELSE SetterIdle
  BY DEF Failover
<1>4. SetterIdle.at = "idle" /\ SetterIdle.on = "nobody"
  BY DEF SetterIdle
<1>5. ASSUME NEW x \in Nodes, x # n \/ ~r PROVE RecordOn(x)'
  <2>1. PolOn(x)' = PolOn(x) /\ LoadedOn(x)' = LoadedOn(x)
    BY <1>1, <1>2, <1>5 DEF PolOn, LoadedOn, Taken
  <2>2. ASSUME NEW o \in Operators
        PROVE  /\ Unrecorded(o, x)' <=> Unrecorded(o, x)
               /\ Unrecorded(o, x) => setter'[o].new = setter[o].new
    <3>1. Unrecorded(o, x) => Outlasts(setter[o], n, r)
      BY <1>5 DEF Unrecorded, Outlasts, Here
    <3>. QED  BY <1>3, <1>4, <3>1 DEF Unrecorded
  <2>3. x \in torn => x \in torn'
    BY <1>1, <1>5
  <2>. QED  BY <2>1, <2>2, <2>3, RecordSame DEF SameOn
<1>6. ASSUME r PROVE RecordOn(n)'
  <2>1. \A o \in Operators : ~Unrecorded(o, n)'
    BY <1>3, <1>4, <1>6, InstallAssumption DEF Unrecorded, Outlasts
  <2>2. PolOn(n)' = NoBinding.kind /\ LoadedOn(n)' = NoBinding.version
    BY <1>1, <1>6 DEF PolOn, LoadedOn, Taken, Opened, NoBinding
  <2>3. Named(LoadedOn(n), PolOn(n))'
    BY <2>2 DEF Named, InLog
  <2>. QED  BY <2>1, <2>3 DEF RecordOn
<1>. QED  BY <1>5, <1>6 DEF RecordOK

\* Every step keeps the records right.
LEMMA RecordStep == Sound /\ RecordOK /\ [InstallNext]_installVars => RecordOK'
<1>. SUFFICES ASSUME Sound, RecordOK, [InstallNext]_installVars PROVE RecordOK'
  OBVIOUS
<1>0. Bound /\ Longer /\ MemoryOK /\ setter \in [Operators -> SetCall]
  BY LogStep DEF Sound, Bound
<1>. DEFINE Quiet == UNCHANGED <<leader, pol, loaded, memory, torn>>
<1>1. ASSUME Quiet, setter' = setter PROVE RecordOK'
  BY <1>0, <1>1, RecordQuiet
<1>2. ASSUME NEW o \in Operators,
             (\E k \in Kinds \cup BadKinds : SetBegin(o, k)) \/ SetCommit(o) \/ SetFails(o)
      PROVE  RecordOK'
  <2>1. Quiet /\ setter[o].at # "installed" /\ setter[o] \in SetCall
    BY <1>0, <1>2 DEF SetBegin, SetCommit, SetFails, Here, vars, lane
  <2>2. Bound' /\ setter'[o] \in SetCall
    BY SoundStep DEF Sound, Bound
  <2>3. setter' = [setter EXCEPT ![o] = setter'[o]] /\ setter'[o].at # "installed"
    BY <1>0, <1>2, <2>1 DEF SetBegin, SetCommit, SetFails, SetterIdle, SetCall
  <2>. QED  BY <1>0, <2>1, <2>2, <2>3, RecordQuiet
<1>3. ASSUME NEW l \in Leasers,
             EnsureRead(l) \/ EnsureLoaded(l) \/ LeasePick(l) \/ LeaseNone(l)
      PROVE  RecordOK'
  <2>1. Quiet /\ setter' = setter
    BY <1>3 DEF EnsureRead, EnsureLoaded, LeasePick, LeaseNone, vars, lane,
                PickByVt, PickByPolicy, PickFallback, Serve
  <2>. QED  BY <1>1, <2>1
<1>4. ASSUME NEW n \in Nodes, ApplyEntry(n) PROVE RecordOK'
  BY <1>1, <1>4 DEF ApplyEntry, vars, lane
<1>5. CASE Tick /\ UNCHANGED install
  BY <1>1, <1>5 DEF Tick, install, lane
<1>6. ASSUME NEW g \in Groups, Arrive(g) \/ Leave(g) \/ \E c \in Costs : SetWeight(g, c),
             UNCHANGED install
      PROVE  RecordOK'
  BY <1>1, <1>6 DEF Arrive, Leave, SetWeight, install, lane
<1>7. CASE UNCHANGED installVars
  BY <1>1, <1>7 DEF installVars, install, vars, lane
<1>8. ASSUME NEW o \in Operators, SetInstall(o) \/ SetRecord(o) PROVE RecordOK'
  BY <1>0, <1>8, RecordSet
<1>9. ASSUME NEW l \in Leasers, EnsureInstall(l) PROVE RecordOK'
  BY <1>0, <1>9, RecordEnsure
<1>10. ASSUME NEW n \in Nodes, NEW r \in BOOLEAN, Failover(n, r) PROVE RecordOK'
  BY <1>0, <1>10, RecordFailover
<1>. QED  BY <1>2, <1>3, <1>4, <1>5, <1>6, <1>7, <1>8, <1>9, <1>10 DEF InstallNext

-----------------------------------------------------------------------------
(* A new leader                                                            *)

\* While no set is under way, every step keeps the leasers on the stored binding.
LEMMA CalmStep == Bound /\ CalmOK /\ [InstallNext]_installVars => CalmOK'
<1>. SUFFICES ASSUME Bound, CalmOK, [InstallNext]_installVars, calm' PROVE CalmOK'
  BY DEF CalmOK
<1>1. CASE UNCHANGED install
  BY <1>1 DEF install, CalmOK, stored, Here
<1>2. ASSUME NEW o \in Operators, NEW k, SetBegin(o, k) PROVE FALSE
  <2>1. calm' = FALSE
    BY <1>2 DEF SetBegin
  <2>. QED  BY <2>1, Zenon
<1>3. ASSUME NEW n \in Nodes, ApplyEntry(n) PROVE CalmOK'
  <2>1. calm /\ n # leader
    BY <1>3 DEF ApplyEntry
  <2>2. stored' = stored /\ UNCHANGED <<leader, loaded, setter, leaser>>
    BY <1>3, <2>1 DEF ApplyEntry, stored, Bound
  <2>. QED  BY <2>1, <2>2 DEF CalmOK, Here
<1>4. ASSUME NEW o \in Operators, SetCommit(o) \/ SetFails(o) \/ SetInstall(o) \/ SetRecord(o)
      PROVE  FALSE
  <2>1. calm
    BY <1>4 DEF SetCommit, SetFails, SetInstall, SetRecord
  <2>. QED  BY <1>4, <2>1 DEF CalmOK, SetCommit, SetFails, SetInstall, SetRecord, Here
<1>5. ASSUME NEW n \in Nodes, NEW r \in BOOLEAN, Failover(n, r) PROVE CalmOK'
  <2>1. /\ leader' = n /\ \A o \in Operators : setter'[o].on # n
        /\ \A l \in Leasers : leaser'[l].on # n
    BY <1>5 DEF Failover
  <2>. QED  BY <2>1 DEF CalmOK, Here
<1>6. ASSUME NEW l \in Leasers,
             \/ EnsureRead(l) \/ EnsureInstall(l) \/ EnsureLoaded(l)
             \/ LeasePick(l) \/ LeaseNone(l)
      PROVE  CalmOK'
  <2>1. UNCHANGED <<leader, log, applied, setter, calm>> /\ stored' = stored
    BY <1>6 DEF EnsureRead, EnsureInstall, EnsureLoaded, LeasePick, LeaseNone, stored
  <2>2. calm /\ leaser \in [Leasers -> LeaseCall] /\ leaser[l] \in LeaseCall
    BY <2>1 DEF Bound
  <2>3. \A x \in Leasers \ {l} : leaser'[x] = leaser[x]
    BY <1>6, <2>2 DEF EnsureRead, EnsureInstall, EnsureLoaded, LeasePick, LeaseNone
  <2>4. CASE EnsureRead(l)
    <3>1. leaser'[l] = [at |-> "read", on |-> leader, raw |-> stored] /\ loaded' = loaded
      BY <2>2, <2>4 DEF EnsureRead
    <3>. QED  BY <2>1, <2>2, <2>3, <3>1 DEF CalmOK, Here
  <2>5. CASE EnsureInstall(l)
    <3>1. leaser[l].raw = stored
      BY <2>2, <2>5 DEF EnsureInstall, CalmOK, Here
    <3>2. leaser'[l].raw = stored /\ loaded' = stored.version
      BY <2>2, <2>5, <3>1 DEF EnsureInstall, LeaseCall
    <3>. QED  BY <2>1, <2>2, <2>3, <3>2 DEF CalmOK, Here
  <2>6. CASE EnsureLoaded(l)
    <3>1. leaser[l].raw = stored /\ loaded = stored.version
      BY <2>2, <2>6 DEF EnsureLoaded, Stale, CalmOK, Here
    <3>2. leaser'[l].raw = stored /\ loaded' = loaded
      BY <2>2, <2>6, <3>1 DEF EnsureLoaded, LeaseCall
    <3>. QED  BY <2>1, <2>2, <2>3, <3>1, <3>2 DEF CalmOK, Here
  <2>7. CASE LeasePick(l) \/ LeaseNone(l)
    <3>1. leaser'[l] = LeaserIdle /\ LeaserIdle.on = "nobody" /\ UNCHANGED loaded
      BY <2>2, <2>7 DEF LeasePick, LeaseNone, LeaserIdle
    <3>2. leaser'[l].on # leader
      BY <3>1, InstallAssumption DEF Bound
    <3>. QED  BY <2>1, <2>2, <2>3, <3>1, <3>2 DEF CalmOK, Here
  <2>. QED  BY <1>6, <2>4, <2>5, <2>6, <2>7
<1>. QED  BY <1>1, <1>2, <1>3, <1>4, <1>5, <1>6 DEF InstallNext, installVars

\* Right records and a calm leader make the stored policy the one in force.
LEMMA CalmPicksUp == Bound /\ RecordOK /\ CalmOK => NewLeaderPicksUp
<1>. SUFFICES ASSUME Bound, RecordOK, CalmOK, calm, leader \notin torn, OneName,
                     NEW l \in Leasers, Here(leaser[l], "ensured")
              PROVE  pol = stored.kind /\ loaded = stored.version
  BY DEF NewLeaderPicksUp
<1>1. loaded = stored.version /\ \A o \in Operators : setter[o].on # leader
  BY DEF CalmOK
<1>2. Named(loaded, pol)
  <2>1. RecordOn(leader)
    BY DEF RecordOK, Bound
  <2>2. \A o \in Operators : ~Unrecorded(o, leader)
    BY <1>1 DEF Unrecorded
  <2>. QED  BY <2>1, <2>2 DEF RecordOn, PolOn, LoadedOn
<1>3. PICK b \in Binding \cup {NoBinding} : InLog(b) /\ b.version = loaded /\ b.kind = pol
  BY <1>2 DEF Named
<1>4. CASE b = NoBinding
  <2>1. stored = NoBinding
    BY <1>1, <1>3, <1>4, StoredInLog, NoBindingFresh
  <2>. QED  BY <1>1, <1>3, <1>4, <2>1
<1>5. CASE b # NoBinding
  <2>1. PICK i \in 1..Len(log) : log[i] = b
    BY <1>3, <1>5 DEF InLog
  <2>. QED  BY <1>1, <1>3, <2>1 DEF OneName
<1>. QED  BY <1>4, <1>5

\* However many lease calls race on a leader, and whatever it kept in memory since
\* it last led, none picks before the stored policy is installed: ensurePolicy
\* installs what it read unless that version is recorded, and outside the races
\* that NewLeaderPicksUp excludes the recorded version is that of the policy in
\* force on every node at all times.
THEOREM NewLeaderPicksUpAlways == InstallSpec => []NewLeaderPicksUp
<1>1. InstallInit => RecordOK
  <2>. SUFFICES ASSUME InstallInit, NEW n \in Nodes PROVE RecordOn(n)
    BY DEF RecordOK
  <2>1. \A o \in Operators : ~Unrecorded(o, n)
    BY DEF InstallInit, SetterIdle, Unrecorded
  <2>2. PolOn(n) = NoBinding.kind /\ LoadedOn(n) = NoBinding.version
    BY DEF InstallInit, Init, PolOn, LoadedOn, Opened, NoBinding
  <2>. QED  BY <2>1, <2>2 DEF RecordOn, Named, InLog
<1>2. InstallInit => CalmOK
  <2>. SUFFICES ASSUME InstallInit PROVE CalmOK
    OBVIOUS
  <2>1. /\ \A o \in Operators : setter[o].on = "nobody"
        /\ \A l \in Leasers : leaser[l].on = "nobody"
        /\ leader # "nobody"
    BY InstallAssumption DEF InstallInit, SetterIdle, LeaserIdle
  <2>. QED  BY <2>1 DEF CalmOK, Here
<1>3. Sound => Bound
  BY DEF Sound
<1>. QED  BY <1>1, <1>2, <1>3, SoundInit, SoundStep, RecordStep, CalmStep, CalmPicksUp, PTL
          DEF InstallSpec

-----------------------------------------------------------------------------
(* Observatory: where the ring keeps an event                              *)

\* The ring's own state is in range, and what it holds was served.
RingOK ==
    /\ ring \in [Slots -> Served \cup {NoServe}]
    /\ head \in Slots /\ count \in 0..RingCap /\ total \in Nat
    /\ served \in [Lanes -> [Tenants -> Nat]]
    /\ \A n \in Held : Event(n) \in Served
    /\ count <= total /\ total <= MaxServes

\* The slot of the n-th event, counted back from the head.
SlotOf(n) ==
    IF head - 1 - (total - n) >= 0 THEN head - 1 - (total - n)
    ELSE head - 1 - (total - n) + RingCap

\* Going around the ring once.
LEMMA Around ==
    ASSUME NEW R \in Nat \ {0}, NEW x \in Int, 0 <= x, x < 2 * R
    PROVE  x % R = IF x < R THEN x ELSE x - R
OBVIOUS

\* Walking the ring from its oldest event is counting back from the head.
LEMMA WalkedSlot ==
    ASSUME NEW h \in Slots, NEW c \in 0..RingCap, NEW t \in Nat, NEW n \in (t - c + 1)..t
    PROVE  LET back == h - 1 - (t - n)
               slot == IF back >= 0 THEN back ELSE back + RingCap
           IN  /\ (((h - c + RingCap) % RingCap) + (n - (t - c)) - 1) % RingCap = slot
               /\ slot \in Slots
<1>. DEFINE start == (h - c + RingCap) % RingCap
            i == n - (t - c)
<1>0. RingCap \in Nat \ {0}
  BY ObservatoryAssumption
<1>1. i \in 1..c /\ n \in Int
  OBVIOUS
<1>2. start = IF h - c < 0 THEN h - c + RingCap ELSE h - c
  <2>. DEFINE x == h - c + RingCap
  <2>1. x \in Int /\ 0 <= x /\ x < 2 * RingCap
    BY <1>0 DEF Slots
  <2>. HIDE DEF x
  <2>2. x % RingCap = IF x < RingCap THEN x ELSE x - RingCap
    BY <1>0, <2>1, Around
  <2>. QED  BY <1>0, <2>1, <2>2 DEF Slots, x
<1>3. start \in Int /\ 0 <= start /\ start < RingCap
  BY <1>0, <1>2 DEF Slots
<1>. HIDE DEF start
<1>4. (start + i - 1) % RingCap
        = IF start + i - 1 < RingCap THEN start + i - 1 ELSE start + i - 1 - RingCap
  <2>. DEFINE x == start + i - 1
  <2>1. x \in Int /\ 0 <= x /\ x < 2 * RingCap
    BY <1>0, <1>1, <1>3
  <2>. HIDE DEF x
  <2>2. x % RingCap = IF x < RingCap THEN x ELSE x - RingCap
    BY <1>0, <2>1, Around
  <2>. QED  BY <1>0, <1>1, <1>3, <2>1, <2>2 DEF x
<1>. QED  BY <1>0, <1>1, <1>2, <1>3, <1>4 DEF Slots, start

\* An event's place in the walk.
LEMMA Place ==
    ASSUME NEW c \in Nat, NEW t \in Nat, NEW n \in (t - c + 1)..t
    PROVE  n - (t - c) \in 1..c
OBVIOUS

\* Where an event is.
LEMMA EventAt ==
    ASSUME head \in Slots, count \in 0..RingCap, total \in Nat, NEW n \in Held
    PROVE  Event(n) = ring[SlotOf(n)] /\ SlotOf(n) \in Slots
<1>0. Held = (total - count + 1)..total /\ count \in Nat
  BY ObservatoryAssumption DEF Held
<1>1. n - (total - count) \in 1..count
  BY <1>0, Place
<1>2. Event(n) = ring[(((head - count + RingCap) % RingCap) + (n - (total - count)) - 1) % RingCap]
  BY <1>1, Zenon DEF Event, Events
<1>. QED  BY <1>2, WalkedSlot DEF SlotOf, Held

\* And after a step.
LEMMA EventAtNext ==
    ASSUME head' \in Slots, count' \in 0..RingCap, total' \in Nat, NEW n, n \in Held'
    PROVE  Event(n)' = ring'[SlotOf(n)'] /\ SlotOf(n)' \in Slots
<1>0. Held' = (total' - count' + 1)..total' /\ count' \in Nat
  BY ObservatoryAssumption DEF Held
<1>1. n - (total' - count') \in 1..count'
  BY <1>0, Place
<1>2. Event(n)' = ring'[(((head' - count' + RingCap) % RingCap) + (n - (total' - count')) - 1) % RingCap]
  BY <1>1, Zenon DEF Event, Events
<1>. QED  BY <1>2, WalkedSlot DEF SlotOf, Held

\* Recording an event leaves the others the ring still holds where they were,
\* and adds the newest.
LEMMA RecordEvents ==
    ASSUME RingOK, NEW l \in Lanes, NEW g \in Tenants, Record(l, g)
    PROVE  /\ head' \in Slots /\ count' \in 0..RingCap /\ total' = total + 1
           /\ Held' = {n \in Held : n > total - RingCap + 1} \cup {total + 1}
           /\ \A n \in Held' : n > total => Event(n)' = [lane |-> l, group |-> g]
           /\ \A n \in Held' : n <= total => Event(n)' = Event(n)
<1>0. RingCap \in Nat \ {0} /\ head \in Slots /\ count \in 0..RingCap /\ total \in Nat
  BY ObservatoryAssumption DEF RingOK
<1>1. head' = IF head + 1 < RingCap THEN head + 1 ELSE 0
  <2>. DEFINE x == head + 1
  <2>1. x \in Int /\ 0 <= x /\ x < 2 * RingCap
    BY <1>0 DEF Slots
  <2>2. head' = x % RingCap
    BY DEF Record
  <2>. HIDE DEF x
  <2>3. x % RingCap = IF x < RingCap THEN x ELSE x - RingCap
    BY <1>0, <2>1, Around
  <2>. QED  BY <1>0, <2>1, <2>2, <2>3 DEF x, Slots
<1>2. head' \in Slots /\ count' \in 0..RingCap /\ total' = total + 1 /\ total' \in Nat
  BY <1>0, <1>1 DEF Record, Slots
<1>3. Held' = {n \in Held : n > total - RingCap + 1} \cup {total + 1}
  BY <1>0, <1>2 DEF Held, Record
<1>4. ASSUME NEW n \in Held' PROVE Event(n)' = ring'[SlotOf(n)'] /\ SlotOf(n)' \in Slots
  BY <1>2, <1>4, EventAtNext
<1>5. ring' = [ring EXCEPT ![head] = [lane |-> l, group |-> g]] /\ DOMAIN ring = Slots
  BY DEF Record, RingOK
<1>6. ASSUME NEW n \in Held', n > total PROVE Event(n)' = [lane |-> l, group |-> g]
  <2>1. n = total + 1
    BY <1>0, <1>3, <1>6 DEF Held
  <2>2. SlotOf(n)' = head
    BY <1>0, <1>1, <1>2, <2>1 DEF SlotOf, Slots
  <2>. QED  BY <1>0, <1>4, <1>5, <1>6, <2>2
<1>8. ASSUME NEW n \in Held', n <= total PROVE Event(n)' = Event(n)
  <2>1. n \in Held /\ n \in Int /\ n > total - RingCap + 1
    BY <1>0, <1>3, <1>8 DEF Held
  <2>2. SlotOf(n)' = SlotOf(n) /\ SlotOf(n) # head
    BY <1>0, <1>1, <1>2, <1>8, <2>1 DEF SlotOf, Slots
  <2>3. Event(n) = ring[SlotOf(n)] /\ SlotOf(n) \in Slots
    BY <1>0, <2>1, EventAt
  <2>4. Event(n)' = ring'[SlotOf(n)]
    BY <1>4, <1>8, <2>2
  <2>. QED  BY <1>5, <2>2, <2>3, <2>4
<1>. QED  BY <1>2, <1>3, <1>6, <1>8

-----------------------------------------------------------------------------
(* The types of the projection                                             *)

\* Recording keeps the projection in order.
LEMMA RecordRing ==
    ASSUME RingOK, NEW l \in Lanes, NEW g \in Tenants, Record(l, g)
    PROVE  RingOK'
<1>0. RingCap \in Nat \ {0} /\ head \in Slots /\ count \in 0..RingCap /\ total \in Nat
  BY ObservatoryAssumption DEF RingOK
<1>1. [lane |-> l, group |-> g] \in Served
  BY DEF Served
<1>2. ring' \in [Slots -> Served \cup {NoServe}]
  BY <1>1 DEF Record, RingOK
<1>3. Evicted \in [Lanes -> [Tenants -> Nat]]
  <2>1. CASE count < RingCap
    BY <2>1 DEF Evicted, RingOK
  <2>2. CASE ~(count < RingCap)
    <3>. DEFINE n == total - count + 1
    <3>1. n \in Held /\ SlotOf(n) = head
      BY <1>0, <2>2 DEF Held, SlotOf, Slots
    <3>2. ring[head] \in Served
      BY <1>0, <3>1, EventAt DEF RingOK
    <3>. QED  BY <2>2, <3>2 DEF Evicted, RingOK, Served
  <2>. QED  BY <2>1, <2>2
<1>4. served' \in [Lanes -> [Tenants -> Nat]]
  BY <1>3 DEF Record
<1>5. \A n \in Held' : Event(n)' \in Served
  <2>. SUFFICES ASSUME NEW n, n \in Held' PROVE Event(n)' \in Served
    OBVIOUS
  <2>1. n \in Int /\ (n > total \/ (n <= total /\ n \in Held))
    BY <1>0, RecordEvents DEF Held
  <2>. QED  BY <1>1, <2>1, RecordEvents DEF RingOK
<1>6. count' <= total' /\ total' <= MaxServes
  BY <1>0, ObservatoryAssumption DEF Record, RingOK
<1>. QED  BY <1>0, <1>2, <1>4, <1>5, <1>6, RecordEvents DEF RingOK

\* What a step leaves of the ring.
LEMMA RingSame ==
    ASSUME UNCHANGED <<ring, head, count, total, served>>
    PROVE  /\ RingOK' = RingOK /\ Held' = Held
           /\ \A n : Event(n)' = Event(n)
           /\ \A l : Latest(l)' = Latest(l)
           /\ \A f, l : Behind(f, l)' = Behind(f, l)
           /\ CountsMatchRing' = CountsMatchRing
<1>1. Held' = Held /\ Events' = Events
  BY DEF Held, Events
<1>2. \A n : Event(n)' = Event(n)
  BY <1>1 DEF Event
<1>3. \A l : OfLane(l)' = OfLane(l)
  BY <1>1, <1>2 DEF OfLane
<1>4. \A l : Latest(l)' = Latest(l)
  BY <1>3 DEF Latest
<1>5. \A f, l : Behind(f, l)' = Behind(f, l)
  BY <1>2, <1>4 DEF Behind
<1>6. RingOK' = RingOK
  BY <1>1, <1>2 DEF RingOK
<1>7. CountsMatchRing' = CountsMatchRing
  BY <1>1, <1>2 DEF CountsMatchRing
<1>. QED  BY <1>1, <1>2, <1>4, <1>5, <1>6, <1>7

-----------------------------------------------------------------------------
(* No nudge is lost                                                        *)

\* A serve of another lane only takes events from a lane's ribbon.
LEMMA RibbonShrinks ==
    ASSUME RingOK, NEW l \in Lanes, NEW g \in Tenants, Record(l, g), NEW k, k # l
    PROVE  /\ Latest(k)' \subseteq Latest(k)
           /\ \A n \in Latest(k)' : Event(n)' = Event(n)
<1>0. RingCap \in Nat \ {0} /\ head \in Slots /\ count \in 0..RingCap /\ total \in Nat
  BY ObservatoryAssumption DEF RingOK
<1>1. /\ Held' = {n \in Held : n > total - RingCap + 1} \cup {total + 1}
      /\ \A n \in Held' : n > total => Event(n)' = [lane |-> l, group |-> g]
      /\ \A n \in Held' : n <= total => Event(n)' = Event(n)
  BY RecordEvents
<1>2. Held \subseteq Int /\ \A n \in Held : n <= total
  BY <1>0 DEF Held
<1>3. OfLane(k)' = {n \in OfLane(k) : n > total - RingCap + 1}
  <2>1. OfLane(k)' = {n \in Held' : Event(n)'.lane = k}
    BY DEF OfLane
  <2>2. \A n \in Held' : n \in Int /\ (n > total \/ (n <= total /\ n \in Held))
    BY <1>0, <1>1, <1>2
  <2>3. \A n : n \in OfLane(k)' <=> n \in OfLane(k) /\ n > total - RingCap + 1
    <3>. SUFFICES ASSUME NEW n
                  PROVE  n \in OfLane(k)' <=> n \in OfLane(k) /\ n > total - RingCap + 1
      OBVIOUS
    <3>1. n \in Held' /\ n > total => n \notin OfLane(k)' /\ n \notin OfLane(k)
      BY <1>0, <1>1, <1>2, <2>1 DEF OfLane
    <3>2. n \in Held' /\ n <= total =>
            n > total - RingCap + 1 /\ (n \in OfLane(k)' <=> n \in OfLane(k))
      BY <1>0, <1>1, <1>2, <2>1 DEF OfLane
    <3>3. n \notin Held' => n \notin OfLane(k)' /\ ~(n \in Held /\ n > total - RingCap + 1)
      BY <1>1, <2>1
    <3>4. n \in OfLane(k) => n \in Held
      BY DEF OfLane
    <3>5. n \in Held' => n > total \/ n <= total
      BY <2>2
    <3>6. CASE n \in Held'
      BY <3>1, <3>2, <3>5, <3>6
    <3>7. CASE n \notin Held'
      BY <3>3, <3>4, <3>7
    <3>. QED  BY <3>6, <3>7
  <2>. QED  BY <2>3
<1>4. OfLane(k) \subseteq Int
  BY <1>2 DEF OfLane
<1>5. ASSUME NEW n \in OfLane(k), n > total - RingCap + 1
      PROVE  {m \in OfLane(k)' : m >= n} = {m \in OfLane(k) : m >= n}
  <2>. DEFINE old == OfLane(k)
              T == total - RingCap + 1
  <2>1. old \subseteq Int /\ n \in old /\ n > T /\ T \in Int
    BY <1>0, <1>4, <1>5
  <2>2. OfLane(k)' = {m \in old : m > T}
    BY <1>3
  <2>. HIDE DEF old, T
  <2>3. \A m \in old : m >= n => m > T
    BY <2>1
  <2>4. \A m : m \in OfLane(k)' /\ m >= n <=> m \in old /\ m >= n
    BY <2>2, <2>3
  <2>. QED  BY <2>4 DEF old
<1>6. Latest(k)' = {n \in OfLane(k)' : Cardinality({m \in OfLane(k)' : m >= n}) <= MaxRibbon}
  BY DEF Latest
<1>7. Latest(k)' = {n \in Latest(k) : n > total - RingCap + 1}
  <2>1. \A n : n \in Latest(k)' <=> n \in Latest(k) /\ n > total - RingCap + 1
    BY <1>3, <1>5, <1>6 DEF Latest
  <2>. QED  BY <2>1
<1>8. \A n \in Latest(k)' : n \in Held' /\ n <= total
  BY <1>2, <1>6, <1>7 DEF Latest, OfLane
<1>. QED  BY <1>1, <1>7, <1>8

\* So no frame falls behind by it.
LEMMA OtherLaneQuiet ==
    ASSUME RingOK, NEW l \in Lanes, NEW g \in Tenants, Record(l, g), NEW k, k # l,
           NEW f, Behind(f, k)'
    PROVE  Behind(f, k)
BY RibbonShrinks DEF Behind

\* A frame and a stream have their fields; a total is some sum of counts.
Totals   == {SumOf(f) : f \in [Tenants -> Nat]} \cup {0}
FrameSet == [ribbon: Ribbons, total: Totals, shares: [Tenants -> Nat]]

StreamOK(w) ==
    w \in [at: {"connect", "loop", "emit"}, lane: Lanes, nudge: BOOLEAN,
           dirty: BOOLEAN, frame: FrameSet, shown: FrameSet]

\* A stream that lacks an event of its lane is about to look again.
StreamUp(w) ==
    /\ w.at = "loop" /\ Behind(w.shown, w.lane) => w.nudge \/ w.dirty
    /\ w.at = "emit" /\ Behind(w.frame, w.lane) => w.nudge \/ w.dirty

StreamsOK ==
    /\ DOMAIN viewers = Viewers
    /\ \A v \in Viewers : viewers[v] # NoViewer => StreamOK(viewers[v]) /\ StreamUp(viewers[v])

ObsInv == RingOK /\ StreamsOK

\* What a stream's own step owes.
LEMMA OneStream ==
    ASSUME StreamsOK, UNCHANGED <<ring, head, count, total, served>>,
           NEW v \in Viewers, NEW w, viewers' = [viewers EXCEPT ![v] = w],
           w # NoViewer => StreamOK(w) /\ StreamUp(w)
    PROVE  StreamsOK'
<1>1. \A x : StreamUp(x)' = StreamUp(x)
  BY RingSame DEF StreamUp
<1>2. DOMAIN viewers' = Viewers
  BY DEF StreamsOK
<1>3. ASSUME NEW u \in Viewers, viewers'[u] # NoViewer
      PROVE  StreamOK(viewers'[u]) /\ StreamUp(viewers'[u])
  BY <1>3 DEF StreamsOK
<1>. QED  BY <1>1, <1>2, <1>3 DEF StreamsOK

\* No frame is behind the ribbon it was just taken from.
LEMMA SnapshotCurrent ==
    ASSUME NEW f, NEW l, f.ribbon = Ribbon(l)
    PROVE  ~Behind(f, l)
BY DEF Behind, Ribbon

\* What a snapshot holds.
LEMMA SnapshotTyped ==
    ASSUME RingOK, NEW l \in Lanes
    PROVE  Ribbon(l) \in Ribbons /\ SumOf(served[l]) \in Totals
<1>1. Latest(l) \in SUBSET (1..MaxServes)
  BY ObservatoryAssumption DEF Latest, OfLane, Held, RingOK
<1>2. Ribbon(l) \in [Latest(l) -> Tenants]
  BY DEF Ribbon, Latest, OfLane, RingOK, Served
<1>3. SumOf(served[l]) \in Totals
  BY DEF RingOK, Totals
<1>. QED  BY <1>1, <1>2, <1>3 DEF Ribbons

\* The streams' steps.
LEMMA StreamSteps ==
    ASSUME ObsInv, NEW v \in Viewers,
           \/ \E l \in Lanes : Connect(v, l)
           \/ TakeNudge(v) \/ EmitSnapshot(v) \/ EmitFrame(v) \/ Disconnect(v)
    PROVE  StreamsOK' /\ UNCHANGED <<ring, head, count, total, served>>
<1>0. UNCHANGED <<ring, head, count, total, served>> /\ StreamsOK /\ RingOK
  BY DEF Connect, TakeNudge, EmitSnapshot, EmitFrame, Disconnect, ObsInv
<1>. DEFINE w == viewers[v]
<1>a. w.at \in {"connect", "loop", "emit"} => StreamOK(w) /\ StreamUp(w)
  BY <1>0 DEF StreamsOK, NoViewer
<1>1. ASSUME NEW l \in Lanes, Connect(v, l) PROVE StreamsOK'
  <2>. DEFINE x == [at |-> "connect", lane |-> l, nudge |-> FALSE, dirty |-> FALSE,
                    frame |-> NoFrame, shown |-> NoFrame]
  <2>1. NoFrame.ribbon \in [{} -> Tenants]
    BY DEF NoFrame
  <2>2. NoFrame \in FrameSet
    BY <2>1 DEF NoFrame, FrameSet, Totals, Ribbons
  <2>3. StreamOK(x) /\ StreamUp(x) /\ viewers' = [viewers EXCEPT ![v] = x]
    BY <1>1, <2>2 DEF Connect, StreamOK, StreamUp
  <2>. QED  BY <1>0, <2>3, OneStream
<1>2. CASE TakeNudge(v)
  <2>. DEFINE x == [w EXCEPT !.nudge = FALSE, !.dirty = TRUE]
  <2>1. viewers' = [viewers EXCEPT ![v] = x] /\ w.at = "loop"
    BY <1>0, <1>2 DEF TakeNudge, StreamsOK
  <2>2. StreamOK(x) /\ x.dirty
    BY <1>a, <2>1 DEF StreamOK
  <2>. HIDE DEF x
  <2>3. StreamUp(x)
    BY <2>2 DEF StreamUp
  <2>. QED  BY <1>0, <2>1, <2>2, <2>3, OneStream
<1>3. CASE EmitSnapshot(v)
  <2>. DEFINE f == [w.frame EXCEPT !.ribbon = Ribbon(w.lane), !.total = SumOf(served[w.lane])]
              x == [w EXCEPT !.at = "emit", !.dirty = FALSE, !.frame = f]
  <2>0. StreamOK(w)
    BY <1>a, <1>3 DEF EmitSnapshot
  <2>1. viewers' = [viewers EXCEPT ![v] = x]
    <3>1. v \in DOMAIN viewers
      BY <1>0 DEF StreamsOK
    <3>. DEFINE r == Ribbon(w.lane)
                t == SumOf(served[w.lane])
    <3>2. viewers' = [viewers EXCEPT ![v].at = "emit", ![v].dirty = FALSE,
                                     ![v].frame.ribbon = r, ![v].frame.total = t]
      BY <1>3, Zenon DEF EmitSnapshot
    <3>. HIDE DEF r, t
    <3>3. viewers' = [viewers EXCEPT ![v] = [w EXCEPT !.at = "emit", !.dirty = FALSE,
                         !.frame = [w.frame EXCEPT !.ribbon = r, !.total = t]]]
      BY <2>0, <3>1, <3>2 DEF StreamOK, FrameSet
    <3>. QED  BY <3>3, Zenon DEF r, t
  <2>2. Ribbon(w.lane) \in Ribbons /\ SumOf(served[w.lane]) \in Totals
    BY <1>0, <2>0, SnapshotTyped DEF StreamOK
  <2>3. f.ribbon = Ribbon(w.lane) /\ f \in FrameSet
    BY <2>0, <2>2 DEF StreamOK, FrameSet
  <2>. HIDE DEF f
  <2>4. x.frame = f /\ x.lane = w.lane /\ x.at = "emit" /\ StreamOK(x)
    BY <2>0, <2>3 DEF StreamOK
  <2>. HIDE DEF x
  <2>5. StreamUp(x)
    BY <2>3, <2>4, SnapshotCurrent DEF StreamUp
  <2>. QED  BY <1>0, <2>1, <2>4, <2>5, OneStream DEF f, x
<1>4. CASE EmitFrame(v)
  <2>. DEFINE f == [w.frame EXCEPT !.shares = LaneFairness(w.lane)]
              x == [w EXCEPT !.at = "loop", !.shown = f]
  <2>0. StreamOK(w) /\ StreamUp(w) /\ w.at = "emit"
    BY <1>a, <1>4 DEF EmitFrame
  <2>1. viewers' = [viewers EXCEPT ![v] = x]
    BY <1>0, <1>4 DEF EmitFrame, StreamsOK
  <2>2. f.ribbon = w.frame.ribbon /\ f \in FrameSet
    BY <1>0, <2>0 DEF StreamOK, FrameSet, LaneFairness, RingOK
  <2>. HIDE DEF f
  <2>3. /\ x.shown = f /\ x.lane = w.lane /\ x.at = "loop" /\ StreamOK(x)
        /\ x.nudge = w.nudge /\ x.dirty = w.dirty
    BY <2>0, <2>2 DEF StreamOK
  <2>4. Behind(f, w.lane) => Behind(w.frame, w.lane)
    BY <2>2 DEF Behind
  <2>. HIDE DEF x
  <2>5. StreamUp(x)
    BY <2>0, <2>3, <2>4 DEF StreamUp
  <2>. QED  BY <1>0, <2>1, <2>3, <2>5, OneStream DEF f, x
<1>5. CASE Disconnect(v)
  BY <1>0, <1>5, OneStream DEF Disconnect
<1>. QED  BY <1>0, <1>1, <1>2, <1>3, <1>4, <1>5

\* A serve nudges the streams of its lane, and the others do not miss it.
LEMMA RecordStreams ==
    ASSUME ObsInv, NEW l \in Lanes, NEW g \in Tenants, Record(l, g)
    PROVE  StreamsOK'
<1>1. viewers' = Nudged(l)
  BY DEF Record
<1>2. DOMAIN viewers' = Viewers
  BY <1>1 DEF Nudged
<1>3. ASSUME NEW v \in Viewers, NEW x, x = viewers'[v], x # NoViewer
      PROVE  StreamOK(x) /\ StreamUp(x)'
  <2>. DEFINE w == viewers[v]
  <2>1. CASE w # NoViewer /\ w.lane = l
    <3>1. x = [w EXCEPT !.nudge = TRUE] /\ StreamOK(w)
      BY <1>1, <1>3, <2>1 DEF Nudged, ObsInv, StreamsOK
    <3>2. StreamOK(x) /\ x.nudge
      BY <3>1 DEF StreamOK
    <3>. QED  BY <3>2 DEF StreamUp
  <2>2. CASE ~(w # NoViewer /\ w.lane = l)
    <3>1. x = w /\ w # NoViewer
      BY <1>1, <1>3, <2>2 DEF Nudged
    <3>2. StreamOK(x) /\ StreamUp(x) /\ x.lane # l
      BY <2>2, <3>1 DEF ObsInv, StreamsOK
    <3>3. \A f : Behind(f, x.lane)' => Behind(f, x.lane)
      BY <3>2, OtherLaneQuiet DEF ObsInv
    <3>. QED  BY <3>1, <3>2, <3>3 DEF StreamUp
  <2>. QED  BY <2>1, <2>2
<1>. QED  BY <1>2, <1>3 DEF StreamsOK

\* The projection and the streams are in order at the start.
LEMMA ObsInitOK == ObsInit => ObsInv /\ CountsMatchRing
<1>. SUFFICES ASSUME ObsInit PROVE ObsInv /\ CountsMatchRing
  OBVIOUS
<1>1. Held = {} /\ RingCap \in Nat \ {0} /\ MaxServes \in Nat
  BY ObservatoryAssumption DEF ObsInit, Held
<1>2. RingOK
  BY <1>1 DEF ObsInit, RingOK, Slots
<1>3. StreamsOK
  BY DEF ObsInit, StreamsOK
<1>4. CountsMatchRing
  BY <1>1, FS_EmptySet DEF CountsMatchRing, ObsInit
<1>. QED  BY <1>2, <1>3, <1>4 DEF ObsInv

\* Every step keeps the ring and the streams in order.
LEMMA ObsStep == ObsInv /\ [ObsNext]_obsVars => ObsInv'
<1>. SUFFICES ASSUME ObsInv, [ObsNext]_obsVars PROVE ObsInv'
  OBVIOUS
<1>1. ASSUME NEW l \in Lanes, NEW g \in Tenants, Record(l, g) PROVE ObsInv'
  BY <1>1, RecordRing, RecordStreams DEF ObsInv
<1>2. ASSUME NEW v \in Viewers,
             \/ \E l \in Lanes : Connect(v, l)
             \/ TakeNudge(v) \/ EmitSnapshot(v) \/ EmitFrame(v) \/ Disconnect(v)
      PROVE  ObsInv'
  BY <1>2, StreamSteps, RingSame DEF ObsInv
<1>3. CASE UNCHANGED obsVars
  <2>1. \A x : StreamUp(x)' = StreamUp(x)
    BY <1>3, RingSame DEF StreamUp, obsVars
  <2>. QED  BY <1>3, <2>1, RingSame DEF ObsInv, StreamsOK, obsVars
<1>. QED  BY <1>1, <1>2, <1>3 DEF ObsNext

\* A console stream whose frame lacks an event of the present ribbon will emit
\* again, whatever serves fall between its snapshot, its frame and its nudges.
THEOREM NoNudgeLost == ObsSpec => []ViewerCatchesUp
<1>1. ObsInv => ViewerCatchesUp
  BY DEF ObsInv, StreamsOK, StreamUp, ViewerCatchesUp, NoViewer
<1>. QED  BY <1>1, ObsInitOK, ObsStep, PTL DEF ObsSpec

-----------------------------------------------------------------------------
(* The rolling counts                                                      *)

\* The numbers of the events of a lane and group that the ring holds.
Mine(l, g) == {n \in Held : Event(n) = [lane |-> l, group |-> g]}

\* They are finitely many.
LEMMA MineFinite ==
    ASSUME RingOK, NEW l, NEW g
    PROVE  IsFiniteSet(Mine(l, g)) /\ Cardinality(Mine(l, g)) \in Nat
<1>1. IsFiniteSet(Held)
  BY FS_Interval DEF Held, RingOK
<1>2. Mine(l, g) \subseteq Held
  BY DEF Mine
<1>. QED  BY <1>1, <1>2, FS_Subset, FS_CardinalityType

\* A serve takes the oldest event out of a full ring and puts the newest in, and
\* the counts with them.
LEMMA RecordCounts ==
    ASSUME RingOK, CountsMatchRing, NEW l \in Lanes, NEW g \in Tenants, Record(l, g)
    PROVE  CountsMatchRing'
<1>0. RingCap \in Nat \ {0} /\ head \in Slots /\ count \in 0..RingCap /\ total \in Nat
  BY ObservatoryAssumption DEF RingOK
<1>. DEFINE old == total - RingCap + 1
<1>1. /\ Held' = {n \in Held : n > old} \cup {total + 1}
      /\ \A n \in Held' : n > total => Event(n)' = [lane |-> l, group |-> g]
      /\ \A n \in Held' : n <= total => Event(n)' = Event(n)
  BY RecordEvents
<1>2. Held \subseteq Int /\ \A n \in Held : n <= total /\ n >= old
  BY <1>0 DEF Held
<1>3. old \in Held <=> count = RingCap
  BY <1>0 DEF Held
<1>4. count = RingCap => ring[head] = Event(old)
  <2>1. count = RingCap => SlotOf(old) = head
    BY <1>0 DEF SlotOf, Slots
  <2>. QED  BY <1>0, <1>3, <2>1, EventAt
<1>5. ASSUME NEW k \in Lanes, NEW h \in Tenants
      PROVE  served'[k][h] = Cardinality({n \in Held : Event(n) = [lane |-> k, group |-> h]})'
  <2>. DEFINE old1 == Mine(k, h) \ {old}
  <2>1. IsFiniteSet(Mine(k, h)) /\ served[k][h] = Cardinality(Mine(k, h))
    BY MineFinite DEF CountsMatchRing, Mine
  <2>2. IsFiniteSet(old1) /\ Cardinality(old1) \in Nat
        /\ Cardinality(old1) = IF old \in Mine(k, h) THEN served[k][h] - 1 ELSE served[k][h]
    BY <2>1, FS_RemoveElement, FS_CardinalityType
  <2>3. Evicted[k][h] = Cardinality(old1) /\ Evicted \in [Lanes -> [Tenants -> Nat]]
    <3>1. CASE count < RingCap
      <4>1. old \notin Mine(k, h)
        BY <1>0, <1>3, <3>1 DEF Mine
      <4>. QED  BY <2>2, <3>1, <4>1 DEF Evicted, RingOK
    <3>2. CASE ~(count < RingCap)
      <4>1. old \in Held /\ ring[head] = Event(old) /\ Event(old) \in Served
        BY <1>0, <1>3, <1>4, <3>2 DEF RingOK
      <4>2. old \in Mine(k, h) <=> ring[head].lane = k /\ ring[head].group = h
        BY <4>1 DEF Mine, Served
      <4>3. Evicted \in [Lanes -> [Tenants -> Nat]]
        BY <3>2, <4>1 DEF Evicted, RingOK, Served
      <4>4. Evicted[k][h] = IF ring[head].lane = k /\ ring[head].group = h
                            THEN IF served[k][h] > 0 THEN served[k][h] - 1 ELSE 0
                            ELSE served[k][h]
        BY <3>2, <4>1 DEF Evicted, RingOK, Served
      <4>. QED  BY <2>2, <4>2, <4>3, <4>4 DEF RingOK
    <3>. QED  BY <1>0, <3>1, <3>2
  <2>4. served'[k][h] = IF k = l /\ h = g THEN Cardinality(old1) + 1 ELSE Cardinality(old1)
    BY <2>3 DEF Record
  <2>5. total + 1 \notin old1
    BY <1>0, <1>2 DEF Mine
  <2>6. {n \in Held' : Event(n)' = [lane |-> k, group |-> h]}
          = IF k = l /\ h = g THEN old1 \cup {total + 1} ELSE old1
    <3>1. \A n \in Held' : n > total <=> n = total + 1
      BY <1>0, <1>1, <1>2
    <3>2. total + 1 \in Held' /\ \A n : n \in Held' /\ n # total + 1 <=> n \in Held \ {old}
      <4>1. total + 1 \in Held' /\ total + 1 \notin Held
        BY <1>0, <1>1, <1>2
      <4>2. \A n \in Held : n > old <=> n # old
        BY <1>0, <1>2
      <4>3. \A n : n \in Held' <=> (n \in Held /\ n > old) \/ n = total + 1
        BY <1>1
      <4>. QED  BY <4>1, <4>2, <4>3
    <3>3. \A n \in Held \ {old} : Event(n)' = Event(n)
      BY <1>1, <1>2, <3>2
    <3>4. \A n : n \in old1 <=> n \in Held \ {old} /\ Event(n)' = [lane |-> k, group |-> h]
      BY <3>3 DEF Mine
    <3>5. [lane |-> l, group |-> g] = [lane |-> k, group |-> h] <=> k = l /\ h = g
      OBVIOUS
    <3>. HIDE DEF old1
    <3>6. ASSUME NEW n
          PROVE  n \in Held' /\ Event(n)' = [lane |-> k, group |-> h]
                   <=> n \in old1 \/ (n = total + 1 /\ k = l /\ h = g)
      <4>1. CASE n = total + 1
        <5>1. n \in Held' /\ Event(n)' = [lane |-> l, group |-> g] /\ n \notin old1
          BY <1>1, <2>5, <3>1, <3>2, <4>1
        <5>. QED  BY <3>5, <4>1, <5>1
      <4>2. CASE n # total + 1
        BY <3>2, <3>4, <4>2
      <4>. QED  BY <4>1, <4>2
    <3>. QED  BY <3>6
  <2>. HIDE DEF old1
  <2>7. Cardinality(old1 \cup {total + 1}) = Cardinality(old1) + 1
    BY <2>2, <2>5, FS_AddElement
  <2>. QED  BY <2>4, <2>6, <2>7
<1>. QED  BY <1>5 DEF CountsMatchRing

\* The rolling counts are the ring's: the decrement on eviction and the increment
\* on record cancel exactly, whatever lanes and groups they concern.
THEOREM CountsAreRolling == ObsSpec => []CountsMatchRing
<1>1. ObsInv /\ CountsMatchRing /\ [ObsNext]_obsVars => CountsMatchRing'
  <2>. SUFFICES ASSUME ObsInv, CountsMatchRing, [ObsNext]_obsVars PROVE CountsMatchRing'
    OBVIOUS
  <2>1. ASSUME NEW l \in Lanes, NEW g \in Tenants, Record(l, g) PROVE CountsMatchRing'
    BY <2>1, RecordCounts DEF ObsInv
  <2>2. ASSUME NEW v \in Viewers,
               \/ \E l \in Lanes : Connect(v, l)
               \/ TakeNudge(v) \/ EmitSnapshot(v) \/ EmitFrame(v) \/ Disconnect(v)
        PROVE  CountsMatchRing'
    BY <2>2, StreamSteps, RingSame
  <2>3. CASE UNCHANGED obsVars
    BY <2>3, RingSame DEF obsVars
  <2>. QED  BY <2>1, <2>2, <2>3 DEF ObsNext
<1>. QED  BY <1>1, ObsInitOK, ObsStep, PTL DEF ObsSpec
=============================================================================
