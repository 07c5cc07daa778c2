----------------------------- MODULE MCWorkflow -----------------------------
(***************************************************************************)
(* Instances of Workflow for TLC.  A behaviour of MCSpec belongs to one    *)
(* family, which says what the workers may decide and bounds the rest, so  *)
(* that one run checks the families side by side.                          *)
(*                                                                         *)
(*   basic   two workers, single commands                                  *)
(*   mixed   decisions of several commands, lifetime caps                  *)
(*   loop    continue-as-new                                               *)
(*   any     all that the constants allow                                  *)
(***************************************************************************)
EXTENDS Workflow, TLC

CONSTANTS
    Families,       \* the families of the run
    BasicTypes      \* activity types of the basic decisions

VARIABLE family

WorkerSymmetry == Permutations(Workers)

Cmd(kind)     == [kind |-> kind, type |-> NoType]
Activity(t)   == [kind |-> "schedule_activity", type |-> t]

\* A decider that waits, schedules one activity or completes.
BasicDecisions ==
    {<<>>, <<Cmd("complete_workflow")>>} \cup {<<Activity(t)>> : t \in BasicTypes}

\* Decisions of several commands, no two activities of one type.
MixedDecisions ==
    {<<>>, <<Cmd("fail_workflow")>>, <<Cmd("start_timer"), Cmd("start_timer")>>}
      \cup {<<Activity(s), Activity(t)>> : <<s, t>> \in
                {x \in ActTypes \X ActTypes : x[1] # x[2]}}

\* Looping workflows.
LoopDecisions ==
    {<<>>, <<Cmd("continue_as_new")>>,
     <<Cmd("start_timer"), Cmd("continue_as_new")>>, <<Cmd("complete_workflow")>>}

\* Fan-out: two activities of one type in one decision.
FanOutDecisions ==
    {<<Cmd("complete_workflow")>>} \cup {<<Activity(t), Activity(t)>> : t \in ActTypes}

AllDecisions == BasicDecisions \cup MixedDecisions \cup LoopDecisions

OneWorker == Cardinality({w \in Workers : worker[w] # Idle}) <= 1
OneRun    == nextRun <= 2
NoneDead  == \A k \in TaskKeys : tasks[k].state # "DEAD"
Decided(D) == \A p \in proposals : p.cmds \in D

Bounds ==
    \/ family = "basic" /\ Decided(BasicDecisions) /\ OneRun /\ NoneDead
         /\ \A r \in RunIds : taskNext[r] <= 4 /\ Cardinality(Written(r)) <= 5
    \/ family = "mixed" /\ Decided(MixedDecisions) /\ OneRun /\ OneWorker
         /\ \A r \in RunIds : taskNext[r] <= 4
    \/ family = "loop" /\ Decided(LoopDecisions) /\ OneWorker /\ NoneDead
         /\ \A r \in RunIds : taskNext[r] <= 3 /\ Cardinality(Written(r)) <= 4
    \/ family = "any"

MCInit == Init /\ family \in Families
MCNext == Next /\ UNCHANGED family /\ Bounds'
MCSpec == MCInit /\ [][MCNext]_<<vars, family>>

\* FairSpec; the family any bounds nothing, so no fair step is cut off.
MCFairSpec ==
    /\ MCSpec
    /\ \A w \in Workers : WF_vars(WorkerStep(w))
    /\ WF_vars(\E p \in proposals : ApplyAppend(p))
    /\ WF_vars(\E k \in TaskKeys : TaskExpires(k))
=============================================================================
