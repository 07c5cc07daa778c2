------------------------------ MODULE MCPolicy ------------------------------
(***************************************************************************)
(* The scheduling side of a leader for TLC.  A behaviour belongs to one    *)
(* family:                                                                 *)
(*                                                                         *)
(*   rank     Scheduler: policies of every kind go in by the scheduler's   *)
(*            own SetPolicy                                                *)
(*   install  PolicyInstall: operators, lease calls and failovers race     *)
(*   observe  Observatory: what was served, as the console sees it         *)
(***************************************************************************)
EXTENDS PolicyInstall, Observatory, TLC

CONSTANTS
    Families,
    InstallKinds,   \* the kinds operators set in the family install
    InstallLog,     \* the bound on the log in the family install
    InstallCalls,   \* the bound on calls in progress in the family install
    InstallVt       \* the bound on virtual time in the family install

VARIABLE family

MCInit == InstallInit /\ ObsInit /\ family \in Families

\* Installation does not depend on weights, nor on which groups are ready, and on
\* time only through faults: these vary at the start, and later picks are made and
\* time passes only where calls come one by one.
Calls == Cardinality({o \in Operators : setter[o].at # "idle"})
           + Cardinality({l \in Leasers : leaser[l].at # "idle"})

Settled ==
    log # << >> \/ Calls > 0 \/ Current # Opened \/ \E n \in DOMAIN memory : memory[n] # Opened

InstallBounds ==
    /\ ready \subseteq {1} /\ Len(log) <= InstallLog
    /\ \A g \in Groups : vt[g] <= InstallVt
    /\ \A o \in Operators : setter[o].new.kind \in InstallKinds \cup {"none"}
    /\ Calls <= IF ready = {} THEN InstallCalls ELSE 1
    /\ Settled => cost = [g \in Groups |-> 1] /\ (ready = {} => now = 1)

MCNext ==
    /\ UNCHANGED family
    /\ \/ family = "rank" /\ Next
          /\ UNCHANGED <<install, obsVars>>
       \/ family = "install" /\ InstallNext /\ UNCHANGED obsVars
          /\ InstallBounds' /\ (Settled => ready' = ready)
       \/ family = "observe" /\ ObsNext /\ UNCHANGED installVars

MCSpec == MCInit /\ [][MCNext]_<<installVars, obsVars, family>>

\* Nodes, and calls of one kind, differ only by name.
CallSymmetry == Permutations(Nodes) \cup Permutations(Operators) \cup Permutations(Leasers)
=============================================================================
