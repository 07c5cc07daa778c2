--------------------------- MODULE PolicyInstall ----------------------------
(***************************************************************************)
(* Scheduler with the way a policy reaches it: Node.SetPolicy, which       *)
(* replicates a binding and installs it, and Node.ensurePolicy, which      *)
(* every lease call runs first and which installs the stored binding when  *)
(* its version is not the one recorded as loaded.  Both are sequences of   *)
(* steps: neither holds a lock from its read of the store to its install.  *)
(*                                                                         *)
(* A binding is a kind of policy and a version.  Bindings are replicated   *)
(* in one log, of which each node has applied a prefix.  Scheduler's       *)
(* variables are the leader's; a node that loses the lead keeps its own,   *)
(* with the version it recorded, until it leads again or restarts, and so  *)
(* do its calls past their proposal: each of their steps touches only the  *)
(* memory of their node, and is taken before the node stepped down or      *)
(* after it leads again.  A lease call that passed the leader check and    *)
(* had yet to read the store when its node stepped down is left out.       *)
(***************************************************************************)
EXTENDS Scheduler

CONSTANTS
    Nodes,
    Operators,      \* concurrent SetPolicy calls
    Leasers,        \* concurrent lease calls
    BadKinds,       \* policies that Validate refuses
    MaxVersion      \* bound on versions

ASSUME InstallAssumption ==
    /\ BadKinds \cap (Kinds \cup {"none"}) = {}
    /\ MaxVersion \in Nat /\ "nobody" \notin Nodes

VARIABLES
    leader,
    log,            \* committed CmdSetPolicy entries
    applied,        \* how many of them each node has applied
    loaded,         \* loadedPolVer of the leader, 0 if absent
    memory,         \* what the other nodes keep of their schedulers and loaded
    setter,         \* SetPolicy calls
    leaser,         \* lease calls
    calm,           \* history: this leader took over with no call of its own in
                    \* progress; its store has kept its binding and no SetPolicy
                    \* has begun since
    torn            \* history: nodes on which the last install came between the
                    \* install and the record of another SetPolicy

install     == <<leader, log, applied, loaded, memory, setter, leaser, calm, torn>>
installVars == <<vars, install>>

\* policy.Binding.
Binding    == [kind: Kinds, version: 1..MaxVersion]
NoBinding  == [kind |-> "none", version |-> 0]
SetterIdle == [at |-> "idle", on |-> "nobody", new |-> NoBinding]
LeaserIdle == [at |-> "idle", on |-> "nobody", raw |-> NoBinding]

\* GetPolicy on the leader: the binding under PolicyKey(lane).
stored == IF applied[leader] = 0 THEN NoBinding ELSE log[applied[leader]]

\* A call on the leader has reached a step.
Here(call, step) == call.on = leader /\ call.at = step

\* The memory of a lane that Open gives a node, and the leader's.
Opened  == [vt |-> [g \in Groups |-> Unknown], pol |-> "none", faults |-> 0,
            windowStart |-> 0, quarantined |-> FALSE, faultTimes |-> << >>, loaded |-> 0]
Current == [vt |-> vt, pol |-> pol, faults |-> faults, windowStart |-> windowStart,
            quarantined |-> quarantined, faultTimes |-> faultTimes, loaded |-> loaded]

\* Compile and the smoke evaluation accept the source.
Validate(k) == k \notin BadKinds

\* A binding goes to the leader's scheduler.
Install(b) ==
    /\ SetPolicy(b.kind)
    /\ torn' = IF \E o \in Operators : Here(setter[o], "installed") /\ setter[o].new # b
               THEN torn \cup {leader} ELSE torn \ {leader}

-----------------------------------------------------------------------------
(* SetPolicy                                                               *)

\* The version is read; a source that does not validate goes no further.
SetBegin(o, k) ==
    /\ setter[o].at = "idle" /\ Validate(k)
    /\ stored.version < MaxVersion
    /\ setter' = [setter EXCEPT ![o] =
          [at |-> "read", on |-> leader,
           new |-> [kind |-> k, version |-> stored.version + 1]]]
    /\ calm' = FALSE
    /\ UNCHANGED <<vars, leader, log, applied, loaded, memory, leaser, torn>>

\* CmdSetPolicy commits and is applied here, as all before it were.
SetCommit(o) ==
    /\ Here(setter[o], "read") /\ applied[leader] = Len(log)
    /\ log' = Append(log, setter[o].new)
    /\ applied' = [applied EXCEPT ![leader] = Len(log) + 1]
    /\ setter' = [setter EXCEPT ![o].at = "applied"]
    /\ UNCHANGED <<vars, leader, loaded, memory, leaser, calm, torn>>

\* apply returns an error, of an entry that was lost or of one that commits.
SetFails(o) ==
    /\ Here(setter[o], "read")
    /\ log' \in {log, Append(log, setter[o].new)}
    /\ setter' = [setter EXCEPT ![o] = SetterIdle]
    /\ UNCHANGED <<vars, leader, applied, loaded, memory, leaser, calm, torn>>

\* The compiled policy goes to the scheduler.
SetInstall(o) ==
    /\ Here(setter[o], "applied")
    /\ Install(setter[o].new)
    /\ setter' = [setter EXCEPT ![o].at = "installed"]
    /\ UNCHANGED <<leader, log, applied, loaded, memory, leaser, calm>>

\* The loaded version is recorded under polMu.
SetRecord(o) ==
    /\ Here(setter[o], "installed")
    /\ loaded' = setter[o].new.version
    /\ setter' = [setter EXCEPT ![o] = SetterIdle]
    /\ UNCHANGED <<vars, leader, log, applied, memory, leaser, calm, torn>>

-----------------------------------------------------------------------------
(* Lease calls: ensurePolicy, then the pick                                *)

EnsureRead(l) ==
    /\ leaser[l].at = "idle"
    /\ leaser' = [leaser EXCEPT ![l] = [at |-> "read", on |-> leader, raw |-> stored]]
    /\ UNCHANGED <<vars, leader, log, applied, loaded, memory, setter, calm, torn>>

\* Mutant: a node that has a policy loaded keeps it.
Stale_FirstOnly(raw) == loaded = 0 /\ raw.version # 0

\* No binding is stored before the first SetPolicy, and none is ever deleted.
Stale(raw) == loaded # raw.version

EnsureInstall(l) ==
    LET raw == leaser[l].raw
    IN  /\ Here(leaser[l], "read") /\ Stale(raw)
        /\ Install(raw)
        /\ loaded' = raw.version
        /\ leaser' = [leaser EXCEPT ![l].at = "ensured"]
        /\ UNCHANGED <<leader, log, applied, memory, setter, calm>>

EnsureLoaded(l) ==
    /\ Here(leaser[l], "read") /\ ~Stale(leaser[l].raw)
    /\ leaser' = [leaser EXCEPT ![l].at = "ensured"]
    /\ UNCHANGED <<vars, leader, log, applied, loaded, memory, setter, calm, torn>>

\* Pick, on the groups that are ready and accepted by the consumer.
LeasePick(l) ==
    /\ Here(leaser[l], "ensured")
    /\ \E F \in Filters : \E g \in ready \cap F :
          \/ PickByVt(ready \cap F, g)
          \/ PickByPolicy(ready \cap F, g)
          \/ PickFallback(ready \cap F, g)
    /\ leaser' = [leaser EXCEPT ![l] = LeaserIdle]
    /\ UNCHANGED <<leader, log, applied, loaded, memory, setter, calm, torn>>

\* The lane is paused or rate-limited, or no group is active.
LeaseNone(l) ==
    /\ Here(leaser[l], "ensured")
    /\ leaser' = [leaser EXCEPT ![l] = LeaserIdle]
    /\ UNCHANGED <<vars, leader, log, applied, loaded, memory, setter, calm, torn>>

-----------------------------------------------------------------------------
(* Specification                                                           *)

\* A node applies the next entry.
ApplyEntry(n) ==
    /\ applied[n] < Len(log)
    /\ applied' = [applied EXCEPT ![n] = @ + 1]
    /\ calm' = (calm /\ n # leader)
    /\ UNCHANGED <<vars, leader, log, loaded, memory, setter, leaser, torn>>

\* Orders in which proposals of the leader's that have no answer may commit.
Proposed  == {o \in Operators : Here(setter[o], "read")}
Survivors == UNION {{s \in [1..k -> Proposed] : \A i, j \in 1..k : s[i] = s[j] => i = j} :
                    k \in 0..Cardinality(Proposed)}

\* The calls that a change of leader leaves: not those that wait for a commit,
\* nor those of a node that restarts.
Outlasts(call, n, restarted) ==
    ~Here(call, "read") /\ ~(restarted /\ call.on = n)

\* A node leads, itself or another before it, with the memory it kept or, if it
\* has restarted since it led, with the memory of Open.
Failover(n, restarted) ==
    LET kept == [x \in Nodes |-> IF x = leader THEN Current ELSE memory[x]]
        m    == IF restarted THEN Opened ELSE kept[n]
    IN  /\ \E s \in Survivors : log' = log \o [i \in DOMAIN s |-> setter[s[i]].new]
        /\ leader' = n
        /\ memory' = [x \in Nodes \ {n} |-> kept[x]]
        /\ vt' = m.vt /\ pol' = m.pol /\ faults' = m.faults
        /\ windowStart' = m.windowStart /\ quarantined' = m.quarantined
        /\ faultTimes' = m.faultTimes /\ loaded' = m.loaded
        /\ passed' = [g \in Groups |-> [h \in Groups |-> 0]]
        /\ owed' = [g \in Groups |-> [h \in Groups |-> 0]]
        /\ setter' = [o \in Operators |->
              IF Outlasts(setter[o], n, restarted) THEN setter[o] ELSE SetterIdle]
        /\ leaser' = [l \in Leasers |->
              IF restarted /\ leaser[l].on = n THEN LeaserIdle ELSE leaser[l]]
        /\ calm' = /\ \A o \in Operators : setter'[o].on # n
                   /\ \A l \in Leasers : leaser'[l].on # n
        /\ torn' = IF restarted THEN torn \ {n} ELSE torn
        /\ UNCHANGED <<now, ready, cost, applied>>

InstallInit ==
    /\ Init
    /\ leader \in Nodes /\ memory = [n \in Nodes \ {leader} |-> Opened]
    /\ log = << >> /\ applied = [n \in Nodes |-> 0] /\ loaded = 0
    /\ setter = [o \in Operators |-> SetterIdle]
    /\ leaser = [l \in Leasers |-> LeaserIdle]
    /\ calm = TRUE /\ torn = {}

InstallNext ==
    \/ Tick /\ UNCHANGED install
    \/ \E g \in Groups :
          /\ Arrive(g) \/ Leave(g) \/ \E c \in Costs : SetWeight(g, c)
          /\ UNCHANGED install
    \/ \E o \in Operators :
          \/ \E k \in Kinds \cup BadKinds : SetBegin(o, k)
          \/ SetCommit(o) \/ SetFails(o) \/ SetInstall(o) \/ SetRecord(o)
    \/ \E l \in Leasers :
          \/ EnsureRead(l) \/ EnsureInstall(l) \/ EnsureLoaded(l)
          \/ LeasePick(l) \/ LeaseNone(l)
    \/ \E n \in Nodes : ApplyEntry(n) \/ \E restarted \in BOOLEAN : Failover(n, restarted)

InstallSpec == InstallInit /\ [][InstallNext]_installVars

-----------------------------------------------------------------------------
(* Properties                                                              *)

\* What a lane keeps in a node's memory.
Memory == [vt: [Groups -> Nat \cup {Unknown}], pol: Kinds \cup {"none"},
           faults: 0..Threshold, windowStart: Nat, quarantined: BOOLEAN,
           faultTimes: Seq(Nat), loaded: 0..MaxVersion]

SetCall   == [at: {"idle", "read", "applied", "installed"}, on: Nodes \cup {"nobody"},
              new: Binding \cup {NoBinding}]
LeaseCall == [at: {"idle", "read", "ensured"}, on: Nodes \cup {"nobody"},
              raw: Binding \cup {NoBinding}]

\* What the installation keeps of types.
InstallTypeOK ==
    /\ leader \in Nodes /\ log \in Seq(Binding)
    /\ applied \in [Nodes -> Nat] /\ \A n \in Nodes : applied[n] <= Len(log)
    /\ loaded \in 0..MaxVersion /\ memory \in [Nodes \ {leader} -> Memory]
    /\ setter \in [Operators -> SetCall] /\ leaser \in [Leasers -> LeaseCall]
    /\ calm \in BOOLEAN /\ torn \subseteq Nodes

\* The version of the stored binding was never given to another policy.
OneName == \A i \in 1..Len(log) : log[i].version = stored.version => log[i].kind = stored.kind

\* A leader picks up the policy set under another one, whether it leads for the
\* first time or comes back with an older policy and its version in memory: by
\* the time a lease call may pick, however many race, the stored policy is
\* installed.  Conditions: no SetPolicy has begun on this leader or reached its
\* store since it took over, no call of its earlier time as leader is left, its
\* last install did not come between the install and the record of another
\* SetPolicy, and the stored version names one policy.
NewLeaderPicksUp ==
    /\ calm /\ leader \notin torn /\ OneName
    /\ \E l \in Leasers : Here(leaser[l], "ensured")
    => pol = stored.kind /\ loaded = stored.version
=============================================================================
