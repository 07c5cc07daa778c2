----------------------------- MODULE MCGateway ------------------------------
(***************************************************************************)
(* The gateway for TLC.  A behaviour belongs to one family:                *)
(*                                                                         *)
(*   auth     principals: nodes start, fail over and fall behind while     *)
(*            administrators change the root principal                     *)
(*   stream   one stream of a worker, on a leader whose log holds an       *)
(*            administrator and the worker; its grants change once         *)
(*   gate     two streams on one lane without principals, while operators  *)
(*            pause the lane and set its limit                             *)
(*   lock     Singleton: clients of one name whose calls are late          *)
(***************************************************************************)
EXTENDS WorkStream, Singleton

CONSTANTS n1, s1, Families

VARIABLE family

AnyLane  == Lanes \cup {Unnamed}
AnyGroup == Groups \cup {Unnamed}
Consume(lanes, groups) == [lanes |-> lanes, groups |-> groups, actions |-> {"consume"}]
OneGroup  == Consume({"a"}, {"g"})
OneLane   == Consume({"b"}, AnyGroup)
EveryLane == Consume(AnyLane, {"h"})
Anchored  == Consume({"b", Unnamed}, {"h", Unnamed})     \* ^b?$ and ^h?$
MCGrants  == {OneGroup, OneLane, EveryLane, Anchored}

Ask(lane, allow, deny, credit) ==
    [kind |-> "lease", lane |-> lane, allow |-> allow, deny |-> deny, credit |-> credit]
MCRequests ==
    {Ask("a", {"g"}, {}, 1), Ask("b", {}, {"h"}, 1), Ask("a", {}, {}, 1),
     Ask("a", {"g", "h"}, {}, 1), Ask(Unnamed, {"h"}, {}, 0)}

MCMessages ==
    {[id |-> 1, lane |-> "a", group |-> "g"], [id |-> 2, lane |-> "a", group |-> "h"],
     [id |-> 3, lane |-> "b", group |-> "g"]}

MCConfigs == {[rate |-> 0, burst |-> 0], [rate |-> 1, burst |-> 0]}

\* The log of a cluster in which the administrator and the worker "w" were created.
WorkerLog ==
    {<<BootstrapCmd,
       [op |-> "create", name |-> "w", token |-> 1, tags |-> {}, grants |-> g]>> :
        g \in {<<OneGroup, OneLane>>, <<EveryLane, OneGroup>>, <<OneGroup, Anchored>>}}

Served(entries) ==
    /\ authLog = entries /\ leader = n1
    /\ applied = [n \in Nodes |-> Len(entries)]
    /\ rows = [n \in Nodes |-> FoldLeft(ApplyAuth, [p \in Names |-> Absent], entries)]
    /\ phase = [n \in Nodes |-> "serving"] /\ guarded = [n \in Nodes |-> FALSE]
    /\ calls = [a \in Admins |-> IdleCall]
    /\ retired = [n \in Nodes |-> {}] /\ misrevoked = FALSE

\* Both streams serve lane "a" with a credit of 2; no lease ends.
Working ==
    work = [s \in Streams |->
              [Closed EXCEPT !.open = TRUE, !.node = n1, !.token = 1, !.lane = "a",
                             !.workAuthorized = TRUE, !.credit = 2,
                             !.cleared = Lanes \X Groups]]

\* The error of the clocks matters to locks only.  Of two nodes, one at least is
\* started with the bootstrap token.
MCInit ==
    /\ GateInit /\ QueueInit /\ Init /\ family \in Families
    /\ family # "lock" => skew = 0
    /\ \/ family \in {"auth", "lock"} /\ AuthInit /\ work = [s \in Streams |-> Closed]
       \/ /\ family = "stream" /\ \E e \in WorkerLog : Served(e)
          /\ work = [s \in Streams |-> Closed]
       \/ family = "gate" /\ Served(<< >>) /\ Working
    /\ family = "lock" => \A n \in Nodes : ~guarded[n]
    /\ family = "auth" => guarded[n1]

AuthBounds ==
    \A a \in Admins : calls[a] # IdleCall =>
        /\ calls[a].cmd.name = "root"
        /\ calls[a].cmd.op = "grant" => calls[a].cmd.grant = OneGroup
        /\ calls[a].cmd.op = "create" => calls[a].cmd.grants = << >>
        /\ calls[a].cmd.op = "disable" => calls[a].cmd.disabled

\* Either the worker's principal changes once and no lease ends; or, in one of the logs, it
\* stays as it is while leases end, the worker settles one it does not hold and the
\* leadership moves.  A change is made as one and while the stream selects: only the
\* reader looks at the rows, and with a RecvCap of 1 the stream selects between frames.
Unaltered ==
    /\ Len(authLog) = 2 /\ EveryLane \in Given(authLog[2])
    /\ \A a \in Admins : calls[a] = IdleCall

StreamBounds ==
    /\ \A n \in Nodes : phase[n] = "serving" /\ (n # n1 => applied[n] = 2)
    /\ \A s \in Streams : work[s].open => s = s1 /\ work[s].credit <= 2
    /\ work[s1].stray # {} => work[s1].stray = {1} /\ leases > 0 /\ leader = n1
    /\ \/ Unaltered /\ leader # NoNode
       \/ /\ leader = n1 /\ work[s1].open /\ work[s1].node = n1
          /\ Cardinality({m \in Messages : Leased(m)}) = leases
          /\ \A i \in DOMAIN work[s1].recvCh : work[s1].recvCh[i].kind = "lease"
    /\ \A a \in Admins : calls[a] # IdleCall =>
          /\ work[s1].credit > 0
          /\ calls[a].cmd.name = "w" /\ calls[a].cmd.op \in {"revoke", "grant"}
          /\ calls[a].cmd.op = "grant" => calls[a].cmd.grant \in {OneLane, Anchored}

\* Messages go out in order, and a lane with a limit is not paused.
GateBounds ==
    /\ laneCfg["b"] = NoConfig /\ pausedUntil[n1]["b"] = 0
    /\ \A s \in Streams : work[s].open /\ work[s].recvCh = << >>
    /\ \A m \in Messages : holder[m].lease \in {0, m.id}
    /\ Cardinality({m \in Messages : Leased(m)}) = leases
    /\ laneCfg["a"] # NoConfig => pausedUntil[n1]["a"] = 0

MCNext ==
    /\ UNCHANGED family
    /\ \/ /\ family = "auth" /\ AuthNext /\ UNCHANGED <<gateVars, workVars, vars>>
          /\ AuthBounds'
       \/ /\ family = "stream" /\ UNCHANGED vars
          /\ \/ StreamNext /\ \A a \in Admins : calls[a] = IdleCall
             \/ (\E n \in Nodes : Elect(n)) /\ UNCHANGED <<gateVars, workVars>>
             \/ work[s1].at = "select" /\ AuthNext /\ UNCHANGED <<gateVars, workVars>>
          /\ StreamBounds'
       \/ family = "gate" /\ (StreamNext \/ GateNext) /\ UNCHANGED vars /\ GateBounds'
       \/ family = "lock" /\ Next /\ UNCHANGED gatewayVars

MCSpec == MCInit /\ [][MCNext]_<<gatewayVars, vars, family>>

\* Clients differ only by name.
HolderSymmetry == Permutations(Holders)
=============================================================================
