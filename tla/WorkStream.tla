----------------------------- MODULE WorkStream -----------------------------
(***************************************************************************)
(* Broker.Work (internal/transport/broker.go): a worker's stream through   *)
(* the authorisation of its frames (Auth), the lane's gate (LaneGate) and  *)
(* the credit that bounds what it holds.  The reader authorises a frame    *)
(* and queues it; the loop takes one frame or a tick, tells the worker     *)
(* when the pause has flipped, and leases while it has credit.             *)
(*                                                                         *)
(* A message is ready, leased or gone; what a settlement does beyond that  *)
(* is Broker's.  Complete ends a lease by its token, as Ack or Nack would. *)
(* A worker may settle any lease, whether it holds it or not.              *)
(***************************************************************************)
EXTENDS Auth, LaneGate

CONSTANTS
    Streams,
    Setters,            \* concurrent SetLaneConfig calls
    Messages,           \* [id, lane, group]
    Requests,           \* LeaseRequest frames workers send
    WorkerTokens,       \* tokens workers dial with
    RecvCap,            \* capacity of recvCh
    MaxLeases           \* bound on lease ids

LeaseRequest == [kind: {"lease"}, lane: Lanes \cup {Unnamed}, allow: SUBSET Groups,
                 deny: SUBSET Groups, credit: Nat]
Settlement   == [kind: {"ack", "nack", "extend", "complete"}, lease: 1..MaxLeases]
WorkClientMsg == LeaseRequest \cup Settlement

ASSUME WorkStreamAssumption ==
    /\ GateNodes = Nodes /\ GateLanes = Lanes
    /\ Requests \subseteq LeaseRequest /\ Streams \cap Setters = {}
    /\ \A m \in Messages : m.lane \in Lanes /\ m.group \in Groups
    /\ {RecvCap, MaxLeases} \subseteq Nat

VARIABLES
    holder,         \* the lease of each message: [lease, stream], or Ready, or Gone
    leases,         \* lease ids given out
    work,           \* the streams
    setter,         \* SetLaneConfig calls between their two halves
    late            \* history: leases since the pause of its lane, per stream

workVars  == <<holder, leases, work, setter, late>>
gatewayVars == <<authVars, gateVars, workVars>>

Ready == [lease |-> 0]
Gone  == [lease |-> -1]
Leased(m) == holder[m].lease > 0

\* What a stream knows: the variables of Work, workAuthorized of the reader, the
\* lane configuration the lease call has read; and for the properties what the
\* worker holds, the leases it has settled without holding them, and the
\* (lane, group) pairs it was cleared for.
Closed ==
    [open |-> FALSE, node |-> NoNode, token |-> NoToken, workAuthorized |-> FALSE,
     broken |-> FALSE, recvCh |-> << >>, lane |-> Unnamed, allow |-> {}, deny |-> {},
     credit |-> 0, inflight |-> 0, lastPaused |-> FALSE, at |-> "select",
     raw |-> NoConfig, held |-> {}, stray |-> {}, cleared |-> {}]

Idle == [at |-> "idle", node |-> NoNode, lane |-> Unnamed, raw |-> NoConfig]

\* A call on node n that still holds a limit of l other than the stored one.
HoldsStale(n, l, self) ==
    \/ \E s \in Streams \ {self} : /\ work[s].node = n /\ work[s].lane = l
                                   /\ work[s].at = "read" /\ work[s].raw # laneCfg[l]
    \/ \E o \in Setters \ {self} : /\ setter[o].node = n /\ setter[o].lane = l
                                   /\ setter[o].at = "read"
                                   /\ setter[o].raw # laneCfg[l]

-----------------------------------------------------------------------------
(* The reader                                                              *)

\* Mutant: only one of the groups has to be allowed.
ChecksPass_AnyGroup(n, token, f) ==
    \/ f.allow = {} /\ Authorized(rows[n], token,
                          {[action |-> "consume", lane |-> f.lane, group |-> Unnamed]})
    \/ \E g \in f.allow : Authorized(rows[n], token,
                          {[action |-> "consume", lane |-> f.lane, group |-> g]})

\* checksForStreamMessage of a LeaseRequest.
ChecksPass(n, token, f) ==
    Authorized(rows[n], token,
        {[action |-> "consume", lane |-> f.lane, group |-> g] :
            g \in IF f.allow = {} THEN {Unnamed} ELSE f.allow})

\* What the token may ask for, names left out included.
Cleared(n, token) ==
    {p \in (Lanes \cup {Unnamed}) \X (Groups \cup {Unnamed}) :
        Authorized(rows[n], token,
                   {[action |-> "consume", lane |-> p[1], group |-> p[2]]})}

Dial(s, n, t) ==
    /\ ~work[s].open /\ phase[n] = "serving"
    /\ work' = [work EXCEPT ![s] = [Closed EXCEPT !.open = TRUE, !.node = n, !.token = t]]
    /\ UNCHANGED <<authVars, gateVars, holder, leases, setter, late>>

CanReceive(s) == work[s].open /\ ~work[s].broken /\ Len(work[s].recvCh) < RecvCap

\* A frame that is refused ends the reader; the loop finds the error later.
Refused(s) ==
    /\ work' = [work EXCEPT ![s].broken = TRUE]
    /\ UNCHANGED <<authVars, gateVars, holder, leases, setter, late>>

RecvLeaseRequest(s, f) ==
    LET w == work[s]
    IN  /\ CanReceive(s)
        /\ \/ ~ChecksPass(w.node, w.token, f) /\ Refused(s)
           \/ /\ ChecksPass(w.node, w.token, f)
              /\ work' = [work EXCEPT
                    ![s].recvCh = Append(@, f), ![s].workAuthorized = TRUE,
                    ![s].cleared = @ \cup Cleared(w.node, w.token)]
              /\ UNCHANGED <<authVars, gateVars, holder, leases, setter, late>>

RecvSettlement(s, f) ==
    /\ CanReceive(s)
    /\ \/ /\ ~work[s].workAuthorized /\ AuthEnabled(rows[work[s].node])
          /\ Refused(s)
       \/ /\ work[s].workAuthorized \/ ~AuthEnabled(rows[work[s].node])
          /\ work' = [work EXCEPT
                ![s].recvCh = Append(@, f),
                ![s].stray = @ \cup ({f.lease} \ work[s].held),
                ![s].held = IF f.kind = "extend" THEN @ ELSE @ \ {f.lease}]
          /\ UNCHANGED <<authVars, gateVars, holder, leases, setter, late>>

-----------------------------------------------------------------------------
(* The loop                                                                *)

\* Ack, Nack or Complete reaches the lease, unless the node has lost the lead.
Settled(s, f) ==
    holder' \in {[m \in Messages |->
                    IF leader = work[s].node /\ holder[m].lease = f.lease
                    THEN to ELSE holder[m]] :
                 to \in IF f.kind = "ack" THEN {Gone} ELSE {Ready, Gone}}

\* Notices the pause, and goes on to deliver.
Onward(w) ==
    [w EXCEPT !.at = "deliver",
              !.lastPaused = IF w.lane = Unnamed THEN @ ELSE LanePaused(w.node, w.lane)]

\* A LeaseRequest: what it leaves out stays as it was, credit adds up.
TakeLeaseRequest(s) ==
    LET w == work[s]  f == Head(w.recvCh)
    IN  /\ w.open /\ w.at = "select" /\ w.recvCh # << >> /\ f.kind = "lease"
        /\ work' = [work EXCEPT ![s] =
              IF leader # w.node THEN Closed
              ELSE Onward([w EXCEPT
                     !.recvCh = Tail(@), !.credit = @ + f.credit,
                     !.lane = IF f.lane = Unnamed THEN @ ELSE f.lane,
                     !.allow = IF f.allow = {} THEN @ ELSE f.allow,
                     !.deny = IF f.deny = {} THEN @ ELSE f.deny])]
        /\ late' = [late EXCEPT ![s] = IF f.lane \in {Unnamed, w.lane} THEN @ ELSE 0]
        /\ UNCHANGED <<authVars, gateVars, holder, leases, setter>>

\* Mutant: Extend gives its credit back like the settlements.
Returns_Extend(f) == TRUE

\* Settlements give a credit back, of a lease that has expired too.
Returns(f) == f.kind # "extend"

TakeSettlement(s) ==
    LET w == work[s]  f == Head(w.recvCh)
    IN  /\ w.open /\ w.at = "select" /\ w.recvCh # << >> /\ f.kind # "lease"
        /\ work' = [work EXCEPT ![s] = Onward([w EXCEPT
              !.recvCh = Tail(@),
              !.inflight = IF Returns(f) THEN Max({@ - 1, 0}) ELSE @])]
        /\ IF f.kind = "extend" THEN UNCHANGED holder ELSE Settled(s, f)
        /\ UNCHANGED <<authVars, gateVars, leases, setter, late>>

Ticker(s) ==
    /\ work[s].open /\ work[s].at = "select"
    /\ work' = [work EXCEPT ![s] = Onward(@)]
    /\ UNCHANGED <<authVars, gateVars, holder, leases, setter, late>>

HasCredit(s) == work[s].lane # Unnamed /\ work[s].inflight < work[s].credit

\* A lease call begins: the first half of ensureLaneConfig.
Begin(s) ==
    /\ work[s].open /\ work[s].at = "deliver"
    /\ work' = [work EXCEPT ![s].at = IF HasCredit(s) THEN "read" ELSE "select",
                            ![s].raw = IF HasCredit(s) THEN laneCfg[work[s].lane] ELSE @]
    /\ UNCHANGED <<authVars, gateVars, holder, leases, setter, late>>

Ensure(s) ==
    LET w == work[s]
    IN  /\ w.open /\ w.at = "read"
        /\ EnsureLaneConfig(w.node, w.lane, w.raw, HoldsStale(w.node, w.lane, s))
        /\ work' = [work EXCEPT ![s].at = "ensured", ![s].raw = NoConfig]
        /\ UNCHANGED <<authVars, clock, laneCfg, pausedUntil, holder, leases, setter, late>>

Gate(s) ==
    LET w == work[s]
    IN  /\ w.open /\ w.at = "ensured"
        /\ \E open \in BOOLEAN :
              /\ PassGate(w.node, w.lane, open)
              /\ work' = [work EXCEPT ![s].at = IF open THEN "gated" ELSE "select"]
        /\ UNCHANGED <<authVars, clock, laneCfg, loadedCfg, settled,
                       holder, leases, setter, late>>

\* The groups of the lane the filters let through, as LeaseOneFiltered takes them.
Eligible(w) ==
    {m \in Messages : /\ holder[m] = Ready /\ m.lane = w.lane
                      /\ w.allow # {} => m.group \in w.allow
                      /\ m.group \notin w.deny}

\* LeaseOneFiltered leases a message to the stream.
LeaseOne(s) ==
    LET w == work[s]
    IN  /\ w.open /\ w.at = "gated" /\ leader = w.node /\ leases < MaxLeases
        /\ \E m \in Eligible(w) :
              holder' = [holder EXCEPT ![m] = [lease |-> leases + 1, stream |-> s]]
        /\ leases' = leases + 1
        /\ late' = [late EXCEPT ![s] = IF LanePaused(w.node, w.lane) THEN @ + 1 ELSE 0]
        /\ UNCHANGED <<authVars, gateVars, setter>>

\* It is sent.
Lease(s) ==
    /\ LeaseOne(s)
    /\ work' = [work EXCEPT ![s].at = "deliver", ![s].inflight = @ + 1,
                            ![s].held = @ \cup {leases + 1}]

\* The send or the registration of its token fails, or the entry commits too late:
\* the stream ends and the message stays leased.
LeaseUnsent(s) == LeaseOne(s) /\ work' = [work EXCEPT ![s] = Closed]

\* Nothing is eligible, or the group picked on the view has been emptied since.
LeaseEmpty(s) ==
    /\ work[s].open /\ work[s].at = "gated"
    /\ work' = [work EXCEPT ![s].at = "select"]
    /\ UNCHANGED <<authVars, gateVars, holder, leases, setter, late>>

\* The proposal fails, of a node that no longer leads or with a timeout.
LeaseFails(s) ==
    /\ work[s].open /\ work[s].at = "gated"
    /\ work' = [work EXCEPT ![s] = Closed]
    /\ UNCHANGED <<authVars, gateVars, holder, leases, setter, late>>

\* The worker goes away, or the reader's error is found.
Close(s) ==
    /\ work[s].open /\ work[s].at = "select"
    /\ work' = [work EXCEPT ![s] = Closed]
    /\ UNCHANGED <<authVars, gateVars, holder, leases, setter, late>>

\* The lease's timer fires; the stream is not told and its credit not returned.
Expire(m) ==
    /\ Leased(m) /\ holder' = [holder EXCEPT ![m] = Ready]
    /\ UNCHANGED <<authVars, gateVars, leases, work, setter, late>>

-----------------------------------------------------------------------------
(* Operators                                                               *)

\* SetLaneRateLimit applies on the leader, reads back ...
SetLimit(o, l, c) ==
    /\ leader # NoNode /\ setter[o] = Idle /\ c # laneCfg[l]
    /\ SetLaneConfig(l, c)
    /\ setter' = [setter EXCEPT ![o] =
                     [at |-> "applied", node |-> leader, lane |-> l, raw |-> NoConfig]]
    /\ UNCHANGED <<authVars, clock, loadedCfg, limiter, pausedUntil,
                   holder, leases, work, late>>

SetLimitReads(o) ==
    /\ setter[o].at = "applied"
    /\ setter' = [setter EXCEPT ![o].at = "read", ![o].raw = laneCfg[setter[o].lane]]
    /\ UNCHANGED <<authVars, gateVars, holder, leases, work, late>>

\* ... and installs what it read.
SetLimitEnds(o) ==
    LET c == setter[o]
    IN  /\ c.at = "read"
        /\ EnsureLaneConfig(c.node, c.lane, c.raw, HoldsStale(c.node, c.lane, o))
        /\ setter' = [setter EXCEPT ![o] = Idle]
        /\ UNCHANGED <<authVars, clock, laneCfg, pausedUntil, holder, leases, work, late>>

\* A pause that begins: what streams lease from here on is late.
Pause(l) ==
    /\ leader # NoNode /\ PauseLane(leader, l)
    /\ late' = IF LanePaused(leader, l) THEN late
               ELSE [s \in Streams |-> IF work[s].lane = l THEN 0 ELSE late[s]]
    /\ UNCHANGED <<authVars, clock, laneCfg, loadedCfg, limiter, settled,
                   holder, leases, work, setter>>

Resume(l) ==
    /\ leader # NoNode /\ ResumeLane(leader, l)
    /\ UNCHANGED <<authVars, clock, laneCfg, loadedCfg, limiter, settled, workVars>>

ClockTick ==
    /\ GateTick
    /\ UNCHANGED <<authVars, laneCfg, loadedCfg, pausedUntil, settled, workVars>>

-----------------------------------------------------------------------------
(* Specification                                                           *)

QueueInit ==
    /\ holder = [m \in Messages |-> Ready] /\ leases = 0
    /\ setter = [o \in Setters |-> Idle]
    /\ late = [s \in Streams |-> 0]

StreamNext ==
    \/ \E s \in Streams :
          \/ \E n \in Nodes, t \in WorkerTokens : Dial(s, n, t)
          \/ \E f \in Requests : RecvLeaseRequest(s, f)
          \/ \E f \in Settlement : RecvSettlement(s, f)
          \/ TakeLeaseRequest(s) \/ TakeSettlement(s) \/ Ticker(s)
          \/ Begin(s) \/ Ensure(s) \/ Gate(s)
          \/ Lease(s) \/ LeaseUnsent(s) \/ LeaseEmpty(s) \/ LeaseFails(s) \/ Close(s)
    \/ \E m \in Messages : Expire(m)

GateNext ==
    \/ \E l \in Lanes :
          \/ \E o \in Setters, c \in LaneConfigs : SetLimit(o, l, c)
          \/ Pause(l) \/ Resume(l)
    \/ \E o \in Setters : SetLimitReads(o) \/ SetLimitEnds(o)
    \/ ClockTick

GatewayInit == AuthInit /\ GateInit /\ QueueInit /\ work = [s \in Streams |-> Closed]

GatewayNext ==
    \/ StreamNext \/ GateNext
    \/ AuthNext /\ UNCHANGED <<gateVars, workVars>>

GatewaySpec == GatewayInit /\ [][GatewayNext]_gatewayVars

-----------------------------------------------------------------------------
(* Properties                                                              *)

\* Types.
WorkTypeOK ==
    /\ \A s \in Streams : /\ {work[s].credit, work[s].inflight, late[s]} \subseteq Nat
                          /\ Len(work[s].recvCh) <= RecvCap
    /\ leases \in 0..MaxLeases
    /\ \A m \in Messages : holder[m].lease \in -1..MaxLeases

\* The leases a stream was sent and whose settlement it has not processed.
Unsettled(s) ==
    work[s].held \cup {work[s].recvCh[i].lease :
                          i \in {j \in DOMAIN work[s].recvCh : work[s].recvCh[j].kind # "lease"}}

\* The grants an entry gives, and those that are not anchored: a pattern that
\* matches the empty name matches every name.
Given(c) ==
    CASE c.op = "create" -> {c.grants[i] : i \in DOMAIN c.grants}
      [] c.op = "grant"  -> {c.grant}
      [] OTHER           -> {}
OpenGrants ==
    {g \in AuthGrant : /\ Unnamed \in g.lanes => Lanes \subseteq g.lanes
                       /\ Unnamed \in g.groups => Groups \subseteq g.groups}

\* So far every grant was open.
OnlyOpen == \A i \in DOMAIN authLog : Given(authLog[i]) \subseteq OpenGrants

\* The checks that stand for a lane and a group: one of the two may be left out.
StandsFor(l, g) == {<<l, g>>, <<l, Unnamed>>, <<Unnamed, g>>}

\* A stream is cleared for a lane and a group: a check that stands for the two has
\* passed, and if no grant is anchored, so has or would have the one that names both.
ClearedFor(l, g, cleared) ==
    /\ StandsFor(l, g) \cap cleared # {}
    /\ OnlyOpen => <<l, g>> \in cleared

\* Everything a stream is sent lies in a lane and group its token was allowed to
\* consume when one of its lease requests came in, however lanes, filters and
\* omissions of several requests combine, and grants change.  A name the worker
\* left out was allowed as the empty name, which an anchored pattern may match
\* without matching the message's; one of the two it has named.
StreamWithinGrants ==
    \A m \in Messages : Leased(m) =>
        LET w == work[holder[m].stream]
        IN  holder[m].lease \in w.held => ClearedFor(m.lane, m.group, w.cleared)

\* Credit bounds what a stream holds (DESIGN.md: credit 1 is "strictly serial"): however
\* leases expire and are leased again, the inflight count of an open stream is at
\* most its credit, and its live leases are at most that count, if the worker has
\* settled only leases it held (the loop gives a credit back for any settlement).
CreditBounds ==
    \A s \in Streams : work[s].open =>
        /\ work[s].inflight <= work[s].credit
        /\ work[s].stray = {} =>
              Cardinality({m \in Messages : Leased(m) /\ holder[m].lease \in Unsettled(s)})
                 <= work[s].inflight

\* When PauseLane has returned, a stream leases at most once more from the lane:
\* the call that had passed the gate.
PauseDrains == \A s \in Streams : late[s] <= 1
=============================================================================
