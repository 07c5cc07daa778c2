------------------------------ MODULE Singleton ------------------------------
(***************************************************************************)
(* Singleton leases: cluster-wide mutual exclusion with fencing tokens     *)
(* (applySingleton in internal/fsm/apply_phase4.go, the Acquire-, Renew-   *)
(* and ReleaseSingleton calls of internal/node/control.go).  One name; the *)
(* records of different names do not interact.                             *)
(*                                                                         *)
(* A client has one call outstanding.  When the call times out the client   *)
(* may make another while the first request is still on its way to the      *)
(* leader, or in the log.  The leader stamps a request with its clock and   *)
(* appends it; entries are applied in log order.  now is real time, and     *)
(* leaders' clocks are off by up to skew, which differs between behaviours. *)
(***************************************************************************)
EXTENDS Integers, Sequences, FiniteSets

CONSTANTS
    Holders, Nobody,    \* clients, by the holder name they use
    Ttls,               \* ttl_ms values in use
    Horizon,            \* bound on the clock
    MaxFence,           \* bound on the fencing tokens
    MaxPending,         \* bound on the requests on their way and in the log
    MaxSkew             \* bound on the error of a leader's clock

ASSUME SingletonAssumption ==
    /\ Nobody \notin Holders
    /\ Ttls \subseteq Nat \ {0}
    /\ Horizon \in Nat \ {0}
    /\ {MaxFence, MaxPending, MaxSkew} \subseteq Nat

VARIABLES
    now,        \* real time
    skew,       \* the largest error of a leader's clock
    rec,        \* the SingletonRec
    net,        \* requests on their way to the leader
    log,        \* stamped commands not yet applied
    call,       \* the call each client waits for
    grant       \* what each client was last granted and has not given up

vars == <<now, skew, rec, net, log, call, grant>>

SingletonRec == [holder: Holders \cup {Nobody}, deadline: Int, fence: 0..MaxFence]
Request      == [op: {"acquire", "renew", "release"}, holder: Holders,
                 fence: 0..MaxFence, ttl: Ttls \cup {0}, sent: 1..Horizon]
SingletonCmd == [req: Request, now: Int]
NoCall       == [op |-> "none"]
NoGrant      == [fence |-> 0, until |-> 0]
Grant        == [fence: 0..MaxFence, until: Nat]

-----------------------------------------------------------------------------
(* Clients                                                                 *)

\* A call; a repeated one comes at a later instant.
Send(h, op, fence, ttl) ==
    LET m == [op |-> op, holder |-> h, fence |-> fence, ttl |-> ttl, sent |-> now]
    IN  /\ call[h] = NoCall
        /\ Cardinality(net) + Len(log) < MaxPending
        /\ m \notin net /\ \A i \in DOMAIN log : log[i].req # m
        /\ call' = [call EXCEPT ![h] = m]
        /\ net' = net \cup {m}
        /\ UNCHANGED <<now, skew, rec, log>>

AcquireSingleton(h, ttl) == Send(h, "acquire", 0, ttl) /\ UNCHANGED grant

RenewSingleton(h, ttl) ==
    /\ grant[h] # NoGrant
    /\ Send(h, "renew", grant[h].fence, ttl)
    /\ UNCHANGED grant

\* A client stops its work before it releases.
ReleaseSingleton(h) ==
    /\ grant[h] # NoGrant
    /\ Send(h, "release", grant[h].fence, 0)
    /\ grant' = [grant EXCEPT ![h] = NoGrant]

\* The call times out; its request may still reach the log and be applied.
CallTimesOut(h) ==
    /\ call[h] # NoCall
    /\ call' = [call EXCEPT ![h] = NoCall]
    /\ UNCHANGED <<now, skew, rec, net, log, grant>>

\* The client dies and forgets its grant.
Restart(h) ==
    /\ call[h] # NoCall \/ grant[h] # NoGrant
    /\ call' = [call EXCEPT ![h] = NoCall]
    /\ grant' = [grant EXCEPT ![h] = NoGrant]
    /\ UNCHANGED <<now, skew, rec, net, log>>

-----------------------------------------------------------------------------
(* The leader                                                              *)

\* The request gets the leader's time and a place in the log...
Propose(m) ==
    /\ net' = net \ {m}
    /\ \E t \in (now - skew)..(now + skew) :
          log' = Append(log, [req |-> m, now |-> t])
    /\ UNCHANGED <<now, skew, rec, call, grant>>

\* ...or is lost, to a node that is not the leader or with a deposed one.
Lose(m) == net' = net \ {m} /\ UNCHANGED <<now, skew, rec, log, call, grant>>

-----------------------------------------------------------------------------
(* applySingleton, and what its answer tells the client                    *)

\* The client that still waits for m learns g; a late answer reaches nobody.
Answer(m, g) ==
    IF call[m.holder] = m
    THEN /\ call' = [call EXCEPT ![m.holder] = NoCall]
         /\ grant' = [grant EXCEPT ![m.holder] = g]
    ELSE UNCHANGED <<call, grant>>

\* A client counts its lease from the moment it made the call.
Granted(m, fence) == [fence |-> fence, until |-> m.sent + m.ttl]

\* Mutant: the deadline is compared the wrong way round.
HeldByOther_Expired(c) == rec.holder \notin {Nobody, c.req.holder} /\ rec.deadline < c.now

HeldByOther(c) == rec.holder \notin {Nobody, c.req.holder} /\ rec.deadline > c.now

ApplyAcquire(c) ==
    /\ c.req.op = "acquire"
    /\ IF HeldByOther(c)
       THEN rec' = rec /\ Answer(c.req, NoGrant)
       ELSE /\ rec.fence < MaxFence
            /\ rec' = [holder |-> c.req.holder, deadline |-> c.now + c.req.ttl,
                       fence |-> rec.fence + 1]
            /\ Answer(c.req, Granted(c.req, rec.fence + 1))

Owns(m) == rec.holder = m.holder /\ rec.fence = m.fence

ApplyRenew(c) ==
    /\ c.req.op = "renew"
    /\ IF Owns(c.req)
       THEN /\ rec' = [rec EXCEPT !.deadline = c.now + c.req.ttl]
            /\ Answer(c.req, Granted(c.req, c.req.fence))
       ELSE rec' = rec /\ Answer(c.req, NoGrant)

\* Mutant: the record is deleted, and its fence with it.
Vacated_Deleted == [holder |-> Nobody, deadline |-> 0, fence |-> 0]

\* The record keeps its fence.
Vacated == [rec EXCEPT !.holder = Nobody, !.deadline = 0]

ApplyRelease(c) ==
    /\ c.req.op = "release"
    /\ rec' = IF Owns(c.req) THEN Vacated ELSE rec
    /\ Answer(c.req, NoGrant)

ApplySingleton ==
    LET c == Head(log)
    IN  /\ log # << >>
        /\ ApplyAcquire(c) \/ ApplyRenew(c) \/ ApplyRelease(c)
        /\ log' = Tail(log)
        /\ UNCHANGED <<now, skew, net>>

-----------------------------------------------------------------------------
(* Specification                                                           *)

Init ==
    /\ now = 1 /\ skew \in 0..MaxSkew
    /\ rec = [holder |-> Nobody, deadline |-> 0, fence |-> 0]
    /\ net = {} /\ log = << >>
    /\ call = [h \in Holders |-> NoCall]
    /\ grant = [h \in Holders |-> NoGrant]

Tick == now < Horizon /\ now' = now + 1 /\ UNCHANGED <<skew, rec, net, log, call, grant>>

ClientNext ==
    \E h \in Holders :
        \/ \E ttl \in Ttls : AcquireSingleton(h, ttl) \/ RenewSingleton(h, ttl)
        \/ ReleaseSingleton(h)
        \/ CallTimesOut(h)
        \/ Restart(h)

LeaderNext == ApplySingleton \/ \E m \in net : Propose(m) \/ Lose(m)

Next == Tick \/ ClientNext \/ LeaderNext

Spec == Init /\ [][Next]_vars

-----------------------------------------------------------------------------
(* Properties                                                              *)

\* Every variable keeps its type, and a vacant record has no deadline.
TypeOK ==
    /\ now \in 1..Horizon /\ skew \in 0..MaxSkew /\ rec \in SingletonRec
    /\ rec.holder = Nobody => rec.deadline = 0
    /\ net \subseteq Request
    /\ \A i \in DOMAIN log : log[i] \in SingletonCmd
    /\ call \in [Holders -> Request \cup {NoCall}]
    /\ grant \in [Holders -> Grant]

Believes(h) == grant[h].until > now

\* Two clients never hold the singleton at once, as long as the leaders' clocks
\* agree and a holder keeps to one ttl; delayed and repeated calls included.
MutualExclusion ==
    skew = 0 => \A g, h \in Holders : Believes(g) /\ Believes(h) => g = h

\* Whatever the clocks do, fencing works: no two clients are granted the same
\* fence, and whoever the record names outranks every other grant.
FenceOutranks ==
    /\ \A g, h \in Holders :
          grant[g].fence = grant[h].fence /\ grant[g] # NoGrant => g = h
    /\ \A h \in Holders : grant[h].fence <= rec.fence
=============================================================================
