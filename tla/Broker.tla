------------------------------- MODULE Broker -------------------------------
(***************************************************************************)
(* The broker half of the replicated state machine: what FSM.Apply does to *)
(* messages, leases, group metadata, completion tokens, dedup rows, dead   *)
(* letters and the due-time index (internal/fsm/fsm.go, apply_phase4.go),  *)
(* and the leader's reads that propose those commands (internal/node).     *)
(*                                                                         *)
(* Every FSM command is applied to the committed state as one atomic       *)
(* batch, so a command is one action.  What is read by the leader BEFORE   *)
(* it proposes (the scheduler's candidate groups, the reaper's idle        *)
(* groups) is kept in a variable of its own: the state may move between    *)
(* the read and the apply.  A command that finds nothing to do leaves the  *)
(* state alone and is not an action.                                       *)
(*                                                                         *)
(* now is the leader's clock, stamped into every command.                  *)
(***************************************************************************)
EXTENDS Integers, FiniteSets

CONSTANTS
    Lanes, Groups,      \* the lanes and groups clients use
    MaxMsgId,           \* bound on per-group message ids
    MaxLease,           \* bound on the global lease counter
    MaxPublish,         \* bound on accepted publishes
    MaxEpoch,           \* bound on the epoch an extend may reach
    Horizon,            \* bound on the clock; no timer is armed beyond it
    Delays,             \* not_before and nack delays clients ask for, 0 is none
    Ttls,               \* time-to-live values publishers ask for, 0 is none
    AttemptLimits,      \* max_attempts values publishers ask for, 0 is default
    Tokens, NoToken,    \* producer-supplied completion tokens
    Minted,             \* publish flag: mint a token when the message is leased
    TokenModes,         \* subset of Tokens \cup {NoToken, Minted} in use
    DedupKeys, NoKey,   \* producer idempotency keys
    Visibility,         \* VisibilityMs
    MaxLifetime,        \* MaxLeaseLifetimeMs, 0 disables the cap
    DedupWindow,        \* dedupWindowMs
    IdleReap,           \* IdleReapMs, 0 disables the reaper
    Backoff,            \* backoffMs, a positive delay
    AdminOps            \* operator commands in use, a subset of AllAdminOps

AllAdminOps == {"redrive", "purge", "pause", "config", "reap", "teardown"}

ASSUME BrokerAssumption ==
    /\ {MaxMsgId, MaxLease, MaxPublish, MaxEpoch, Horizon} \subseteq Nat
    /\ {Visibility, DedupWindow, Backoff} \subseteq Nat \ {0}
    /\ {MaxLifetime, IdleReap} \subseteq Nat
    /\ Delays \subseteq Nat /\ Ttls \subseteq Nat /\ AttemptLimits \subseteq Nat
    /\ NoToken \notin Tokens /\ Minted \notin Tokens /\ Minted # NoToken
    /\ (Tokens \cup {NoToken, Minted}) \cap (1..MaxLease) = {}
    /\ TokenModes \subseteq Tokens \cup {NoToken, Minted}
    /\ NoKey \notin DedupKeys
    /\ AdminOps \subseteq AllAdminOps

DefaultMaxAttempts == 3

Queues   == Lanes \X Groups          \* a group of a lane
MsgIds   == 0..MaxMsgId
Keys     == Queues \X MsgIds         \* storage.MessageKey
LeaseIds == 1..MaxLease
Bodies   == 1..MaxPublish            \* payload identity, one per accepted publish

\* A token is a producer's token or the one minted for a lease, named by the lease.
TokenIds == Tokens \cup LeaseIds

PublishReq ==
    [delay: Delays, ttl: Ttls, max: AttemptLimits, token: TokenModes,
     dedup: DedupKeys \cup {NoKey}]

VARIABLES
    now,            \* the leader's clock
    msgs,           \* message rows: Keys -> Message or NoMessage
    meta,           \* group metadata: Queues -> GroupMeta or NoMeta
    leases,         \* lease rows: LeaseIds -> LeaseRow or NoLease
    nextLease,      \* meta:next_lease_id
    tokens,         \* token rows: TokenIds -> lease id, 0 is absent
    dedup,          \* dedup rows: (lane, key) -> message id and window expiry
    dlq,            \* dead-letter rows
    readyAt, leaseDeadline, leaseMaxLife, msgExpiry, dedupExpiry,
                    \* the due-time index, one set of rows per timer kind
    picked,         \* groups a LeaseOne call has chosen and not yet leased from
    reapCmds,       \* groups the reaper has chosen and not yet reaped
    published, acked, dropped, promised
                    \* history: accepted publishes, bodies acked by a holder,
                    \* bodies an operator dropped, dedup windows promised

store   == <<msgs, meta, leases, nextLease, tokens, dedup, dlq>>
timers  == <<readyAt, leaseDeadline, leaseMaxLife, msgExpiry, dedupExpiry>>
history == <<published, acked, dropped, promised>>
vars    == <<now, store, timers, picked, reapCmds, history>>

-----------------------------------------------------------------------------
(* Rows                                                                    *)

NoMessage == [state |-> "NONE"]
Message ==
    [state: {"READY", "DELAYED", "LEASED"}, lease: Nat, epoch: Nat,
     attempt: Nat, max: AttemptLimits, token: TokenModes, body: Bodies,
     due: Nat,          \* history: when the latest delay ends
     ttlAt: Nat]        \* history: when the time-to-live ends, 0 is never

NoLease == [live |-> FALSE]
LeaseRow ==
    [live: {TRUE}, key: Keys, deadline: Nat,
     token: TokenIds \cup {NoToken},    \* CompletionTokenHash
     want: TokenModes,                  \* LeaseResult.ExternalToken / IssueToken
     body: Bodies]                      \* LeaseResult.Payload

NoMeta == [exists |-> FALSE]
GroupMeta ==
    [exists: {TRUE}, next: Nat, ready: Nat, inflight: Nat, delayed: Nat,
     total: Nat, paused: BOOLEAN, last: Nat]

DeadRow ==
    [key: Keys, deadAt: Nat, body: Bodies, max: AttemptLimits,
     token: TokenModes, attempt: Nat, ttlAt: Nat,
     reason: {"max_attempts", "terminal_nack", "max_lease_lifetime", "ttl"}]

Timer(S) == [due: Nat, ref: S, epoch: Nat]

DedupRefs == Lanes \X DedupKeys
NoDedup   == [id |-> 0, expiry |-> 0]

-----------------------------------------------------------------------------
(* Helpers                                                                 *)

Decr(n) == IF n > 0 THEN n - 1 ELSE 0

\* addTimer and delTimer: a row is keyed by (due, kind, ref).
DelTimer(T, due, ref) == {t \in T : ~(t.due = due /\ t.ref = ref)}
AddTimer(T, due, ref, epoch) ==
    DelTimer(T, due, ref) \cup {[due |-> due, ref |-> ref, epoch |-> epoch]}

\* The default metadata of a group that has none.
FreshMeta ==
    [exists |-> TRUE, next |-> 1, ready |-> 0, inflight |-> 0, delayed |-> 0,
     total |-> 0, paused |-> FALSE, last |-> 0]
\* What reading a missing row into an empty protobuf message gives.
ZeroMeta == [FreshMeta EXCEPT !.next = 0]

LoadGroupMeta(q) == IF meta[q].exists THEN meta[q] ELSE FreshMeta
ReadMeta(q)      == IF meta[q].exists THEN meta[q] ELSE ZeroMeta
\* A handler that changes counters of a group without a row does not create one.
PutIfFound(q, g) == IF meta[q].exists THEN [meta EXCEPT ![q] = g] ELSE meta

\* Mutant: messages in flight are treated as droppable.
Leasable_Any(m) == m.state # "NONE"

Leasable(m) == m.state \in {"READY", "DELAYED"}
ReadyIds(q) == {i \in MsgIds : msgs[<<q, i>>].state = "READY"}

\* headReady: the first READY message in key order.
IsHeadReady(q, i) == i \in ReadyIds(q) /\ \A j \in ReadyIds(q) : i <= j

\* The lease is still the one its message is leased under.
LeaseCurrent(l) ==
    /\ msgs[leases[l].key].state = "LEASED"
    /\ msgs[leases[l].key].lease = l

\* Mutant: the lease row goes, its token row stays.
DeleteLeaseToken_Kept(l) == tokens

\* deleteLeaseToken: the token row goes with the lease.
DeleteLeaseToken(l) ==
    IF leases[l].token = NoToken THEN tokens
    ELSE [tokens EXCEPT ![leases[l].token] = 0]

Limit(m) == IF m.max = 0 THEN DefaultMaxAttempts ELSE m.max
AttemptsExhausted(m) == m.attempt >= Limit(m)

\* Mutant: the timer carries the epoch the message had before the requeue.
TimersRequeued_OldEpoch(k, at) ==
    IF at > now THEN AddTimer(readyAt, at, k, msgs[k].epoch) ELSE readyAt

\* makeReady: READY now, or DELAYED until at with a timer carrying the new epoch.
Requeued(m, at) ==
    [m EXCEPT !.state = IF at > now THEN "DELAYED" ELSE "READY",
              !.lease = 0, !.epoch = @ + 1, !.due = at]
MetaRequeued(g, at) ==
    IF at > now THEN [g EXCEPT !.delayed = @ + 1] ELSE [g EXCEPT !.ready = @ + 1]
TimersRequeued(k, at) ==
    IF at > now THEN AddTimer(readyAt, at, k, msgs[k].epoch + 1) ELSE readyAt

\* Mutant: the DLQ key lacks the message id.
DeadLetters_KeyWithoutId(k, m, reason) ==
    {r \in dlq : ~(r.key[1] = k[1] /\ r.deadAt = now)}
      \cup {[key |-> k, deadAt |-> now, body |-> m.body, max |-> m.max,
             token |-> m.token, attempt |-> m.attempt, ttlAt |-> m.ttlAt,
             reason |-> reason]}

\* deadLetter: a DLQ row keyed by (lane, group, deadAt, id) replaces the message.
DeadLetters(k, m, reason) ==
    {r \in dlq : ~(r.key = k /\ r.deadAt = now)}
      \cup {[key |-> k, deadAt |-> now, body |-> m.body, max |-> m.max,
             token |-> m.token, attempt |-> m.attempt, ttlAt |-> m.ttlAt,
             reason |-> reason]}


-----------------------------------------------------------------------------
(* Publishing                                                              *)

\* publishOne, with the metadata row its caller persists.  r is a publish
\* request, body the identity of its payload.
PublishOne(q, r, body) ==
    LET g == LoadGroupMeta(q)
        k == <<q, g.next>>
    IN  /\ g.next \in MsgIds
        /\ msgs' = [msgs EXCEPT ![k] =
              [state |-> IF r.delay > 0 THEN "DELAYED" ELSE "READY",
               lease |-> 0, epoch |-> 0, attempt |-> 0, max |-> r.max,
               token |-> r.token, body |-> body, due |-> now + r.delay,
               ttlAt |-> IF r.ttl > 0 THEN now + r.ttl ELSE 0]]
        /\ meta' = [meta EXCEPT ![q] =
              [g EXCEPT !.next = @ + 1, !.total = @ + 1, !.last = now,
                        !.delayed = IF r.delay > 0 THEN @ + 1 ELSE @,
                        !.ready   = IF r.delay > 0 THEN @ ELSE @ + 1]]
        /\ readyAt' = IF r.delay > 0
                      THEN AddTimer(readyAt, now + r.delay, k, 0) ELSE readyAt
        /\ msgExpiry' = IF r.ttl > 0
                        THEN AddTimer(msgExpiry, now + r.ttl, k, 0) ELSE msgExpiry

\* checkDedup: the key is inside a live window.
IsDuplicate(q, r) ==
    r.dedup # NoKey /\ dedup[<<q[1], r.dedup>>].expiry > now

\* applyPublish; a duplicate returns the original id and changes nothing.
Publish(q, r) ==
    LET ref == <<q[1], r.dedup>>
        exp == now + DedupWindow
    IN  /\ published < MaxPublish
        /\ now + r.delay <= Horizon /\ now + r.ttl <= Horizon
        /\ ~IsDuplicate(q, r)
        /\ published' = published + 1
        /\ PublishOne(q, r, published + 1)
        /\ IF r.dedup = NoKey
           THEN UNCHANGED <<dedup, dedupExpiry, promised>>
           ELSE /\ exp <= Horizon
                /\ dedup' = [dedup EXCEPT ![ref] =
                      [id |-> LoadGroupMeta(q).next, expiry |-> exp]]
                /\ dedupExpiry' = AddTimer(dedupExpiry, exp, ref, 0)
                /\ promised' = [promised EXCEPT ![ref] = exp]
        /\ UNCHANGED <<now, leases, nextLease, tokens, dlq, leaseDeadline,
                       leaseMaxLife, picked, reapCmds, acked, dropped>>

\* The scan of the group's dead letters, oldest first, stops at this row.
OldestOfId(row) == \A r \in dlq : r.key = row.key => row.deadAt <= r.deadAt

\* Mutant: the dead letter is not removed.
Redrive_RowKept(row) ==
    /\ OldestOfId(row)
    /\ PublishOne(row.key[1], [delay |-> 0, ttl |-> 0, max |-> row.max,
                               token |-> row.token], row.body)
    /\ UNCHANGED <<now, leases, nextLease, tokens, dedup, dlq, leaseDeadline,
                   leaseMaxLife, dedupExpiry, picked, reapCmds, history>>

\* applyRedrive: the oldest dead letter with its id becomes a fresh message.
Redrive(row) ==
    /\ OldestOfId(row)
    /\ PublishOne(row.key[1], [delay |-> 0, ttl |-> 0, max |-> row.max,
                               token |-> row.token], row.body)
    /\ dlq' = dlq \ {row}
    /\ UNCHANGED <<now, leases, nextLease, tokens, dedup, leaseDeadline,
                   leaseMaxLife, dedupExpiry, picked, reapCmds, history>>

-----------------------------------------------------------------------------
(* Leasing and settling                                                    *)

\* LeaseOneFiltered up to the proposal: the scheduler picks one of the groups
\* that have ready messages and are not paused (fairness: module Scheduler).
Pick(q) ==
    /\ q \notin picked
    /\ meta[q].exists /\ meta[q].ready > 0 /\ ~meta[q].paused
    /\ picked' = picked \cup {q}
    /\ UNCHANGED <<now, store, timers, reapCmds, history>>

\* headReady returned nothing: an empty result.
LeaseEmpty(q) ==
    /\ q \in picked /\ ReadyIds(q) = {}
    /\ picked' = picked \ {q}
    /\ UNCHANGED <<now, store, timers, reapCmds, history>>

\* applyLease.
Lease(q, i) ==
    LET k == <<q, i>>
        m == [msgs[k] EXCEPT !.state = "LEASED", !.lease = nextLease,
                             !.epoch = @ + 1]
        g == ReadMeta(q)
    IN  /\ q \in picked /\ IsHeadReady(q, i)
        /\ nextLease \in LeaseIds
        /\ now + Visibility <= Horizon /\ now + MaxLifetime <= Horizon
        /\ picked' = picked \ {q}
        /\ nextLease' = nextLease + 1
        /\ msgs' = [msgs EXCEPT ![k] = m]
        /\ leases' = [leases EXCEPT ![nextLease] =
              [live |-> TRUE, key |-> k, deadline |-> now + Visibility,
               token |-> NoToken, want |-> m.token, body |-> m.body]]
        /\ meta' = [meta EXCEPT ![q] =
              [g EXCEPT !.ready = Decr(@), !.inflight = @ + 1]]
        /\ leaseDeadline' =
              AddTimer(leaseDeadline, now + Visibility, nextLease, m.epoch)
        /\ leaseMaxLife' = IF MaxLifetime > 0
              THEN AddTimer(leaseMaxLife, now + MaxLifetime, nextLease, 0)
              ELSE leaseMaxLife
        /\ UNCHANGED <<now, tokens, dedup, dlq, readyAt, msgExpiry,
                       dedupExpiry, reapCmds, history>>

\* applyIssueToken, the second command of LeaseOneFiltered: it may reach the
\* log after the lease is gone, and then does nothing.
IssueToken(l) ==
    LET t == IF leases[l].want = Minted THEN l ELSE leases[l].want
    IN  /\ leases[l].live
        /\ leases[l].want # NoToken /\ leases[l].token = NoToken
        /\ leases' = [leases EXCEPT ![l].token = t]
        /\ tokens' = [tokens EXCEPT ![t] = l]
        /\ UNCHANGED <<now, msgs, meta, nextLease, dedup, dlq, timers, picked,
                       reapCmds, history>>

\* applyAck of a lease, with tok the token rows after the caller's own delete.
\* The message row is deleted whatever lease it is under.
AckLease(l, tok) ==
    LET k == leases[l].key
        g == meta[k[1]]
    IN  /\ msgs' = [msgs EXCEPT ![k] = NoMessage]
        /\ leases' = [leases EXCEPT ![l] = NoLease]
        /\ tokens' = tok
        /\ leaseDeadline' = DelTimer(leaseDeadline, leases[l].deadline, l)
        /\ meta' = PutIfFound(k[1], [g EXCEPT !.inflight = Decr(@),
                                              !.total = Decr(@)])
        /\ acked' = acked \cup {leases[l].body}
        /\ UNCHANGED <<now, nextLease, dedup, dlq, readyAt, leaseMaxLife,
                       msgExpiry, dedupExpiry, picked, reapCmds, published,
                       dropped, promised>>

Ack(l) == leases[l].live /\ AckLease(l, DeleteLeaseToken(l))

\* The lease part of applyNack, done before the message is looked at.
EndLease(l, tok) ==
    /\ leases' = [leases EXCEPT ![l] = NoLease]
    /\ tokens' = tok
    /\ leaseDeadline' = DelTimer(leaseDeadline, leases[l].deadline, l)
    /\ UNCHANGED <<now, nextLease, dedup, leaseMaxLife, msgExpiry, dedupExpiry,
                   picked, reapCmds, history>>

\* The message goes back to its group at time at.
RequeueMsg(k, m, at) ==
    /\ at <= Horizon
    /\ msgs' = [msgs EXCEPT ![k] = Requeued(m, at)]
    /\ meta' = PutIfFound(k[1], MetaRequeued(
                  [meta[k[1]] EXCEPT !.inflight = Decr(@)], at))
    /\ readyAt' = TimersRequeued(k, at)
    /\ UNCHANGED dlq

\* The message in flight becomes a dead letter.
DeadLetterMsg(k, m, reason) ==
    /\ msgs' = [msgs EXCEPT ![k] = NoMessage]
    /\ dlq' = DeadLetters(k, m, reason)
    /\ meta' = PutIfFound(k[1], [meta[k[1]] EXCEPT !.inflight = Decr(@),
                                                   !.total = Decr(@)])
    /\ UNCHANGED readyAt

\* applyNack, mode NackRetry.  A caller's delay replaces the backoff.
NackRetryLease(l, delay, tok) ==
    LET k == leases[l].key
        m == [msgs[k] EXCEPT !.attempt = @ + 1]
    IN  /\ leases[l].live
        /\ EndLease(l, tok)
        /\ IF ~LeaseCurrent(l) THEN UNCHANGED <<msgs, meta, readyAt, dlq>>
           ELSE IF AttemptsExhausted(m) THEN DeadLetterMsg(k, m, "max_attempts")
           ELSE RequeueMsg(k, m, now + (IF delay > 0 THEN delay ELSE Backoff))

NackRetry(l, delay) == NackRetryLease(l, delay, DeleteLeaseToken(l))

\* applyNack, mode NackDeadLetter.
NackDeadLetter(l) ==
    LET k == leases[l].key
    IN  /\ leases[l].live
        /\ EndLease(l, DeleteLeaseToken(l))
        /\ IF LeaseCurrent(l) THEN DeadLetterMsg(k, msgs[k], "terminal_nack")
           ELSE UNCHANGED <<msgs, meta, readyAt, dlq>>

\* applyNack, mode NackRequeueNoPenalty.
NackRequeue(l, delay) ==
    LET k == leases[l].key
    IN  /\ leases[l].live
        /\ EndLease(l, DeleteLeaseToken(l))
        /\ IF LeaseCurrent(l) THEN RequeueMsg(k, msgs[k], now + delay)
           ELSE UNCHANGED <<msgs, meta, readyAt, dlq>>

\* Mutant: the new deadline row keeps the epoch of the old one.
Extend_StaleEpoch(l, ttl) ==
    LET k == leases[l].key
        e == msgs[k].epoch + 1
    IN  /\ leases[l].live /\ LeaseCurrent(l)
        /\ e <= MaxEpoch /\ now + ttl <= Horizon
        /\ msgs' = [msgs EXCEPT ![k].epoch = e]
        /\ leases' = [leases EXCEPT ![l].deadline = now + ttl]
        /\ leaseDeadline' =
              AddTimer(DelTimer(leaseDeadline, leases[l].deadline, l),
                       now + ttl, l, msgs[k].epoch)
        /\ UNCHANGED <<now, meta, nextLease, tokens, dedup, dlq, readyAt,
                       leaseMaxLife, msgExpiry, dedupExpiry, picked, reapCmds,
                       history>>

\* applyExtend: a new deadline under a new epoch.
Extend(l, ttl) ==
    LET k == leases[l].key
        e == msgs[k].epoch + 1
    IN  /\ leases[l].live /\ LeaseCurrent(l)
        /\ e <= MaxEpoch /\ now + ttl <= Horizon
        /\ msgs' = [msgs EXCEPT ![k].epoch = e]
        /\ leases' = [leases EXCEPT ![l].deadline = now + ttl]
        /\ leaseDeadline' =
              AddTimer(DelTimer(leaseDeadline, leases[l].deadline, l),
                       now + ttl, l, e)
        /\ UNCHANGED <<now, meta, nextLease, tokens, dedup, dlq, readyAt,
                       leaseMaxLife, msgExpiry, dedupExpiry, picked, reapCmds,
                       history>>

\* applyComplete: settle the lease a token row points to.
Complete(t, success, delay) ==
    LET l   == tokens[t]
        tok == [DeleteLeaseToken(l) EXCEPT ![t] = 0]
    IN  /\ l # 0
        /\ IF ~leases[l].live
           THEN /\ tokens' = [tokens EXCEPT ![t] = 0]
                /\ UNCHANGED <<now, msgs, meta, leases, nextLease, dedup, dlq,
                               timers, picked, reapCmds, history>>
           ELSE IF success THEN AckLease(l, tok)
           ELSE NackRetryLease(l, delay, tok)

-----------------------------------------------------------------------------
(* The due-time index.  sweepTimers proposes a fire for every row that is  *)
(* due; applyFireTimer re-reads the row (a duplicate fire finds it gone)   *)
(* and always deletes it.                                                  *)

\* Mutant: the scan runs one tick too far.
Due_OneTickEarly(t) == t.due <= now + 1

\* A row is due: sweepTimers scans the index up to and including now.
Due(t) == t.due <= now

\* The message still waits for this very timer.
ReadyFence(t) ==
    msgs[t.ref].state = "DELAYED" /\ msgs[t.ref].epoch = t.epoch

FireReadyAt(t) ==
    /\ Due(t)
    /\ readyAt' = readyAt \ {t}
    /\ IF ReadyFence(t)
       THEN /\ msgs' = [msgs EXCEPT ![t.ref].state = "READY",
                                    ![t.ref].epoch = @ + 1]
            /\ meta' = PutIfFound(t.ref[1],
                  [meta[t.ref[1]] EXCEPT !.ready = @ + 1, !.delayed = Decr(@)])
       ELSE UNCHANGED <<msgs, meta>>
    /\ UNCHANGED <<now, leases, nextLease, tokens, dedup, dlq, leaseDeadline,
                   leaseMaxLife, msgExpiry, dedupExpiry, picked, reapCmds,
                   history>>

\* The lease has not been extended or settled since this timer was armed.
DeadlineFence(t) ==
    /\ leases[t.ref].live /\ LeaseCurrent(t.ref)
    /\ msgs[leases[t.ref].key].epoch = t.epoch

\* A visibility timeout takes the lease back; the attempt is not counted.
FireLeaseDeadline(t) ==
    LET k == leases[t.ref].key
    IN  /\ Due(t)
        /\ leaseDeadline' = leaseDeadline \ {t}
        /\ IF DeadlineFence(t)
           THEN /\ leases' = [leases EXCEPT ![t.ref] = NoLease]
                /\ tokens' = DeleteLeaseToken(t.ref)
                /\ RequeueMsg(k, msgs[k], now)
           ELSE UNCHANGED <<leases, tokens, msgs, meta, readyAt, dlq>>
        /\ UNCHANGED <<now, nextLease, dedup, leaseMaxLife, msgExpiry,
                       dedupExpiry, picked, reapCmds, history>>

\* The lifetime cap dead-letters the message whatever extends were granted.
FireLeaseMaxLife(t) ==
    LET l == t.ref
        k == leases[l].key
    IN  /\ Due(t)
        /\ leaseMaxLife' = leaseMaxLife \ {t}
        /\ IF leases[l].live /\ LeaseCurrent(l)
           THEN /\ leases' = [leases EXCEPT ![l] = NoLease]
                /\ tokens' = DeleteLeaseToken(l)
                /\ leaseDeadline' = DelTimer(leaseDeadline, leases[l].deadline, l)
                /\ DeadLetterMsg(k, msgs[k], "max_lease_lifetime")
           ELSE UNCHANGED <<leases, tokens, leaseDeadline, msgs, meta, dlq,
                            readyAt>>
        /\ UNCHANGED <<now, nextLease, dedup, msgExpiry, dedupExpiry, picked,
                       reapCmds, history>>

\* The time-to-live ends: a message no worker holds is dead-lettered.
FireMsgExpiry(t) ==
    LET k == t.ref
        m == msgs[k]
    IN  /\ Due(t)
        /\ msgExpiry' = msgExpiry \ {t}
        /\ IF Leasable(m)
           THEN /\ msgs' = [msgs EXCEPT ![k] = NoMessage]
                /\ dlq' = DeadLetters(k, m, "ttl")
                /\ meta' = PutIfFound(k[1], [meta[k[1]] EXCEPT
                      !.ready   = IF m.state = "READY" THEN Decr(@) ELSE @,
                      !.delayed = IF m.state = "READY" THEN @ ELSE Decr(@),
                      !.total   = Decr(@)])
           ELSE UNCHANGED <<msgs, dlq, meta>>
        /\ UNCHANGED <<now, leases, nextLease, tokens, dedup, readyAt,
                       leaseDeadline, leaseMaxLife, dedupExpiry, picked,
                       reapCmds, history>>

\* Mutant: the row goes with any timer of its key.
WindowOver_Always(ref) == TRUE

\* The row goes only if its own window is over: a later publish may have
\* renewed the key.
WindowOver(ref) == dedup[ref].expiry <= now

FireDedupExpiry(t) ==
    /\ Due(t)
    /\ dedupExpiry' = dedupExpiry \ {t}
    /\ dedup' = IF WindowOver(t.ref) THEN [dedup EXCEPT ![t.ref] = NoDedup]
                ELSE dedup
    /\ UNCHANGED <<now, msgs, meta, leases, nextLease, tokens, dlq, readyAt,
                   leaseDeadline, leaseMaxLife, msgExpiry, picked, reapCmds,
                   history>>

-----------------------------------------------------------------------------
(* Group lifecycle                                                         *)

DroppedIds(q) == {i \in MsgIds : Leasable(msgs[<<q, i>>])}

\* The counters dropLeasable leaves.
MetaDropped(q) ==
    LET g == meta[q]
        n == Cardinality(DroppedIds(q))
    IN  [g EXCEPT !.ready = 0, !.delayed = 0,
                  !.total = IF g.total >= n THEN g.total - n ELSE g.inflight]

\* dropLeasable over the queues Q: timers of the dropped messages stay behind,
\* messages in flight stay with their leases.
DropLeasable(Q) ==
    /\ msgs' = [k \in Keys |->
          IF k[1] \in Q /\ Leasable(msgs[k]) THEN NoMessage ELSE msgs[k]]
    /\ UNCHANGED <<now, leases, nextLease, tokens, dedup, dlq, timers, picked,
                   reapCmds, published, acked, promised>>

\* applyGroupLifecycle, GroupCancel and GroupPurge.
Purge(q) ==
    /\ meta[q].exists
    /\ DropLeasable({q})
    /\ dropped' = dropped \cup {msgs[<<q, i>>].body : i \in DroppedIds(q)}
    /\ meta' = [meta EXCEPT ![q] = MetaDropped(q)]

\* applyTeardownGroup: every lane of the group loses its metadata row.  The
\* operator gives up all of the group's messages, those in flight too.
Teardown(grp) ==
    LET Q == {q \in Queues : q[2] = grp /\ meta[q].exists}
    IN  /\ Q # {}
        /\ DropLeasable(Q)
        /\ dropped' = dropped \cup {msgs[k].body :
              k \in {x \in Keys : x[1] \in Q /\ msgs[x].state # "NONE"}}
        /\ meta' = [q \in Queues |-> IF q \in Q THEN NoMeta ELSE meta[q]]

\* applyGroupLifecycle, GroupPause and GroupResume.
SetPaused(q, p) ==
    /\ meta[q].exists /\ meta[q].paused # p
    /\ meta' = [meta EXCEPT ![q].paused = p]
    /\ UNCHANGED <<now, msgs, leases, nextLease, tokens, dedup, dlq, timers,
                   picked, reapCmds, history>>

\* applyGroupConfig of a group that has no row yet creates it.
GroupConfig(q) ==
    /\ ~meta[q].exists
    /\ meta' = [meta EXCEPT ![q] = FreshMeta]
    /\ UNCHANGED <<now, msgs, leases, nextLease, tokens, dedup, dlq, timers,
                   picked, reapCmds, history>>

\* reapSweep: the leader finds a drained group that has been idle.
ReapSweep(q) ==
    /\ IdleReap > 0 /\ q \notin reapCmds
    /\ meta[q].exists /\ meta[q].total = 0
    /\ meta[q].last > 0 /\ now - meta[q].last > IdleReap
    /\ reapCmds' = reapCmds \cup {q}
    /\ UNCHANGED <<now, store, timers, picked, history>>

\* Mutant: what the sweep saw is not checked again.
StillDrained_Unchecked(q) == meta[q].exists

\* The group is still drained when the command is applied.
StillDrained(q) == meta[q].exists /\ meta[q].total = 0

\* applyReapGroup, of a command the sweep proposed.
ReapGroup(q) ==
    /\ q \in reapCmds
    /\ reapCmds' = reapCmds \ {q}
    /\ meta' = IF StillDrained(q) THEN [meta EXCEPT ![q] = NoMeta] ELSE meta
    /\ UNCHANGED <<now, msgs, leases, nextLease, tokens, dedup, dlq, timers,
                   picked, history>>

\* The ReapGroup call of an operator: no idle time is asked for.
ReapNow(q) ==
    /\ StillDrained(q)
    /\ meta' = [meta EXCEPT ![q] = NoMeta]
    /\ UNCHANGED <<now, msgs, leases, nextLease, tokens, dedup, dlq, timers,
                   picked, reapCmds, history>>

-----------------------------------------------------------------------------
(* Specification                                                           *)

Init ==
    /\ now = 1
    /\ msgs = [k \in Keys |-> NoMessage]
    /\ meta = [q \in Queues |-> NoMeta]
    /\ leases = [l \in LeaseIds |-> NoLease]
    /\ nextLease = 1
    /\ tokens = [t \in TokenIds |-> 0]
    /\ dedup = [r \in DedupRefs |-> NoDedup]
    /\ dlq = {}
    /\ readyAt = {} /\ leaseDeadline = {} /\ leaseMaxLife = {}
    /\ msgExpiry = {} /\ dedupExpiry = {}
    /\ picked = {} /\ reapCmds = {}
    /\ published = 0 /\ acked = {} /\ dropped = {}
    /\ promised = [r \in DedupRefs |-> 0]

Tick ==
    /\ now < Horizon /\ now' = now + 1
    /\ UNCHANGED <<store, timers, picked, reapCmds, history>>

\* Producers, workers and callbacks.
ClientNext ==
    \/ \E q \in Queues : \E r \in PublishReq : Publish(q, r)
    \/ \E q \in Queues : Pick(q) \/ LeaseEmpty(q)
    \/ \E q \in Queues : \E i \in MsgIds : Lease(q, i)
    \/ \E l \in LeaseIds :
          \/ IssueToken(l)
          \/ Ack(l)
          \/ NackDeadLetter(l)
          \/ \E d \in Delays : NackRetry(l, d)
          \/ \E d \in Delays : NackRequeue(l, d)
          \/ \E d \in Delays : Extend(l, d)
    \/ \E t \in TokenIds : \E ok \in BOOLEAN : \E d \in Delays : Complete(t, ok, d)

\* The leader's timer sweep.
SweepNext ==
    \/ \E t \in readyAt : FireReadyAt(t)
    \/ \E t \in leaseDeadline : FireLeaseDeadline(t)
    \/ \E t \in leaseMaxLife : FireLeaseMaxLife(t)
    \/ \E t \in msgExpiry : FireMsgExpiry(t)
    \/ \E t \in dedupExpiry : FireDedupExpiry(t)

\* The leader's idle reaper.
ReapNext == \E q \in Queues : ReapSweep(q) \/ ReapGroup(q)

\* Operators.
AdminNext ==
    \/ "redrive" \in AdminOps /\ \E row \in dlq : Redrive(row)
    \/ "purge" \in AdminOps /\ \E q \in Queues : Purge(q)
    \/ "pause" \in AdminOps /\ \E q \in Queues : \E p \in BOOLEAN : SetPaused(q, p)
    \/ "config" \in AdminOps /\ \E q \in Queues : GroupConfig(q)
    \/ "reap" \in AdminOps /\ \E q \in Queues : ReapNow(q)
    \/ "teardown" \in AdminOps /\ \E g \in Groups : Teardown(g)

Next == Tick \/ ClientNext \/ SweepNext \/ ReapNext \/ AdminNext

Spec == Init /\ [][Next]_vars

-----------------------------------------------------------------------------
(* Properties                                                              *)

\* Every variable keeps its type: rows have the fields the protobuf messages
\* have, ids stay in range.
TypeOK ==
    /\ now \in Nat /\ nextLease \in 1..(MaxLease + 1)
    /\ msgs \in [Keys -> Message \cup {NoMessage}]
    /\ meta \in [Queues -> GroupMeta \cup {NoMeta}]
    /\ leases \in [LeaseIds -> LeaseRow \cup {NoLease}]
    /\ tokens \in [TokenIds -> 0..MaxLease]
    /\ dedup \in [DedupRefs -> [id: Nat, expiry: Nat]]
    /\ dlq \subseteq DeadRow
    /\ readyAt \subseteq Timer(Keys) /\ msgExpiry \subseteq Timer(Keys)
    /\ leaseDeadline \subseteq Timer(LeaseIds)
    /\ leaseMaxLife \subseteq Timer(LeaseIds)
    /\ dedupExpiry \subseteq Timer(DedupRefs)
    /\ picked \subseteq Queues /\ reapCmds \subseteq Queues
    /\ published \in 0..MaxPublish
    /\ acked \subseteq Bodies /\ dropped \subseteq Bodies
    /\ promised \in [DedupRefs -> Nat]

\* A leased message can always be taken back: its lease row exists, names the
\* message, and the due-time index holds the row of that lease's deadline with
\* the message's own epoch, so the sweep will pass the fence of applyFireTimer.
LeasedReclaimable ==
    \A k \in Keys : msgs[k].state = "LEASED" =>
        LET l == msgs[k].lease
        IN  /\ l \in LeaseIds /\ l < nextLease
            /\ leases[l].live /\ leases[l].key = k
            /\ [due |-> leases[l].deadline, ref |-> l, epoch |-> msgs[k].epoch]
                  \in leaseDeadline

\* A delayed message always wakes up: a ready-at row with its own epoch exists,
\* due when the delay ends.
DelayedWakes ==
    \A k \in Keys : msgs[k].state = "DELAYED" =>
        [due |-> msgs[k].due, ref |-> k, epoch |-> msgs[k].epoch] \in readyAt

\* A lease row is exclusive: its message is leased under exactly that lease and
\* carries the payload the worker was given, so an ack settles what was worked on.
LeaseOwnsMessage ==
    \A l \in LeaseIds : leases[l].live =>
        LeaseCurrent(l) /\ msgs[leases[l].key].body = leases[l].body

\* The counters the scheduler and the reaper read are the true counts of the
\* group's rows ("publishing implies schedulable"): a group with a ready message
\* is a candidate, a group reported drained is empty.
CountersExact ==
    \A q \in Queues :
        LET In(s) == {i \in MsgIds : msgs[<<q, i>>].state = s}
            g == ReadMeta(q)
        IN  /\ g.ready = Cardinality(In("READY"))
            /\ g.delayed = Cardinality(In("DELAYED"))
            /\ g.inflight = Cardinality(In("LEASED"))
            /\ g.total = g.ready + g.delayed + g.inflight

BodiesQueued == {msgs[k].body : k \in {x \in Keys : msgs[x].state # "NONE"}}

\* No accepted message is lost: it is still queued, was acked by a worker that
\* was given it, sits in the dead-letter queue, or was dropped by an operator.
NoMessageLost ==
    1..published \subseteq
        BodiesQueued \cup acked \cup {r.body : r \in dlq} \cup dropped

\* Retries, reclaims and redrives never fork a message: a payload is in at most
\* one row, and not in the queue again once its holder acked it.
NoMessageForked ==
    /\ \A j, k \in Keys : msgs[j].state # "NONE" /\ msgs[k].state # "NONE"
                          /\ msgs[j].body = msgs[k].body => j = k
    /\ \A r, s \in dlq : r.body = s.body => r = s
    /\ BodiesQueued \cap {r.body : r \in dlq} = {}
    /\ (BodiesQueued \cup {r.body : r \in dlq}) \cap acked = {}

\* A message is dead-lettered for its time-to-live only when that time is over.
TtlHonest ==
    \A r \in dlq : r.reason = "ttl" => r.ttlAt > 0 /\ r.ttlAt <= r.deadAt

\* A delay is served in full: a message leaves DELAYED for READY only when the
\* not_before or the retry delay it waits for is over.
DelayServed ==
    [][\A k \in Keys :
          msgs[k].state = "DELAYED" /\ msgs'[k].state = "READY"
          /\ msgs'[k].body = msgs[k].body => msgs[k].due <= now]_vars

\* A producer's key is remembered for the whole window its publish was promised,
\* also when the key was renewed and the timer of the first window fires late.
DedupWindowHeld ==
    \A r \in DedupRefs : promised[r] > now => dedup[r].expiry = promised[r]

\* A token row never outlives its lease: it names a live lease that knows it.
TokenNeverDangles ==
    \A t \in TokenIds : tokens[t] # 0 =>
        leases[tokens[t]].live /\ leases[tokens[t]].token = t
=============================================================================
