---------------------------- MODULE BrokerProofs ----------------------------
(***************************************************************************)
(* Proofs about module Broker, for every value of its constants.           *)
(*                                                                         *)
(*   TypeCorrect                the rows keep their types                  *)
(*   LeasedMessagesReclaimable  a message in flight has its deadline row   *)
(*   DelayedMessagesWake        a delayed message has its ready-at row     *)
(*   TokensNeverDangle          a token row names a live lease             *)
(*   DedupWindowAlwaysHeld      a producer's key is kept for its window    *)
(*   CountersStayExact          the counters count the rows                *)
(*   LeasesOwnTheirMessages     a live lease holds the message it took     *)
(*   NeverForked                one body is in one live message            *)
(*   NothingLost                an accepted message is kept until it ends  *)
(*   TtlStaysHonest             no message expires before its TTL          *)
(*   DelaysAreServed            no delivery before the ready-at time       *)
(*                                                                         *)
(* The rows and their indexes hold for every administration.  The queue's  *)
(* own properties hold without teardowns (NoTeardown), and those that take *)
(* an id for the message it was given to, without reaps too (NoReuse).     *)
(***************************************************************************)
EXTENDS Broker, TLAPS, FiniteSetTheorems

-----------------------------------------------------------------------------
(* Helpers                                                                 *)

\* The parts of a message key.
LEMMA KeyParts ==
    ASSUME NEW k \in Keys
    PROVE  k[1] \in Queues /\ k[2] \in MsgIds /\ k = <<k[1], k[2]>>
BY DEF Keys

\* decr never goes below zero.
LEMMA DecrNat ==
    ASSUME NEW n \in Nat
    PROVE  Decr(n) \in Nat
BY DEF Decr

\* Adding and deleting index rows keeps the index well typed.
LEMMA TimerType ==
    ASSUME NEW S, NEW T \in SUBSET Timer(S), NEW due \in Nat, NEW ref \in S,
           NEW e \in Nat
    PROVE  /\ DelTimer(T, due, ref) \subseteq Timer(S)
           /\ AddTimer(T, due, ref, e) \subseteq Timer(S)
BY DEF DelTimer, AddTimer, Timer

\* A row that is not the sentinel has the fields of its kind.
LEMMA RowKinds ==
    ASSUME TypeOK
    PROVE  /\ \A k \in Keys : msgs[k].state # "NONE" => msgs[k] \in Message
           /\ \A l \in LeaseIds : leases[l].live => leases[l] \in LeaseRow
           /\ \A q \in Queues : meta[q].exists => meta[q] \in GroupMeta
BY DEF TypeOK, NoMessage, NoLease, NoMeta

\* The default metadata rows are group metadata.
LEMMA MetaDefaults ==
    ASSUME TypeOK, NEW q \in Queues
    PROVE  LoadGroupMeta(q) \in GroupMeta /\ ReadMeta(q) \in GroupMeta
BY RowKinds DEF LoadGroupMeta, ReadMeta, FreshMeta, ZeroMeta, GroupMeta

\* What every handler that ends a delivery does to the counters.
LEMMA MetaRows ==
    ASSUME NEW g \in GroupMeta
    PROVE  /\ [g EXCEPT !.inflight = Decr(@)] \in GroupMeta
           /\ [g EXCEPT !.inflight = Decr(@), !.total = Decr(@)] \in GroupMeta
BY DecrNat DEF GroupMeta

\* A requeue keeps the counters natural.
LEMMA MetaRequeuedType ==
    ASSUME NEW g \in GroupMeta, NEW at
    PROVE  MetaRequeued(g, at) \in GroupMeta
<1>1. g.delayed + 1 \in Nat /\ g.ready + 1 \in Nat
    BY DEF GroupMeta
<1>2. [g EXCEPT !.delayed = @ + 1] \in GroupMeta
    BY <1>1, Zenon DEF GroupMeta
<1>3. [g EXCEPT !.ready = @ + 1] \in GroupMeta
    BY <1>1, Zenon DEF GroupMeta
<1> QED
    BY <1>2, <1>3 DEF MetaRequeued

\* Writing a metadata row back keeps the map well typed.
LEMMA PutIfFoundType ==
    ASSUME TypeOK, NEW q \in Queues, NEW g, meta[q].exists => g \in GroupMeta
    PROVE  PutIfFound(q, g) \in [Queues -> GroupMeta \cup {NoMeta}]
BY DEF TypeOK, PutIfFound

\* makeReady keeps a message a message.
LEMMA RequeuedType ==
    ASSUME TypeOK, NEW m \in Message, NEW at \in Nat
    PROVE  Requeued(m, at) \in Message
<1>1. ASSUME NEW st \in {"READY", "DELAYED"}
      PROVE  [m EXCEPT !.state = st, !.lease = 0, !.epoch = @ + 1, !.due = at]
                \in Message
    <2>1. m.epoch + 1 \in Nat /\ 0 \in Nat
        BY DEF Message
    <2> QED
        BY <2>1, Zenon DEF Message
<1> QED
    BY <1>1 DEF Requeued

\* Deleting a lease's token keeps the token map well typed.
LEMMA DeleteLeaseTokenType ==
    ASSUME TypeOK, NEW l \in LeaseIds, leases[l].live
    PROVE  DeleteLeaseToken(l) \in [TokenIds -> 0..MaxLease]
<1>1. leases[l].token \in TokenIds \cup {NoToken}
    BY RowKinds DEF LeaseRow
<1>2. MaxLease \in Nat
    BY BrokerAssumption
<1> QED
    BY <1>1, <1>2 DEF TypeOK, DeleteLeaseToken

\* A dead letter records the message it replaces.
LEMMA DeadLettersType ==
    ASSUME TypeOK, NEW k \in Keys, NEW m \in Message,
           NEW reason \in {"max_attempts", "terminal_nack",
                           "max_lease_lifetime", "ttl"}
    PROVE  DeadLetters(k, m, reason) \subseteq DeadRow
BY DEF TypeOK, DeadLetters, DeadRow, Message

-----------------------------------------------------------------------------
(* Type correctness, one lemma per action                                  *)

\* publishOne writes well-typed rows.
LEMMA PublishOneType ==
    ASSUME TypeOK, NEW q \in Queues, NEW r, NEW body \in Bodies,
           r.delay \in Nat, r.ttl \in Nat, r.max \in AttemptLimits,
           r.token \in TokenModes, PublishOne(q, r, body)
    PROVE  /\ msgs' \in [Keys -> Message \cup {NoMessage}]
           /\ meta' \in [Queues -> GroupMeta \cup {NoMeta}]
           /\ readyAt' \subseteq Timer(Keys)
           /\ msgExpiry' \subseteq Timer(Keys)
<1> DEFINE g == LoadGroupMeta(q)
           k == <<q, g.next>>
<1>1. g \in GroupMeta
    BY MetaDefaults
<1>2. k \in Keys
    BY DEF PublishOne, Keys
<1>3. now + r.delay \in Nat /\ now + r.ttl \in Nat /\ 0 \in Nat
    BY DEF TypeOK
<1>4. msgs' \in [Keys -> Message \cup {NoMessage}]
    <2> DEFINE m == [state |-> IF r.delay > 0 THEN "DELAYED" ELSE "READY",
                     lease |-> 0, epoch |-> 0, attempt |-> 0, max |-> r.max,
                     token |-> r.token, body |-> body, due |-> now + r.delay,
                     ttlAt |-> IF r.ttl > 0 THEN now + r.ttl ELSE 0]
    <2>1. m \in Message
        BY <1>3 DEF Message
    <2>2. msgs' = [msgs EXCEPT ![k] = m]
        BY DEF PublishOne
    <2> QED
        BY <1>2, <2>1, <2>2 DEF TypeOK
<1>5. meta' \in [Queues -> GroupMeta \cup {NoMeta}]
    <2>1. g.next + 1 \in Nat /\ g.total + 1 \in Nat /\ now \in Nat
          /\ g.delayed + 1 \in Nat /\ g.ready + 1 \in Nat
          /\ g.delayed \in Nat /\ g.ready \in Nat
        BY <1>1 DEF GroupMeta, TypeOK
    <2>2. ASSUME NEW a \in Nat, NEW b \in Nat
          PROVE  [g EXCEPT !.next = @ + 1, !.total = @ + 1, !.last = now,
                           !.delayed = a, !.ready = b] \in GroupMeta
        BY <1>1, <2>1, Zenon DEF GroupMeta
    <2>3. [g EXCEPT !.next = @ + 1, !.total = @ + 1, !.last = now,
                    !.delayed = IF r.delay > 0 THEN @ + 1 ELSE @,
                    !.ready   = IF r.delay > 0 THEN @ ELSE @ + 1] \in GroupMeta
        BY <2>1, <2>2
    <2> QED
        BY <2>3 DEF TypeOK, PublishOne
<1>6. readyAt' \subseteq Timer(Keys) /\ msgExpiry' \subseteq Timer(Keys)
    BY <1>2, <1>3, TimerType DEF TypeOK, PublishOne
<1> QED
    BY <1>4, <1>5, <1>6

\* applyPublish.
LEMMA PublishType ==
    ASSUME TypeOK, NEW q \in Queues, NEW r \in PublishReq, Publish(q, r)
    PROVE  TypeOK'
<1>1. /\ r.delay \in Nat /\ r.ttl \in Nat /\ r.max \in AttemptLimits
      /\ r.token \in TokenModes /\ r.dedup \in DedupKeys \cup {NoKey}
    BY BrokerAssumption DEF PublishReq
<1>2. published + 1 \in Bodies /\ published' \in 0..MaxPublish
    BY BrokerAssumption DEF TypeOK, Publish, Bodies
<1>3. PublishOne(q, r, published + 1)
    BY DEF Publish
<1>4. /\ dedup' \in [DedupRefs -> [id: Nat, expiry: Nat]]
      /\ dedupExpiry' \subseteq Timer(DedupRefs)
      /\ promised' \in [DedupRefs -> Nat]
    <2>1. CASE r.dedup = NoKey
        BY <2>1 DEF Publish, TypeOK
    <2>2. CASE r.dedup # NoKey
        <3> DEFINE ref == <<q[1], r.dedup>>
        <3>1. ref \in DedupRefs
            BY <1>1, <2>2 DEF DedupRefs, Queues
        <3>2. now + DedupWindow \in Nat /\ 0 \in Nat
            BY BrokerAssumption DEF TypeOK
        <3>3. LoadGroupMeta(q).next \in Nat
            BY MetaDefaults DEF GroupMeta
        <3>4. AddTimer(dedupExpiry, now + DedupWindow, ref, 0)
                  \subseteq Timer(DedupRefs)
            BY <3>1, <3>2, TimerType DEF TypeOK
        <3>5. [id |-> LoadGroupMeta(q).next, expiry |-> now + DedupWindow]
                  \in [id: Nat, expiry: Nat]
            BY <3>2, <3>3
        <3>6. /\ dedup' = [dedup EXCEPT ![ref] =
                    [id |-> LoadGroupMeta(q).next, expiry |-> now + DedupWindow]]
              /\ dedupExpiry' = AddTimer(dedupExpiry, now + DedupWindow, ref, 0)
              /\ promised' = [promised EXCEPT ![ref] = now + DedupWindow]
            BY <2>2 DEF Publish
        <3> QED
            BY <3>1, <3>2, <3>4, <3>5, <3>6 DEF TypeOK
    <2> QED
        BY <2>1, <2>2
<1> QED
    BY <1>1, <1>2, <1>3, <1>4, PublishOneType DEF Publish, TypeOK

\* applyRedrive.
LEMMA RedriveType ==
    ASSUME TypeOK, NEW row \in dlq, Redrive(row)
    PROVE  TypeOK'
<1> DEFINE r == [delay |-> 0, ttl |-> 0, max |-> row.max, token |-> row.token]
<1>1. /\ row.key \in Keys /\ row.body \in Bodies
      /\ row.max \in AttemptLimits /\ row.token \in TokenModes
    BY DEF TypeOK, DeadRow
<1>2. row.key[1] \in Queues
    BY <1>1, KeyParts
<1>3. /\ msgs' \in [Keys -> Message \cup {NoMessage}]
      /\ meta' \in [Queues -> GroupMeta \cup {NoMeta}]
      /\ readyAt' \subseteq Timer(Keys)
      /\ msgExpiry' \subseteq Timer(Keys)
    <2>1. PublishOne(row.key[1], r, row.body)
        BY DEF Redrive
    <2>2. r.delay \in Nat /\ r.ttl \in Nat /\ r.max = row.max
          /\ r.token = row.token
        OBVIOUS
    <2> QED
        BY <1>1, <1>2, <2>1, <2>2, PublishOneType
<1> QED
    BY <1>3 DEF Redrive, TypeOK, history

\* applyLease.
LEMMA LeaseType ==
    ASSUME TypeOK, NEW q \in Queues, NEW i \in MsgIds, Lease(q, i)
    PROVE  TypeOK'
<1> DEFINE k == <<q, i>>
           m == [msgs[k] EXCEPT !.state = "LEASED", !.lease = nextLease,
                                !.epoch = @ + 1]
           g == ReadMeta(q)
           row == [live |-> TRUE, key |-> k, deadline |-> now + Visibility,
                   token |-> NoToken, want |-> m.token, body |-> m.body]
<1>1. k \in Keys /\ msgs[k] \in Message
    <2>1. msgs[k].state = "READY"
        BY DEF Lease, IsHeadReady, ReadyIds
    <2> QED
        BY <2>1, RowKinds DEF Keys
<1>2. /\ nextLease \in LeaseIds /\ nextLease \in Nat
      /\ nextLease + 1 \in 1..(MaxLease + 1)
    <2>1. nextLease \in LeaseIds
        BY DEF Lease
    <2>2. MaxLease \in Nat
        BY BrokerAssumption
    <2> QED
        BY <2>1, <2>2 DEF LeaseIds
<1>3. m \in Message
    <2>1. msgs[k].epoch + 1 \in Nat
        BY <1>1 DEF Message
    <2> QED
        BY <1>1, <1>2, <2>1, Zenon DEF Message
<1>4. /\ now + Visibility \in Nat /\ now + MaxLifetime \in Nat /\ 0 \in Nat
    BY BrokerAssumption DEF TypeOK
<1>5. row \in LeaseRow
    <2>1. m.token \in TokenModes /\ m.body \in Bodies
        BY <1>3 DEF Message
    <2> QED
        BY <1>1, <1>4, <2>1 DEF LeaseRow
<1>6. [g EXCEPT !.ready = Decr(@), !.inflight = @ + 1] \in GroupMeta
    <2>1. g \in GroupMeta
        BY MetaDefaults
    <2>2. Decr(g.ready) \in Nat /\ g.inflight + 1 \in Nat
        BY <2>1, DecrNat DEF GroupMeta
    <2> QED
        BY <2>1, <2>2, Zenon DEF GroupMeta
<1>7. leaseDeadline' \subseteq Timer(LeaseIds)
    <2>1. m.epoch \in Nat
        BY <1>3 DEF Message
    <2> QED
        BY <1>2, <1>4, <2>1, TimerType DEF Lease, TypeOK
<1>8. leaseMaxLife' \subseteq Timer(LeaseIds)
    BY <1>2, <1>4, TimerType DEF Lease, TypeOK
<1>9. /\ msgs' = [msgs EXCEPT ![k] = m]
      /\ leases' = [leases EXCEPT ![nextLease] = row]
      /\ meta' = [meta EXCEPT ![q] =
                    [g EXCEPT !.ready = Decr(@), !.inflight = @ + 1]]
      /\ nextLease' = nextLease + 1
      /\ picked' = picked \ {q}
      /\ UNCHANGED <<now, tokens, dedup, dlq, readyAt, msgExpiry,
                     dedupExpiry, reapCmds, history>>
    BY DEF Lease
<1> QED
    BY <1>1, <1>2, <1>3, <1>5, <1>6, <1>7, <1>8, <1>9 DEF TypeOK, history

\* applyIssueToken.
LEMMA IssueTokenType ==
    ASSUME TypeOK, NEW l \in LeaseIds, IssueToken(l)
    PROVE  TypeOK'
<1> DEFINE t == IF leases[l].want = Minted THEN l ELSE leases[l].want
<1>1. leases[l] \in LeaseRow
    BY RowKinds DEF IssueToken
<1>2. t \in TokenIds
    BY <1>1, BrokerAssumption DEF IssueToken, LeaseRow, TokenIds
<1>3. [leases[l] EXCEPT !.token = t] \in LeaseRow
    BY <1>1, <1>2 DEF LeaseRow
<1>4. l \in 0..MaxLease
    BY BrokerAssumption DEF LeaseIds
<1>5. /\ leases' = [leases EXCEPT ![l] = [leases[l] EXCEPT !.token = t]]
      /\ tokens' = [tokens EXCEPT ![t] = l]
      /\ UNCHANGED <<now, msgs, meta, nextLease, dedup, dlq, timers, picked,
                     reapCmds, published, acked, dropped, promised>>
    BY DEF IssueToken, history
<1> QED
    BY <1>2, <1>3, <1>4, <1>5 DEF TypeOK, timers

\* The settled lease's deadline row is deleted.
LEMMA DelDeadlineType ==
    ASSUME TypeOK, NEW l \in LeaseIds, leases[l].live
    PROVE  DelTimer(leaseDeadline, leases[l].deadline, l) \subseteq Timer(LeaseIds)
BY DEF DelTimer, TypeOK

\* applyAck.
LEMMA AckLeaseType ==
    ASSUME TypeOK, NEW l \in LeaseIds, leases[l].live,
           NEW tok \in [TokenIds -> 0..MaxLease], AckLease(l, tok)
    PROVE  TypeOK'
<1> DEFINE k == leases[l].key
           g == meta[k[1]]
<1>1. k \in Keys /\ leases[l].body \in Bodies
    BY RowKinds DEF LeaseRow
<1>2. k[1] \in Queues
    BY <1>1, KeyParts
<1>3. PutIfFound(k[1], [g EXCEPT !.inflight = Decr(@), !.total = Decr(@)])
          \in [Queues -> GroupMeta \cup {NoMeta}]
    BY <1>2, RowKinds, MetaRows, PutIfFoundType
<1>4. DelTimer(leaseDeadline, leases[l].deadline, l) \subseteq Timer(LeaseIds)
    BY DelDeadlineType
<1>5. /\ msgs' = [msgs EXCEPT ![k] = NoMessage]
      /\ leases' = [leases EXCEPT ![l] = NoLease]
      /\ tokens' = tok
      /\ leaseDeadline' = DelTimer(leaseDeadline, leases[l].deadline, l)
      /\ meta' = PutIfFound(k[1], [g EXCEPT !.inflight = Decr(@),
                                            !.total = Decr(@)])
      /\ acked' = acked \cup {leases[l].body}
      /\ UNCHANGED <<now, nextLease, dedup, dlq, readyAt, leaseMaxLife,
                     msgExpiry, dedupExpiry, picked, reapCmds, published,
                     dropped, promised>>
    BY DEF AckLease
<1> QED
    BY <1>1, <1>3, <1>4, <1>5 DEF TypeOK

\* The rows a requeue and a dead letter write; the four variables they change.
RowsOK ==
    /\ msgs \in [Keys -> Message \cup {NoMessage}]
    /\ meta \in [Queues -> GroupMeta \cup {NoMeta}]
    /\ readyAt \subseteq Timer(Keys)
    /\ dlq \subseteq DeadRow

\* The message goes back to its group.
LEMMA RequeueMsgType ==
    ASSUME TypeOK, NEW k \in Keys, msgs[k].state # "NONE", NEW m \in Message,
           NEW at \in Nat, RequeueMsg(k, m, at)
    PROVE  RowsOK'
<1>1. k[1] \in Queues
    BY KeyParts
<1>2. Requeued(m, at) \in Message
    BY RequeuedType
<1>3. PutIfFound(k[1], MetaRequeued([meta[k[1]] EXCEPT !.inflight = Decr(@)], at))
          \in [Queues -> GroupMeta \cup {NoMeta}]
    BY <1>1, RowKinds, MetaRows, MetaRequeuedType, PutIfFoundType
<1>4. TimersRequeued(k, at) \subseteq Timer(Keys)
    <2>1. msgs[k].epoch + 1 \in Nat
        BY RowKinds DEF Message
    <2> QED
        BY <2>1, TimerType DEF TimersRequeued, TypeOK
<1> QED
    BY <1>2, <1>3, <1>4 DEF RequeueMsg, TypeOK, RowsOK

\* The message in flight becomes a dead letter.
LEMMA DeadLetterMsgType ==
    ASSUME TypeOK, NEW k \in Keys, NEW m \in Message,
           NEW reason \in {"max_attempts", "terminal_nack",
                           "max_lease_lifetime", "ttl"},
           DeadLetterMsg(k, m, reason)
    PROVE  RowsOK'
<1>1. k[1] \in Queues
    BY KeyParts
<1>2. PutIfFound(k[1], [meta[k[1]] EXCEPT !.inflight = Decr(@),
                                          !.total = Decr(@)])
          \in [Queues -> GroupMeta \cup {NoMeta}]
    BY <1>1, RowKinds, MetaRows, PutIfFoundType
<1>3. DeadLetters(k, m, reason) \subseteq DeadRow
    BY DeadLettersType
<1> QED
    BY <1>2, <1>3 DEF DeadLetterMsg, TypeOK, RowsOK

\* The key of a live lease, and its message when the lease is current.
LEMMA LeaseKeys ==
    ASSUME TypeOK, NEW l \in LeaseIds, leases[l].live
    PROVE  /\ leases[l].key \in Keys
           /\ LeaseCurrent(l) => msgs[leases[l].key] \in Message
                                 /\ msgs[leases[l].key].state # "NONE"
BY RowKinds DEF LeaseRow, LeaseCurrent

\* The lease part of a nack, whatever becomes of the message.
LEMMA EndLeaseType ==
    ASSUME TypeOK, NEW l \in LeaseIds, leases[l].live, RowsOK',
           NEW tok \in [TokenIds -> 0..MaxLease], EndLease(l, tok)
    PROVE  TypeOK'
<1>1. DelTimer(leaseDeadline, leases[l].deadline, l) \subseteq Timer(LeaseIds)
    BY DelDeadlineType
<1> QED
    BY <1>1 DEF EndLease, TypeOK, RowsOK, history

\* Nothing is done to the message of a stale lease.
LEMMA RowsUnchanged ==
    ASSUME TypeOK, UNCHANGED <<msgs, meta, readyAt, dlq>>
    PROVE  RowsOK'
BY DEF TypeOK, RowsOK

\* applyNack, mode NackRetry.
LEMMA NackRetryType ==
    ASSUME TypeOK, NEW l \in LeaseIds, leases[l].live, NEW delay \in Nat,
           NEW tok \in [TokenIds -> 0..MaxLease], NackRetryLease(l, delay, tok)
    PROVE  TypeOK'
<1> DEFINE k == leases[l].key
           m == [msgs[k] EXCEPT !.attempt = @ + 1]
           at == now + (IF delay > 0 THEN delay ELSE Backoff)
<1>1. k \in Keys
    BY LeaseKeys
<1>2. RowsOK'
    <2>1. CASE ~LeaseCurrent(l)
        BY <2>1, RowsUnchanged DEF NackRetryLease
    <2>2. CASE LeaseCurrent(l)
        <3>1. msgs[k] \in Message /\ msgs[k].state # "NONE"
            BY <2>2, LeaseKeys
        <3>2. m \in Message
            <4>1. msgs[k].attempt + 1 \in Nat
                BY <3>1 DEF Message
            <4> QED
                BY <3>1, <4>1, Zenon DEF Message
        <3>3. at \in Nat
            BY BrokerAssumption DEF TypeOK
        <3>4. DeadLetterMsg(k, m, "max_attempts") \/ RequeueMsg(k, m, at)
            BY <2>2 DEF NackRetryLease
        <3> QED
            BY <1>1, <3>1, <3>2, <3>3, <3>4, DeadLetterMsgType, RequeueMsgType
    <2> QED
        BY <2>1, <2>2
<1> QED
    BY <1>2, EndLeaseType DEF NackRetryLease

\* applyNack, mode NackDeadLetter.
LEMMA NackDeadLetterType ==
    ASSUME TypeOK, NEW l \in LeaseIds, NackDeadLetter(l)
    PROVE  TypeOK'
<1>1. leases[l].live /\ DeleteLeaseToken(l) \in [TokenIds -> 0..MaxLease]
    BY DeleteLeaseTokenType DEF NackDeadLetter
<1>2. RowsOK'
    <2>1. CASE ~LeaseCurrent(l)
        BY <2>1, RowsUnchanged DEF NackDeadLetter
    <2>2. CASE LeaseCurrent(l)
        BY <1>1, <2>2, LeaseKeys, DeadLetterMsgType DEF NackDeadLetter
    <2> QED
        BY <2>1, <2>2
<1> QED
    BY <1>1, <1>2, EndLeaseType DEF NackDeadLetter

\* applyNack, mode NackRequeueNoPenalty.
LEMMA NackRequeueType ==
    ASSUME TypeOK, NEW l \in LeaseIds, NEW delay \in Nat, NackRequeue(l, delay)
    PROVE  TypeOK'
<1>1. leases[l].live /\ DeleteLeaseToken(l) \in [TokenIds -> 0..MaxLease]
    BY DeleteLeaseTokenType DEF NackRequeue
<1>2. RowsOK'
    <2>1. CASE ~LeaseCurrent(l)
        BY <2>1, RowsUnchanged DEF NackRequeue
    <2>2. CASE LeaseCurrent(l)
        <3>1. now + delay \in Nat
            BY DEF TypeOK
        <3> QED
            BY <1>1, <2>2, <3>1, LeaseKeys, RequeueMsgType DEF NackRequeue
    <2> QED
        BY <2>1, <2>2
<1> QED
    BY <1>1, <1>2, EndLeaseType DEF NackRequeue

\* applyExtend.
LEMMA ExtendType ==
    ASSUME TypeOK, NEW l \in LeaseIds, NEW ttl \in Nat, Extend(l, ttl)
    PROVE  TypeOK'
<1> DEFINE k == leases[l].key
           e == msgs[k].epoch + 1
<1>1. k \in Keys /\ msgs[k] \in Message /\ leases[l] \in LeaseRow
    BY LeaseKeys, RowKinds DEF Extend
<1>2. e \in Nat /\ now + ttl \in Nat
    BY <1>1 DEF Message, TypeOK
<1>3. [msgs[k] EXCEPT !.epoch = e] \in Message
    BY <1>1, <1>2, Zenon DEF Message
<1>4. [leases[l] EXCEPT !.deadline = now + ttl] \in LeaseRow
    BY <1>1, <1>2, Zenon DEF LeaseRow
<1>5. leaseDeadline' \subseteq Timer(LeaseIds)
    <2>1. DelTimer(leaseDeadline, leases[l].deadline, l) \subseteq Timer(LeaseIds)
        BY DelDeadlineType DEF Extend
    <2> QED
        BY <1>2, <2>1, TimerType DEF Extend
<1>6. /\ msgs' = [msgs EXCEPT ![k] = [msgs[k] EXCEPT !.epoch = e]]
      /\ leases' = [leases EXCEPT ![l] = [leases[l] EXCEPT !.deadline = now + ttl]]
      /\ UNCHANGED <<now, meta, nextLease, tokens, dedup, dlq, readyAt,
                     leaseMaxLife, msgExpiry, dedupExpiry, picked, reapCmds,
                     history>>
    BY DEF Extend
<1> QED
    BY <1>1, <1>3, <1>4, <1>5, <1>6 DEF TypeOK, history

\* applyComplete.
LEMMA CompleteType ==
    ASSUME TypeOK, NEW t \in TokenIds, NEW ok \in BOOLEAN, NEW delay \in Nat,
           Complete(t, ok, delay)
    PROVE  TypeOK'
<1> DEFINE l == tokens[t]
           tok == [DeleteLeaseToken(l) EXCEPT ![t] = 0]
<1>1. l \in LeaseIds /\ 0 \in 0..MaxLease
    BY BrokerAssumption DEF Complete, TypeOK, LeaseIds
<1>2. CASE ~leases[l].live
    <2>1. tokens' = [tokens EXCEPT ![t] = 0]
          /\ UNCHANGED <<now, msgs, meta, leases, nextLease, dedup, dlq,
                         timers, picked, reapCmds, history>>
        BY <1>2 DEF Complete
    <2> QED
        BY <1>1, <2>1 DEF TypeOK, timers, history
<1>3. CASE leases[l].live
    <2>1. tok \in [TokenIds -> 0..MaxLease]
        BY <1>1, <1>3, DeleteLeaseTokenType
    <2>2. AckLease(l, tok) \/ NackRetryLease(l, delay, tok)
        BY <1>3 DEF Complete
    <2> QED
        BY <1>1, <1>3, <2>1, <2>2, AckLeaseType, NackRetryType
<1> QED
    BY <1>2, <1>3

\* A delay is over, or the row is stale.
LEMMA FireReadyAtType ==
    ASSUME TypeOK, NEW t \in readyAt, FireReadyAt(t)
    PROVE  TypeOK'
<1> DEFINE k == t.ref
<1>1. k \in Keys
    BY DEF TypeOK, Timer
<1>2. k[1] \in Queues
    BY <1>1, KeyParts
<1>3. /\ msgs' \in [Keys -> Message \cup {NoMessage}]
      /\ meta' \in [Queues -> GroupMeta \cup {NoMeta}]
    <2>1. CASE ~ReadyFence(t)
        BY <2>1 DEF FireReadyAt, TypeOK
    <2>2. CASE ReadyFence(t)
        <3>1. msgs[k] \in Message
            BY <1>1, <2>2, RowKinds DEF ReadyFence
        <3>2. msgs[k].epoch + 1 \in Nat
            BY <3>1 DEF Message
        <3>3. [msgs[k] EXCEPT !.state = "READY", !.epoch = @ + 1] \in Message
            BY <3>1, <3>2, Zenon DEF Message
        <3>4. msgs' = [msgs EXCEPT ![k] =
                          [msgs[k] EXCEPT !.state = "READY", !.epoch = @ + 1]]
            BY <1>1, <2>2, <3>1 DEF FireReadyAt, TypeOK, Message
        <3>5. ASSUME NEW g \in GroupMeta
              PROVE  [g EXCEPT !.ready = @ + 1, !.delayed = Decr(@)] \in GroupMeta
            <4>1. g.ready + 1 \in Nat /\ Decr(g.delayed) \in Nat
                BY DecrNat DEF GroupMeta
            <4> QED
                BY <4>1, Zenon DEF GroupMeta
        <3>6. meta' \in [Queues -> GroupMeta \cup {NoMeta}]
            BY <1>2, <2>2, <3>5, RowKinds, PutIfFoundType DEF FireReadyAt
        <3> QED
            BY <1>1, <3>3, <3>4, <3>6 DEF TypeOK
    <2> QED
        BY <2>1, <2>2
<1> QED
    BY <1>3 DEF FireReadyAt, TypeOK, history

\* A visibility timeout, or a stale row.
LEMMA FireLeaseDeadlineType ==
    ASSUME TypeOK, NEW t \in leaseDeadline, FireLeaseDeadline(t)
    PROVE  TypeOK'
<1> DEFINE l == t.ref
           k == leases[l].key
<1>1. l \in LeaseIds
    BY DEF TypeOK, Timer
<1>2. /\ leases' \in [LeaseIds -> LeaseRow \cup {NoLease}]
      /\ tokens' \in [TokenIds -> 0..MaxLease]
      /\ RowsOK'
    <2>1. CASE ~DeadlineFence(t)
        BY <2>1, RowsUnchanged DEF FireLeaseDeadline, TypeOK
    <2>2. CASE DeadlineFence(t)
        <3>1. leases[l].live /\ LeaseCurrent(l)
            BY <2>2 DEF DeadlineFence
        <3>2. DeleteLeaseToken(l) \in [TokenIds -> 0..MaxLease]
            BY <1>1, <3>1, DeleteLeaseTokenType
        <3>3. RowsOK'
            <4>1. now \in Nat
                BY DEF TypeOK
            <4> QED
                BY <1>1, <2>2, <3>1, <4>1, LeaseKeys, RequeueMsgType
                DEF FireLeaseDeadline
        <3> QED
            BY <1>1, <2>2, <3>2, <3>3 DEF FireLeaseDeadline, TypeOK
    <2> QED
        BY <2>1, <2>2
<1> QED
    BY <1>2 DEF FireLeaseDeadline, TypeOK, RowsOK, history

\* The lifetime cap, or a lease that is over.
LEMMA FireLeaseMaxLifeType ==
    ASSUME TypeOK, NEW t \in leaseMaxLife, FireLeaseMaxLife(t)
    PROVE  TypeOK'
<1> DEFINE l == t.ref
           k == leases[l].key
<1>1. l \in LeaseIds
    BY DEF TypeOK, Timer
<1>2. /\ leases' \in [LeaseIds -> LeaseRow \cup {NoLease}]
      /\ tokens' \in [TokenIds -> 0..MaxLease]
      /\ leaseDeadline' \subseteq Timer(LeaseIds)
      /\ RowsOK'
    <2>1. CASE ~(leases[l].live /\ LeaseCurrent(l))
        BY <2>1, RowsUnchanged DEF FireLeaseMaxLife, TypeOK
    <2>2. CASE leases[l].live /\ LeaseCurrent(l)
        <3>1. DeleteLeaseToken(l) \in [TokenIds -> 0..MaxLease]
            BY <1>1, <2>2, DeleteLeaseTokenType
        <3>2. RowsOK'
            BY <1>1, <2>2, LeaseKeys, DeadLetterMsgType DEF FireLeaseMaxLife
        <3>3. DelTimer(leaseDeadline, leases[l].deadline, l)
                  \subseteq Timer(LeaseIds)
            BY <1>1, <2>2, DelDeadlineType
        <3> QED
            BY <1>1, <2>2, <3>1, <3>2, <3>3 DEF FireLeaseMaxLife, TypeOK
    <2> QED
        BY <2>1, <2>2
<1> QED
    BY <1>2 DEF FireLeaseMaxLife, TypeOK, RowsOK, history

\* A time-to-live is over.
LEMMA FireMsgExpiryType ==
    ASSUME TypeOK, NEW t \in msgExpiry, FireMsgExpiry(t)
    PROVE  TypeOK'
<1> DEFINE k == t.ref
           m == msgs[k]
<1>1. k \in Keys
    BY DEF TypeOK, Timer
<1>2. k[1] \in Queues
    BY <1>1, KeyParts
<1>3. /\ msgs' \in [Keys -> Message \cup {NoMessage}]
      /\ meta' \in [Queues -> GroupMeta \cup {NoMeta}]
      /\ dlq' \subseteq DeadRow
    <2>1. CASE ~Leasable(m)
        BY <2>1 DEF FireMsgExpiry, TypeOK
    <2>2. CASE Leasable(m)
        <3>1. m \in Message
            BY <1>1, <2>2, RowKinds DEF Leasable
        <3>2. DeadLetters(k, m, "ttl") \subseteq DeadRow
            BY <1>1, <3>1, DeadLettersType
        <3>3. ASSUME NEW g \in GroupMeta
              PROVE  [g EXCEPT !.ready   = IF m.state = "READY" THEN Decr(@) ELSE @,
                               !.delayed = IF m.state = "READY" THEN @ ELSE Decr(@),
                               !.total   = Decr(@)] \in GroupMeta
            BY DecrNat DEF GroupMeta
        <3>4. meta' \in [Queues -> GroupMeta \cup {NoMeta}]
            BY <1>2, <2>2, <3>3, RowKinds, PutIfFoundType DEF FireMsgExpiry
        <3> QED
            BY <1>1, <2>2, <3>2, <3>4 DEF FireMsgExpiry, TypeOK
    <2> QED
        BY <2>1, <2>2
<1> QED
    BY <1>3 DEF FireMsgExpiry, TypeOK, history

\* A dedup window is over, or the key was renewed.
LEMMA FireDedupExpiryType ==
    ASSUME TypeOK, NEW t \in dedupExpiry, FireDedupExpiry(t)
    PROVE  TypeOK'
<1>1. dedup' \in [DedupRefs -> [id: Nat, expiry: Nat]]
    <2>1. NoDedup \in [id: Nat, expiry: Nat]
        BY DEF NoDedup
    <2> QED
        BY <2>1 DEF FireDedupExpiry, TypeOK
<1> QED
    BY <1>1 DEF FireDedupExpiry, TypeOK, history

\* The counters a drop leaves.
LEMMA MetaDroppedType ==
    ASSUME TypeOK, NEW q \in Queues, meta[q].exists
    PROVE  MetaDropped(q) \in GroupMeta
<1> DEFINE g == meta[q]
           n == Cardinality(DroppedIds(q))
           tot == IF g.total >= n THEN g.total - n ELSE g.inflight
<1>1. IsFiniteSet(DroppedIds(q))
    <2>1. MaxMsgId \in Int /\ 0 \in Int
        BY BrokerAssumption
    <2>2. IsFiniteSet(MsgIds)
        BY <2>1, FS_Interval DEF MsgIds
    <2> QED
        BY <2>2, FS_Subset DEF DroppedIds
<1>2. n \in Nat
    BY <1>1, FS_CardinalityType
<1>3. g \in GroupMeta
    BY RowKinds
<1>4. tot \in Nat /\ 0 \in Nat
    <2>1. g.total \in Nat /\ g.inflight \in Nat
        BY <1>3 DEF GroupMeta
    <2>2. ASSUME NEW a \in Nat, NEW b \in Nat, NEW c \in Nat
          PROVE  (IF a >= b THEN a - b ELSE c) \in Nat
        OBVIOUS
    <2> QED
        BY <1>2, <2>1, <2>2
<1>5. [g EXCEPT !.ready = 0, !.delayed = 0, !.total = tot] \in GroupMeta
    BY <1>3, <1>4, Zenon DEF GroupMeta
<1> QED
    BY <1>5 DEF MetaDropped

\* dropLeasable and what the lifecycle operations record.
LEMMA DropType ==
    ASSUME TypeOK, NEW Q, DropLeasable(Q), dropped' \subseteq Bodies,
           meta' \in [Queues -> GroupMeta \cup {NoMeta}]
    PROVE  TypeOK'
<1>1. msgs' \in [Keys -> Message \cup {NoMessage}]
    BY DEF DropLeasable, TypeOK
<1> QED
    BY <1>1 DEF DropLeasable, TypeOK, timers

\* applyGroupLifecycle, GroupCancel and GroupPurge.
LEMMA PurgeType ==
    ASSUME TypeOK, NEW q \in Queues, Purge(q)
    PROVE  TypeOK'
<1>1. dropped' \subseteq Bodies
    <2>1. ASSUME NEW i \in DroppedIds(q)
          PROVE  msgs[<<q, i>>].body \in Bodies
        <3>1. <<q, i>> \in Keys /\ Leasable(msgs[<<q, i>>])
            BY DEF DroppedIds, Keys
        <3>2. msgs[<<q, i>>] \in Message
            BY <3>1, RowKinds DEF Leasable
        <3> QED
            BY <3>2 DEF Message
    <2> QED
        BY <2>1 DEF Purge, TypeOK
<1>2. meta' \in [Queues -> GroupMeta \cup {NoMeta}]
    BY MetaDroppedType DEF Purge, TypeOK
<1> QED
    BY <1>1, <1>2, DropType DEF Purge

\* applyTeardownGroup.
LEMMA TeardownType ==
    ASSUME TypeOK, NEW grp \in Groups, Teardown(grp)
    PROVE  TypeOK'
<1> DEFINE Q == {q \in Queues : q[2] = grp /\ meta[q].exists}
<1>1. dropped' \subseteq Bodies
    <2>1. ASSUME NEW k \in Keys, msgs[k].state # "NONE"
          PROVE  msgs[k].body \in Bodies
        BY <2>1, RowKinds DEF Message
    <2> QED
        BY <2>1 DEF Teardown, TypeOK
<1>2. meta' \in [Queues -> GroupMeta \cup {NoMeta}]
    BY DEF Teardown, TypeOK
<1>3. DropLeasable(Q)
    BY DEF Teardown
<1> QED
    BY <1>1, <1>2, <1>3, DropType

\* Pausing, resuming, configuring and reaping write metadata rows only.
LEMMA MetaOpsType ==
    ASSUME TypeOK, NEW q \in Queues,
           \/ \E p \in BOOLEAN : SetPaused(q, p)
           \/ GroupConfig(q) \/ ReapGroup(q) \/ ReapNow(q)
    PROVE  TypeOK'
<1>1. meta' \in [Queues -> GroupMeta \cup {NoMeta}]
    <2>1. ASSUME NEW p \in BOOLEAN, SetPaused(q, p)
          PROVE  meta' \in [Queues -> GroupMeta \cup {NoMeta}]
        <3>1. meta[q] \in GroupMeta
            BY <2>1, RowKinds DEF SetPaused
        <3>2. [meta[q] EXCEPT !.paused = p] \in GroupMeta
            BY <3>1, Zenon DEF GroupMeta
        <3>3. meta' = [meta EXCEPT ![q] = [meta[q] EXCEPT !.paused = p]]
            BY <2>1 DEF SetPaused
        <3> QED
            BY <3>2, <3>3 DEF TypeOK
    <2>2. FreshMeta \in GroupMeta
        BY DEF FreshMeta, GroupMeta
    <2> QED
        BY <2>1, <2>2 DEF GroupConfig, ReapGroup, ReapNow, TypeOK
<1> QED
    BY <1>1 DEF SetPaused, GroupConfig, ReapGroup, ReapNow, TypeOK, timers,
                history

\* The initial state is well typed.
LEMMA InitType == Init => TypeOK
<1> SUFFICES ASSUME Init PROVE TypeOK
    OBVIOUS
<1>1. 1 \in 1..(MaxLease + 1) /\ 0 \in 0..MaxLease /\ 0 \in 0..MaxPublish
    BY BrokerAssumption
<1>2. NoDedup \in [id: Nat, expiry: Nat]
    BY DEF NoDedup
<1> QED
    BY <1>1, <1>2 DEF Init, TypeOK

\* Every step keeps the types.
LEMMA NextType == TypeOK /\ [Next]_vars => TypeOK'
<1> SUFFICES ASSUME TypeOK, [Next]_vars PROVE TypeOK'
    OBVIOUS
<1>1. CASE UNCHANGED vars
    BY <1>1 DEF vars, store, timers, history, TypeOK
<1>2. CASE Tick
    BY <1>2 DEF Tick, store, timers, history, TypeOK
<1>3. CASE ClientNext
    <2>1. ASSUME NEW q \in Queues, NEW r \in PublishReq, Publish(q, r)
          PROVE  TypeOK'
        BY <2>1, PublishType
    <2>2. ASSUME NEW q \in Queues, Pick(q) \/ LeaseEmpty(q)
          PROVE  TypeOK'
        BY <2>2 DEF Pick, LeaseEmpty, store, timers, history, TypeOK
    <2>3. ASSUME NEW q \in Queues, NEW i \in MsgIds, Lease(q, i)
          PROVE  TypeOK'
        BY <2>3, LeaseType
    <2>4. ASSUME NEW l \in LeaseIds, IssueToken(l) \/ Ack(l) \/ NackDeadLetter(l)
          PROVE  TypeOK'
        BY <2>4, IssueTokenType, AckLeaseType, DeleteLeaseTokenType,
           NackDeadLetterType DEF Ack
    <2>5. ASSUME NEW l \in LeaseIds, NEW d \in Delays,
                 NackRetry(l, d) \/ NackRequeue(l, d) \/ Extend(l, d)
          PROVE  TypeOK'
        <3>1. d \in Nat
            BY BrokerAssumption
        <3>2. CASE NackRetry(l, d)
            <4>1. leases[l].live
                BY <3>2 DEF NackRetry, NackRetryLease
            <4> QED
                BY <3>1, <3>2, <4>1, NackRetryType, DeleteLeaseTokenType
                DEF NackRetry
        <3> QED
            BY <2>5, <3>1, <3>2, NackRequeueType, ExtendType
    <2>6. ASSUME NEW t \in TokenIds, NEW ok \in BOOLEAN, NEW d \in Delays,
                 Complete(t, ok, d)
          PROVE  TypeOK'
        BY <2>6, CompleteType, BrokerAssumption
    <2> QED
        BY <1>3, <2>1, <2>2, <2>3, <2>4, <2>5, <2>6 DEF ClientNext
<1>4. CASE SweepNext
    BY <1>4, FireReadyAtType, FireLeaseDeadlineType, FireLeaseMaxLifeType,
       FireMsgExpiryType, FireDedupExpiryType DEF SweepNext
<1>5. CASE ReapNext
    <2>1. ASSUME NEW q \in Queues, ReapSweep(q)
          PROVE  TypeOK'
        BY <2>1 DEF ReapSweep, store, timers, history, TypeOK
    <2>2. ASSUME NEW q \in Queues, ReapGroup(q)
          PROVE  TypeOK'
        BY <2>2, MetaOpsType
    <2> QED
        BY <1>5, <2>1, <2>2 DEF ReapNext
<1>6. CASE AdminNext
    BY <1>6, RedriveType, PurgeType, MetaOpsType, TeardownType DEF AdminNext
<1> QED
    BY <1>1, <1>2, <1>3, <1>4, <1>5, <1>6 DEF Next

\* Every reachable state of the broker is well typed: no handler of the state
\* machine writes a row outside its schema, whatever the lanes, groups, delays,
\* limits and operator commands.
THEOREM TypeCorrect == Spec => []TypeOK
<1>1. Init => TypeOK
    BY InitType
<1>2. TypeOK /\ [Next]_vars => TypeOK'
    BY NextType
<1> QED
    BY <1>1, <1>2, PTL DEF Spec

-----------------------------------------------------------------------------
(* Every message that waits has the timer row that frees it.               *)
(*                                                                         *)
(* Reclaimable and Wakes are the bodies of LeasedReclaimable and           *)
(* DelayedWakes for one message.  Together with TypeOK they are inductive: *)
(* a step changes the rows of at most one message and of at most one       *)
(* lease, and two messages in flight never share a lease because the lease *)
(* row names its message.                                                  *)

Reclaimable(k) ==
    msgs[k].state = "LEASED" =>
        LET l == msgs[k].lease
        IN  /\ l \in LeaseIds /\ l < nextLease
            /\ leases[l].live /\ leases[l].key = k
            /\ [due |-> leases[l].deadline, ref |-> l, epoch |-> msgs[k].epoch]
                  \in leaseDeadline

Wakes(k) ==
    msgs[k].state = "DELAYED" =>
        [due |-> msgs[k].due, ref |-> k, epoch |-> msgs[k].epoch] \in readyAt

TimersHeld == \A k \in Keys : Reclaimable(k) /\ Wakes(k)

\* The message of a key keeps its timer rows when the step leaves the message,
\* its lease and the rows that refer to them alone.
LEMMA Frame ==
    ASSUME TypeOK, NEW k \in Keys, Reclaimable(k), Wakes(k),
           msgs'[k] = msgs[k],
           NEW l, msgs[k].state = "LEASED" => msgs[k].lease # l,
           \A j \in LeaseIds : j # l => leases'[j] = leases[j],
           \A u \in leaseDeadline : u.ref # l => u \in leaseDeadline',
           \A u \in readyAt : u.ref = k => u \in readyAt',
           nextLease' \in {nextLease, nextLease + 1}
    PROVE  Reclaimable(k)' /\ Wakes(k)'
<1>1. Wakes(k)'
    BY DEF Wakes
<1>2. CASE msgs[k].state = "LEASED"
    <2> DEFINE h == msgs[k].lease
    <2>1. /\ h \in LeaseIds /\ h < nextLease /\ h # l
          /\ leases[h].live /\ leases[h].key = k
          /\ [due |-> leases[h].deadline, ref |-> h, epoch |-> msgs[k].epoch]
                \in leaseDeadline
        BY <1>2 DEF Reclaimable
    <2>2. h < nextLease'
        BY <2>1 DEF TypeOK, LeaseIds
    <2> QED
        BY <1>1, <2>1, <2>2 DEF Reclaimable
<1> QED
    BY <1>1, <1>2 DEF Reclaimable

\* Only the message a lease names can be in flight under it.
LEMMA LeaseNames ==
    ASSUME TimersHeld, NEW k \in Keys, NEW l \in LeaseIds, k # leases[l].key
    PROVE  msgs[k].state = "LEASED" => msgs[k].lease # l
BY DEF TimersHeld, Reclaimable

\* A message that is gone or ready needs no row.
LEMMA Idle ==
    ASSUME NEW k \in Keys, msgs'[k].state \in {"NONE", "READY"}
    PROVE  Reclaimable(k)' /\ Wakes(k)'
BY DEF Reclaimable, Wakes

\* Deleting the rows of one lease's deadline leaves the others.
LEMMA DelOther ==
    ASSUME NEW T, NEW due, NEW ref
    PROVE  \A u \in T : u.ref # ref => u \in DelTimer(T, due, ref)
BY DEF DelTimer

\* Adding a row deletes rows of that ref only.
LEMMA AddOther ==
    ASSUME NEW T, NEW due, NEW ref, NEW e
    PROVE  /\ \A u \in T : u.ref # ref => u \in AddTimer(T, due, ref, e)
           /\ [due |-> due, ref |-> ref, epoch |-> e] \in AddTimer(T, due, ref, e)
BY DEF AddTimer, DelTimer

\* The message goes back to its group: a delayed one gets its row.
LEMMA RequeueHeld ==
    ASSUME TypeOK, NEW k \in Keys, msgs[k] \in Message, NEW m \in Message,
           m.epoch = msgs[k].epoch, NEW at \in Nat, RequeueMsg(k, m, at)
    PROVE  /\ Reclaimable(k)' /\ Wakes(k)'
           /\ \A j \in Keys : j # k => msgs'[j] = msgs[j]
           /\ \A j \in Keys : j # k => \A u \in readyAt : u.ref = j => u \in readyAt'
<1>1. /\ msgs' = [msgs EXCEPT ![k] = Requeued(m, at)]
      /\ readyAt' = TimersRequeued(k, at)
    BY DEF RequeueMsg
<1>2. msgs'[k] = Requeued(m, at)
    BY <1>1 DEF TypeOK
<1>3. /\ Requeued(m, at).state = IF at > now THEN "DELAYED" ELSE "READY"
      /\ Requeued(m, at).epoch = msgs[k].epoch + 1
      /\ Requeued(m, at).due = at
    BY DEF Requeued, Message
<1>4. CASE at > now
    <2>1. readyAt' = AddTimer(readyAt, at, k, msgs[k].epoch + 1)
        BY <1>1, <1>4 DEF TimersRequeued
    <2>2. [due |-> at, ref |-> k, epoch |-> msgs[k].epoch + 1] \in readyAt'
        BY <2>1, AddOther
    <2>3. Reclaimable(k)' /\ Wakes(k)'
        BY <1>2, <1>3, <1>4, <2>2 DEF Reclaimable, Wakes
    <2>4. \A u \in readyAt : u.ref # k => u \in readyAt'
        BY <2>1, AddOther
    <2> QED
        BY <1>1, <2>3, <2>4 DEF TypeOK
<1>5. CASE ~(at > now)
    BY <1>1, <1>2, <1>3, <1>5, Idle DEF TimersRequeued, TypeOK
<1> QED
    BY <1>4, <1>5

\* A dead letter leaves the other messages and the ready-at rows alone.
LEMMA DeadLetterHeld ==
    ASSUME TypeOK, NEW k \in Keys, NEW m, NEW reason, DeadLetterMsg(k, m, reason)
    PROVE  /\ Reclaimable(k)' /\ Wakes(k)'
           /\ \A j \in Keys : j # k => msgs'[j] = msgs[j]
           /\ readyAt' = readyAt
<1>1. msgs'[k] = NoMessage /\ readyAt' = readyAt
      /\ \A j \in Keys : j # k => msgs'[j] = msgs[j]
    BY DEF DeadLetterMsg, TypeOK
<1> QED
    BY <1>1, Idle DEF NoMessage

\* What a step that ends the lease l leaves held: its message is settled, the
\* others keep their rows.
LEMMA EndHeld ==
    ASSUME TypeOK, TimersHeld, NEW l \in LeaseIds, NEW c \in Keys,
           leases[l].key = c,
           \A j \in LeaseIds : j # l => leases'[j] = leases[j],
           \A u \in leaseDeadline : u.ref # l => u \in leaseDeadline',
           nextLease' = nextLease,
           Reclaimable(c)' /\ Wakes(c)',
           \A j \in Keys : j # c => msgs'[j] = msgs[j],
           \A j \in Keys : j # c =>
               \A u \in readyAt : u.ref = j => u \in readyAt'
    PROVE  TimersHeld'
<1> SUFFICES ASSUME NEW k \in Keys PROVE Reclaimable(k)' /\ Wakes(k)'
    BY DEF TimersHeld
<1>1. CASE k = c
    BY <1>1
<1>2. CASE k # c
    <2>1. msgs[k].state = "LEASED" => msgs[k].lease # l
        BY <1>2, LeaseNames
    <2>2. Reclaimable(k) /\ Wakes(k)
        BY DEF TimersHeld
    <2> QED
        BY <1>2, <2>1, <2>2, Frame
<1> QED
    BY <1>1, <1>2

\* applyPublish and applyRedrive: the new message of a delayed publish gets its
\* row; what was under its key before is gone.
LEMMA PublishHeld ==
    ASSUME TypeOK, TimersHeld, NEW q \in Queues, NEW r, NEW body,
           r.delay \in Nat, PublishOne(q, r, body),
           UNCHANGED <<leases, leaseDeadline, nextLease>>
    PROVE  TimersHeld'
<1> SUFFICES ASSUME NEW k \in Keys PROVE Reclaimable(k)' /\ Wakes(k)'
    BY DEF TimersHeld
<1>1. PICK c \in Keys : c = <<q, LoadGroupMeta(q).next>>
    BY DEF PublishOne, Keys
<1> DEFINE m == [state |-> IF r.delay > 0 THEN "DELAYED" ELSE "READY",
                 lease |-> 0, epoch |-> 0, attempt |-> 0, max |-> r.max,
                 token |-> r.token, body |-> body, due |-> now + r.delay,
                 ttlAt |-> IF r.ttl > 0 THEN now + r.ttl ELSE 0]
<1>2. /\ msgs' = [msgs EXCEPT ![c] = m]
      /\ readyAt' = IF r.delay > 0
                    THEN AddTimer(readyAt, now + r.delay, c, 0) ELSE readyAt
    BY <1>1 DEF PublishOne
<1>3. CASE k = c
    <2>1. msgs'[c] = m
        BY <1>2 DEF TypeOK
    <2>2. CASE r.delay > 0
        <3>1. [due |-> now + r.delay, ref |-> c, epoch |-> 0] \in readyAt'
            BY <1>2, <2>2, AddOther
        <3>2. msgs'[c].state = "DELAYED" /\ msgs'[c].due = now + r.delay
              /\ msgs'[c].epoch = 0
            BY <2>1, <2>2
        <3> QED
            BY <1>3, <3>1, <3>2 DEF Reclaimable, Wakes
    <2>3. CASE ~(r.delay > 0)
        BY <1>3, <2>1, <2>3, Idle
    <2> QED
        BY <2>2, <2>3
<1>4. CASE k # c
    <2>1. msgs'[k] = msgs[k]
        BY <1>2, <1>4 DEF TypeOK
    <2>2. \A u \in readyAt : u.ref # c => u \in readyAt'
        BY <1>2, AddOther
    <2>3. Reclaimable(k) /\ Wakes(k)
        BY DEF TimersHeld
    <2>4. msgs[k].state = "LEASED" => msgs[k].lease # 0
        BY <2>3 DEF Reclaimable, LeaseIds
    <2>5. nextLease' \in {nextLease, nextLease + 1}
        OBVIOUS
    <2> QED
        BY <1>4, <2>1, <2>2, <2>3, <2>4, <2>5, Frame
<1> QED
    BY <1>3, <1>4

\* A step that only removes messages, or changes none of the rows concerned.
LEMMA DropHeld ==
    ASSUME TypeOK, TimersHeld, UNCHANGED <<leases, leaseDeadline, nextLease, readyAt>>,
           \A k \in Keys : msgs'[k] = msgs[k] \/ msgs'[k].state = "NONE"
    PROVE  TimersHeld'
<1> SUFFICES ASSUME NEW k \in Keys PROVE Reclaimable(k)' /\ Wakes(k)'
    BY DEF TimersHeld
<1>1. CASE msgs'[k] = msgs[k]
    BY <1>1 DEF TimersHeld, Reclaimable, Wakes
<1>2. CASE msgs'[k].state = "NONE"
    BY <1>2, Idle
<1> QED
    BY <1>1, <1>2

\* applyLease: a new lease id, its deadline row under the message's new epoch.
LEMMA LeaseHeld ==
    ASSUME TypeOK, TimersHeld, NEW q \in Queues, NEW i \in MsgIds, Lease(q, i)
    PROVE  TimersHeld'
<1> SUFFICES ASSUME NEW k \in Keys PROVE Reclaimable(k)' /\ Wakes(k)'
    BY DEF TimersHeld
<1>1. PICK c \in Keys : c = <<q, i>>
    BY DEF Keys
<1>2. PICK h \in LeaseIds : h = nextLease
    BY DEF Lease
<1> DEFINE m == [msgs[c] EXCEPT !.state = "LEASED", !.lease = h, !.epoch = @ + 1]
<1>3. /\ msgs' = [msgs EXCEPT ![c] = m]
      /\ leases'[h].live /\ leases'[h].key = c
      /\ leases'[h].deadline = now + Visibility
      /\ \A j \in LeaseIds : j # h => leases'[j] = leases[j]
      /\ leaseDeadline' = AddTimer(leaseDeadline, now + Visibility, h, m.epoch)
      /\ readyAt' = readyAt
      /\ nextLease' = nextLease + 1
    BY <1>1, <1>2 DEF Lease, TypeOK
<1>4. CASE k = c
    <2>1. msgs[c] \in Message
        BY <1>1, RowKinds DEF Lease, IsHeadReady, ReadyIds
    <2>2. msgs'[c].state = "LEASED" /\ msgs'[c].lease = h /\ msgs'[c].epoch = m.epoch
        BY <1>3, <2>1 DEF TypeOK, Message
    <2>3. [due |-> now + Visibility, ref |-> h, epoch |-> m.epoch] \in leaseDeadline'
        BY <1>3, AddOther
    <2>4. h < nextLease'
        BY <1>2, <1>3 DEF TypeOK
    <2> QED
        BY <1>3, <1>4, <2>2, <2>3, <2>4 DEF Reclaimable, Wakes
<1>5. CASE k # c
    <2>1. msgs'[k] = msgs[k]
        BY <1>3, <1>5 DEF TypeOK
    <2>2. Reclaimable(k) /\ Wakes(k)
        BY DEF TimersHeld
    <2>3. msgs[k].state = "LEASED" => msgs[k].lease # h
        BY <1>2, <2>2 DEF Reclaimable, LeaseIds
    <2>4. \A u \in leaseDeadline : u.ref # h => u \in leaseDeadline'
        BY <1>3, AddOther
    <2> QED
        BY <1>3, <2>1, <2>2, <2>3, <2>4, Frame
<1> QED
    BY <1>4, <1>5

\* applyAck deletes the message, the lease and its deadline row.
LEMMA AckHeld ==
    ASSUME TypeOK, TimersHeld, NEW l \in LeaseIds, leases[l].live, NEW tok,
           AckLease(l, tok)
    PROVE  TimersHeld'
<1>1. PICK c \in Keys : c = leases[l].key
    BY LeaseKeys
<1>2. /\ msgs'[c].state = "NONE"
      /\ \A j \in Keys : j # c => msgs'[j] = msgs[j]
      /\ \A j \in LeaseIds : j # l => leases'[j] = leases[j]
      /\ leaseDeadline' = DelTimer(leaseDeadline, leases[l].deadline, l)
      /\ UNCHANGED <<nextLease, readyAt>>
    BY <1>1 DEF AckLease, NoMessage, TypeOK
<1>3. Reclaimable(c)' /\ Wakes(c)'
    BY <1>2, Idle
<1>4. \A u \in leaseDeadline : u.ref # l => u \in leaseDeadline'
    BY <1>2, DelOther
<1> QED
    BY <1>1, <1>2, <1>3, <1>4, EndHeld

\* The lease part of a nack, when the message of a current lease is settled and
\* nothing is done for a stale one.
LEMMA NackHeld ==
    ASSUME TypeOK, TimersHeld, NEW l \in LeaseIds, leases[l].live, NEW tok,
           EndLease(l, tok), NEW c \in Keys, c = leases[l].key,
           ~LeaseCurrent(l) => UNCHANGED <<msgs, readyAt>>,
           LeaseCurrent(l) =>
              /\ Reclaimable(c)' /\ Wakes(c)'
              /\ \A j \in Keys : j # c => msgs'[j] = msgs[j]
              /\ \A j \in Keys : j # c =>
                    \A u \in readyAt : u.ref = j => u \in readyAt'
    PROVE  TimersHeld'
<1>1. /\ \A j \in LeaseIds : j # l => leases'[j] = leases[j]
      /\ leaseDeadline' = DelTimer(leaseDeadline, leases[l].deadline, l)
      /\ UNCHANGED nextLease
    BY DEF EndLease, TypeOK
<1>2. \A u \in leaseDeadline : u.ref # l => u \in leaseDeadline'
    BY <1>1, DelOther
<1>3. CASE LeaseCurrent(l)
    BY <1>1, <1>2, <1>3, EndHeld
<1>4. CASE ~LeaseCurrent(l)
    <2>1. Reclaimable(c) /\ Wakes(c)
        BY DEF TimersHeld
    <2>2. msgs[c].state = "LEASED" => msgs[c].lease # l
        BY <1>4 DEF LeaseCurrent
    <2>3. Reclaimable(c)' /\ Wakes(c)'
        BY <1>1, <1>2, <1>4, <2>1, <2>2, Frame
    <2> QED
        BY <1>1, <1>2, <1>4, <2>3, EndHeld
<1> QED
    BY <1>3, <1>4

\* applyNack, mode NackRetry.
LEMMA NackRetryHeld ==
    ASSUME TypeOK, TimersHeld, NEW l \in LeaseIds, NEW delay \in Nat, NEW tok,
           NackRetryLease(l, delay, tok)
    PROVE  TimersHeld'
<1>1. leases[l].live /\ EndLease(l, tok)
    BY DEF NackRetryLease
<1>2. PICK c \in Keys : c = leases[l].key
    BY <1>1, LeaseKeys
<1>3. PICK m : m = [msgs[c] EXCEPT !.attempt = @ + 1]
    OBVIOUS
<1>4. PICK at : at = now + (IF delay > 0 THEN delay ELSE Backoff)
    OBVIOUS
<1>5. at \in Nat
    BY <1>4, BrokerAssumption DEF TypeOK
<1>6. ASSUME LeaseCurrent(l)
      PROVE  /\ Reclaimable(c)' /\ Wakes(c)'
             /\ \A j \in Keys : j # c => msgs'[j] = msgs[j]
             /\ \A j \in Keys : j # c =>
                   \A u \in readyAt : u.ref = j => u \in readyAt'
    <2>1. msgs[c] \in Message
        BY <1>1, <1>2, <1>6, LeaseKeys
    <2>2. m \in Message /\ m.epoch = msgs[c].epoch
        <3>1. msgs[c].attempt + 1 \in Nat
            BY <2>1 DEF Message
        <3>2. m \in Message
            BY <1>3, <2>1, <3>1, Zenon DEF Message
        <3>3. m.epoch = msgs[c].epoch
            BY <1>3, <2>1 DEF Message
        <3> QED
            BY <3>2, <3>3
    <2>3. DeadLetterMsg(c, m, "max_attempts") \/ RequeueMsg(c, m, at)
        BY <1>2, <1>3, <1>4, <1>6 DEF NackRetryLease
    <2>4. CASE DeadLetterMsg(c, m, "max_attempts")
        BY <2>4, DeadLetterHeld
    <2>5. CASE RequeueMsg(c, m, at)
        BY <1>5, <2>1, <2>2, <2>5, RequeueHeld
    <2> QED
        BY <2>3, <2>4, <2>5
<1>7. ~LeaseCurrent(l) => UNCHANGED <<msgs, readyAt>>
    BY DEF NackRetryLease
<1> QED
    BY <1>1, <1>2, <1>6, <1>7, NackHeld

\* applyNack, modes NackDeadLetter and NackRequeueNoPenalty.
LEMMA NackOtherHeld ==
    ASSUME TypeOK, TimersHeld, NEW l \in LeaseIds, NEW delay \in Nat,
           NackDeadLetter(l) \/ NackRequeue(l, delay)
    PROVE  TimersHeld'
<1>1. PICK tok : tok = DeleteLeaseToken(l)
    OBVIOUS
<1>2. leases[l].live /\ EndLease(l, tok)
    BY <1>1 DEF NackDeadLetter, NackRequeue
<1>3. PICK c \in Keys : c = leases[l].key
    BY <1>2, LeaseKeys
<1>4. PICK m : m = msgs[c]
    OBVIOUS
<1>5. PICK at : at = now + delay
    OBVIOUS
<1>6. at \in Nat
    BY <1>5 DEF TypeOK
<1>7. ASSUME LeaseCurrent(l)
      PROVE  /\ Reclaimable(c)' /\ Wakes(c)'
             /\ \A j \in Keys : j # c => msgs'[j] = msgs[j]
             /\ \A j \in Keys : j # c =>
                   \A u \in readyAt : u.ref = j => u \in readyAt'
    <2>1. msgs[c] \in Message
        BY <1>2, <1>3, <1>7, LeaseKeys
    <2>2. DeadLetterMsg(c, m, "terminal_nack") \/ RequeueMsg(c, m, at)
        BY <1>3, <1>4, <1>5, <1>7 DEF NackDeadLetter, NackRequeue
    <2>3. CASE DeadLetterMsg(c, m, "terminal_nack")
        BY <2>3, DeadLetterHeld
    <2>4. CASE RequeueMsg(c, m, at)
        BY <1>4, <1>6, <2>1, <2>4, RequeueHeld
    <2> QED
        BY <2>2, <2>3, <2>4
<1>8. ~LeaseCurrent(l) => UNCHANGED <<msgs, readyAt>>
    BY DEF NackDeadLetter, NackRequeue
<1> QED
    BY <1>2, <1>3, <1>7, <1>8, NackHeld

\* applyExtend replaces the deadline row: new deadline, new epoch.
LEMMA ExtendHeld ==
    ASSUME TypeOK, TimersHeld, NEW l \in LeaseIds, NEW ttl \in Nat, Extend(l, ttl)
    PROVE  TimersHeld'
<1>1. leases[l].live /\ LeaseCurrent(l) /\ leases[l] \in LeaseRow
    BY RowKinds DEF Extend
<1>2. PICK c \in Keys : c = leases[l].key
    BY <1>1, LeaseKeys
<1>3. PICK e : e = msgs[c].epoch + 1
    OBVIOUS
<1>4. msgs[c] \in Message /\ msgs[c].state = "LEASED" /\ msgs[c].lease = l
    BY <1>1, <1>2, LeaseKeys DEF LeaseCurrent
<1>5. /\ msgs' = [msgs EXCEPT ![c].epoch = e]
      /\ leases' = [leases EXCEPT ![l].deadline = now + ttl]
      /\ leaseDeadline' =
            AddTimer(DelTimer(leaseDeadline, leases[l].deadline, l),
                     now + ttl, l, e)
      /\ UNCHANGED <<nextLease, readyAt>>
    BY <1>2, <1>3 DEF Extend
<1>6. Reclaimable(c)' /\ Wakes(c)'
    <2>1. /\ msgs'[c].state = "LEASED" /\ msgs'[c].lease = l
          /\ msgs'[c].epoch = e
        BY <1>4, <1>5 DEF TypeOK, Message
    <2>2. /\ leases'[l].live /\ leases'[l].key = c
          /\ leases'[l].deadline = now + ttl
        BY <1>1, <1>2, <1>5 DEF TypeOK, LeaseRow
    <2>3. [due |-> now + ttl, ref |-> l, epoch |-> e] \in leaseDeadline'
        BY <1>5, AddOther
    <2>4. l < nextLease'
        BY <1>4, <1>5 DEF TimersHeld, Reclaimable
    <2> QED
        BY <2>1, <2>2, <2>3, <2>4 DEF Reclaimable, Wakes
<1>7. \A u \in leaseDeadline : u.ref # l => u \in leaseDeadline'
    BY <1>5, AddOther, DelOther
<1>8. /\ \A j \in LeaseIds : j # l => leases'[j] = leases[j]
      /\ \A j \in Keys : j # c => msgs'[j] = msgs[j]
    BY <1>5 DEF TypeOK
<1> QED
    BY <1>2, <1>5, <1>6, <1>7, <1>8, EndHeld

\* applyComplete settles like an ack or a nack.
LEMMA CompleteHeld ==
    ASSUME TypeOK, TimersHeld, NEW t \in TokenIds, NEW ok \in BOOLEAN,
           NEW delay \in Nat, Complete(t, ok, delay)
    PROVE  TimersHeld'
<1>1. PICK l \in LeaseIds : l = tokens[t]
    BY BrokerAssumption DEF Complete, TypeOK, LeaseIds
<1>2. PICK tok : tok = [DeleteLeaseToken(l) EXCEPT ![t] = 0]
    OBVIOUS
<1>3. CASE ~leases[l].live
    <2>1. UNCHANGED <<msgs, leases, leaseDeadline, nextLease, readyAt>>
        BY <1>1, <1>3 DEF Complete, timers
    <2> QED
        BY <2>1, DropHeld
<1>4. CASE leases[l].live
    <2>1. AckLease(l, tok) \/ NackRetryLease(l, delay, tok)
        BY <1>1, <1>2, <1>4 DEF Complete
    <2> QED
        BY <1>4, <2>1, AckHeld, NackRetryHeld
<1> QED
    BY <1>3, <1>4

\* A fired ready-at row either wakes the message it belongs to or is stale.
LEMMA FireReadyAtHeld ==
    ASSUME TypeOK, TimersHeld, NEW t \in readyAt, FireReadyAt(t)
    PROVE  TimersHeld'
<1> SUFFICES ASSUME NEW k \in Keys PROVE Reclaimable(k)' /\ Wakes(k)'
    BY DEF TimersHeld
<1>1. PICK c \in Keys : c = t.ref
    BY DEF TypeOK, Timer
<1>2. /\ readyAt' = readyAt \ {t}
      /\ UNCHANGED <<leases, leaseDeadline, nextLease>>
      /\ \A j \in Keys : j # c => msgs'[j] = msgs[j]
    BY <1>1 DEF FireReadyAt, TypeOK
<1>3. Reclaimable(k) /\ Wakes(k)
    BY DEF TimersHeld
<1>4. CASE k # c
    BY <1>1, <1>2, <1>3, <1>4 DEF Reclaimable, Wakes
<1>5. CASE k = c /\ ReadyFence(t)
    <2>1. msgs[c] \in Message
        BY <1>1, <1>5, RowKinds DEF ReadyFence
    <2>2. msgs'[c].state = "READY"
        BY <1>1, <1>5, <2>1 DEF FireReadyAt, TypeOK, Message
    <2> QED
        BY <1>5, <2>2, Idle
<1>6. CASE k = c /\ ~ReadyFence(t)
    <2>1. msgs' = msgs
        BY <1>6 DEF FireReadyAt
    <2>2. msgs[k].state = "DELAYED" =>
              [due |-> msgs[k].due, ref |-> k, epoch |-> msgs[k].epoch] # t
        BY <1>1, <1>6 DEF ReadyFence
    <2> QED
        BY <1>2, <1>3, <2>1, <2>2 DEF Reclaimable, Wakes
<1> QED
    BY <1>4, <1>5, <1>6

\* A fired deadline row either takes its lease back or is stale.
LEMMA FireLeaseDeadlineHeld ==
    ASSUME TypeOK, TimersHeld, NEW t \in leaseDeadline, FireLeaseDeadline(t)
    PROVE  TimersHeld'
<1>1. PICK l \in LeaseIds : l = t.ref
    BY DEF TypeOK, Timer
<1>2. leaseDeadline' = leaseDeadline \ {t} /\ nextLease' = nextLease
    BY DEF FireLeaseDeadline
<1>3. CASE DeadlineFence(t)
    <2>1. leases[l].live /\ LeaseCurrent(l)
        BY <1>1, <1>3 DEF DeadlineFence
    <2>2. PICK c \in Keys : c = leases[l].key
        BY <2>1, LeaseKeys
    <2>3. PICK m : m = msgs[c]
        OBVIOUS
    <2>4. PICK at \in Nat : at = now
        BY DEF TypeOK
    <2>5. RequeueMsg(c, m, at) /\ leases' = [leases EXCEPT ![l] = NoLease]
        BY <1>1, <1>3, <2>2, <2>3, <2>4 DEF FireLeaseDeadline
    <2>6. msgs[c] \in Message
        BY <2>1, <2>2, LeaseKeys
    <2>7. /\ Reclaimable(c)' /\ Wakes(c)'
          /\ \A j \in Keys : j # c => msgs'[j] = msgs[j]
          /\ \A j \in Keys : j # c =>
                \A u \in readyAt : u.ref = j => u \in readyAt'
        BY <2>3, <2>5, <2>6, RequeueHeld
    <2>8. /\ \A j \in LeaseIds : j # l => leases'[j] = leases[j]
          /\ \A u \in leaseDeadline : u.ref # l => u \in leaseDeadline'
        BY <1>1, <1>2, <2>5 DEF TypeOK
    <2> QED
        BY <1>2, <2>2, <2>7, <2>8, EndHeld
<1>4. CASE ~DeadlineFence(t)
    <2> SUFFICES ASSUME NEW k \in Keys PROVE Reclaimable(k)' /\ Wakes(k)'
        BY DEF TimersHeld
    <2>1. UNCHANGED <<msgs, leases, readyAt>>
        BY <1>4 DEF FireLeaseDeadline
    <2>2. Reclaimable(k) /\ Wakes(k)
        BY DEF TimersHeld
    <2>3. ASSUME msgs[k].state = "LEASED",
                 [due |-> leases[msgs[k].lease].deadline, ref |-> msgs[k].lease,
                  epoch |-> msgs[k].epoch] = t
          PROVE  FALSE
        <3>1. msgs[k].lease = t.ref /\ msgs[k].epoch = t.epoch
            BY <2>3
        <3>2. leases[t.ref].live /\ leases[t.ref].key = k
            BY <2>2, <2>3, <3>1 DEF Reclaimable
        <3> QED
            BY <1>4, <2>3, <3>1, <3>2 DEF DeadlineFence, LeaseCurrent
    <2> QED
        BY <1>2, <2>1, <2>2, <2>3 DEF Reclaimable, Wakes
<1> QED
    BY <1>3, <1>4

\* The lifetime cap ends a lease like a terminal nack.
LEMMA FireLeaseMaxLifeHeld ==
    ASSUME TypeOK, TimersHeld, NEW t \in leaseMaxLife, FireLeaseMaxLife(t)
    PROVE  TimersHeld'
<1>1. PICK l \in LeaseIds : l = t.ref
    BY DEF TypeOK, Timer
<1>2. CASE ~(leases[l].live /\ LeaseCurrent(l))
    <2>1. UNCHANGED <<msgs, leases, leaseDeadline, nextLease, readyAt>>
        BY <1>1, <1>2 DEF FireLeaseMaxLife
    <2> QED
        BY <2>1, DropHeld
<1>3. CASE leases[l].live /\ LeaseCurrent(l)
    <2>1. PICK c \in Keys : c = leases[l].key
        BY <1>3, LeaseKeys
    <2>2. PICK m : m = msgs[c]
        OBVIOUS
    <2>3. /\ DeadLetterMsg(c, m, "max_lease_lifetime")
          /\ leases' = [leases EXCEPT ![l] = NoLease]
          /\ leaseDeadline' = DelTimer(leaseDeadline, leases[l].deadline, l)
          /\ nextLease' = nextLease
        BY <1>1, <1>3, <2>1, <2>2 DEF FireLeaseMaxLife
    <2>4. /\ Reclaimable(c)' /\ Wakes(c)'
          /\ \A j \in Keys : j # c => msgs'[j] = msgs[j]
          /\ readyAt' = readyAt
        BY <2>3, DeadLetterHeld
    <2>5. \A u \in leaseDeadline : u.ref # l => u \in leaseDeadline'
        BY <2>3, DelOther
    <2>6. \A j \in LeaseIds : j # l => leases'[j] = leases[j]
        BY <2>3 DEF TypeOK
    <2> QED
        BY <2>1, <2>3, <2>4, <2>5, <2>6, EndHeld
<1> QED
    BY <1>2, <1>3

\* Every step keeps the timer rows of waiting messages.
LEMMA NextHeld == TypeOK /\ TimersHeld /\ [Next]_vars => TimersHeld'
<1> SUFFICES ASSUME TypeOK, TimersHeld, [Next]_vars PROVE TimersHeld'
    OBVIOUS
<1>1. CASE UNCHANGED vars \/ Tick \/ ReapNext
    <2>1. UNCHANGED <<msgs, leases, leaseDeadline, nextLease, readyAt>>
        BY <1>1 DEF vars, Tick, ReapNext, ReapSweep, ReapGroup, store, timers
    <2> QED
        BY <2>1, DropHeld
<1>2. CASE ClientNext
    <2>1. ASSUME NEW q \in Queues, NEW r \in PublishReq, Publish(q, r)
          PROVE  TimersHeld'
        <3>1. r.delay \in Nat
            BY BrokerAssumption DEF PublishReq
        <3>2. PICK body : body = published + 1
            OBVIOUS
        <3>3. /\ PublishOne(q, r, body)
              /\ UNCHANGED <<leases, leaseDeadline, nextLease>>
            BY <2>1, <3>2 DEF Publish
        <3> QED
            BY <3>1, <3>3, PublishHeld
    <2>2. ASSUME NEW q \in Queues, Pick(q) \/ LeaseEmpty(q)
          PROVE  TimersHeld'
        <3>1. UNCHANGED <<msgs, leases, leaseDeadline, nextLease, readyAt>>
            BY <2>2 DEF Pick, LeaseEmpty, store, timers
        <3> QED
            BY <3>1, DropHeld
    <2>3. ASSUME NEW q \in Queues, NEW i \in MsgIds, Lease(q, i)
          PROVE  TimersHeld'
        BY <2>3, LeaseHeld
    <2>4. ASSUME NEW l \in LeaseIds, IssueToken(l)
          PROVE  TimersHeld'
        <3> SUFFICES ASSUME NEW k \in Keys PROVE Reclaimable(k)' /\ Wakes(k)'
            BY DEF TimersHeld
        <3>1. UNCHANGED <<msgs, leaseDeadline, nextLease, readyAt>>
            BY <2>4 DEF IssueToken, timers
        <3>2. \A j \in LeaseIds : /\ leases'[j].live = leases[j].live
                                  /\ leases[j].live =>
                                        /\ leases'[j].key = leases[j].key
                                        /\ leases'[j].deadline = leases[j].deadline
            BY <2>4, RowKinds DEF IssueToken, LeaseRow, TypeOK
        <3> QED
            BY <3>1, <3>2 DEF TimersHeld, Reclaimable, Wakes
    <2>5. ASSUME NEW l \in LeaseIds, Ack(l)
          PROVE  TimersHeld'
        <3>1. PICK tok : tok = DeleteLeaseToken(l)
            OBVIOUS
        <3> QED
            BY <2>5, <3>1, AckHeld DEF Ack
    <2>6. ASSUME NEW l \in LeaseIds, NackDeadLetter(l)
          PROVE  TimersHeld'
        <3>1. 0 \in Nat
            OBVIOUS
        <3> QED
            BY <2>6, <3>1, NackOtherHeld
    <2>7. ASSUME NEW l \in LeaseIds, NEW d \in Delays,
                 NackRetry(l, d) \/ NackRequeue(l, d) \/ Extend(l, d)
          PROVE  TimersHeld'
        <3>1. d \in Nat
            BY BrokerAssumption
        <3>2. PICK tok : tok = DeleteLeaseToken(l)
            OBVIOUS
        <3>3. NackRetry(l, d) => NackRetryLease(l, d, tok)
            BY <3>2 DEF NackRetry
        <3> QED
            BY <2>7, <3>1, <3>3, NackRetryHeld, NackOtherHeld, ExtendHeld
    <2>8. ASSUME NEW t \in TokenIds, NEW ok \in BOOLEAN, NEW d \in Delays,
                 Complete(t, ok, d)
          PROVE  TimersHeld'
        BY <2>8, CompleteHeld, BrokerAssumption
    <2> QED
        BY <1>2, <2>1, <2>2, <2>3, <2>4, <2>5, <2>6, <2>7, <2>8 DEF ClientNext
<1>3. CASE SweepNext
    <2>1. ASSUME NEW t \in msgExpiry, FireMsgExpiry(t)
          PROVE  TimersHeld'
        <3>1. /\ UNCHANGED <<leases, leaseDeadline, nextLease, readyAt>>
              /\ \A k \in Keys : msgs'[k] = msgs[k] \/ msgs'[k].state = "NONE"
            BY <2>1 DEF FireMsgExpiry, NoMessage, TypeOK
        <3> QED
            BY <3>1, DropHeld
    <2>2. ASSUME NEW t \in dedupExpiry, FireDedupExpiry(t)
          PROVE  TimersHeld'
        <3>1. UNCHANGED <<msgs, leases, leaseDeadline, nextLease, readyAt>>
            BY <2>2 DEF FireDedupExpiry
        <3> QED
            BY <3>1, DropHeld
    <2> QED
        BY <1>3, <2>1, <2>2, FireReadyAtHeld, FireLeaseDeadlineHeld,
           FireLeaseMaxLifeHeld DEF SweepNext
<1>4. CASE AdminNext
    <2>1. ASSUME NEW row \in dlq, Redrive(row)
          PROVE  TimersHeld'
        <3>1. PICK q \in Queues : q = row.key[1]
            BY KeyParts DEF TypeOK, DeadRow
        <3>2. PICK r : r = [delay |-> 0, ttl |-> 0, max |-> row.max,
                            token |-> row.token]
            OBVIOUS
        <3>3. /\ r.delay \in Nat /\ PublishOne(q, r, row.body)
              /\ UNCHANGED <<leases, leaseDeadline, nextLease>>
            BY <2>1, <3>1, <3>2 DEF Redrive
        <3> QED
            BY <3>3, PublishHeld
    <2>2. ASSUME NEW Q, DropLeasable(Q)
          PROVE  TimersHeld'
        <3>1. /\ UNCHANGED <<leases, leaseDeadline, nextLease, readyAt>>
              /\ \A k \in Keys : msgs'[k] = msgs[k] \/ msgs'[k].state = "NONE"
            BY <2>2 DEF DropLeasable, NoMessage, timers
        <3> QED
            BY <3>1, DropHeld
    <2>3. ASSUME NEW q \in Queues, Purge(q)
          PROVE  TimersHeld'
        BY <2>2, <2>3 DEF Purge
    <2>4. ASSUME NEW grp \in Groups, Teardown(grp)
          PROVE  TimersHeld'
        <3>1. PICK Q : Q = {q \in Queues : q[2] = grp /\ meta[q].exists}
            OBVIOUS
        <3> QED
            BY <2>2, <2>4, <3>1 DEF Teardown
    <2>5. ASSUME NEW q \in Queues,
                 \/ \E p \in BOOLEAN : SetPaused(q, p)
                 \/ GroupConfig(q) \/ ReapNow(q)
          PROVE  TimersHeld'
        <3>1. UNCHANGED <<msgs, leases, leaseDeadline, nextLease, readyAt>>
            BY <2>5 DEF SetPaused, GroupConfig, ReapNow, timers
        <3> QED
            BY <3>1, DropHeld
    <2> QED
        BY <1>4, <2>1, <2>3, <2>4, <2>5 DEF AdminNext
<1> QED
    BY <1>1, <1>2, <1>3, <1>4 DEF Next

\* The timer rows of waiting messages, as one invariant.
THEOREM TimersAlwaysHeld == Spec => []TimersHeld
<1>1. Init => TimersHeld
    BY DEF Init, TimersHeld, Reclaimable, Wakes, NoMessage
<1>2. TypeOK /\ TimersHeld /\ [Next]_vars => TimersHeld'
    BY NextHeld
<1> QED
    BY <1>1, <1>2, TypeCorrect, PTL DEF Spec

\* A message in flight can always be taken back from a worker that died: after
\* any sequence of publishes, leases, settles, extends, timer fires, purges,
\* reaps and teardowns the due-time index holds the deadline row of its lease
\* under the message's own epoch, so the sweep passes the fence of applyFireTimer.
THEOREM LeasedMessagesReclaimable == Spec => []LeasedReclaimable
<1>1. TimersHeld => LeasedReclaimable
    BY DEF TimersHeld, Reclaimable, LeasedReclaimable
<1> QED
    BY <1>1, TimersAlwaysHeld, PTL

\* A delayed message always wakes: whatever races with it, the index holds a
\* ready-at row for it, due when its delay ends, under its own epoch.
THEOREM DelayedMessagesWake == Spec => []DelayedWakes
<1>1. TimersHeld => DelayedWakes
    BY DEF TimersHeld, Wakes, DelayedWakes
<1> QED
    BY <1>1, TimersAlwaysHeld, PTL

-----------------------------------------------------------------------------
(* Tokens.  TokenNeverDangles is inductive together with the fact that     *)
(* lease ids are never reused: a live lease has an id below the counter.   *)

LeasesBelow == \A l \in LeaseIds : leases[l].live => l < nextLease

TokensHeld == TokenNeverDangles /\ LeasesBelow

\* A token row names a lease id.
LEMMA TokenRange ==
    ASSUME TypeOK, NEW t \in TokenIds, tokens[t] # 0
    PROVE  tokens[t] \in LeaseIds
BY BrokerAssumption DEF TypeOK, LeaseIds

\* A step that ends the lease l and deletes its token row.
LEMMA TokenEnd ==
    ASSUME TypeOK, TokensHeld, NEW l \in LeaseIds, leases[l].live,
           leases' = [leases EXCEPT ![l] = NoLease], nextLease' = nextLease,
           \A t \in TokenIds : tokens'[t] = 0 \/ tokens'[t] = DeleteLeaseToken(l)[t]
    PROVE  TokensHeld'
<1>1. \A j \in LeaseIds : j # l => leases'[j] = leases[j]
    BY DEF TypeOK
<1>2. ~leases'[l].live
    BY DEF TypeOK, NoLease
<1>3. LeasesBelow'
    BY <1>1, <1>2 DEF TokensHeld, LeasesBelow
<1>4. ASSUME NEW t \in TokenIds, tokens'[t] # 0
      PROVE  leases'[tokens'[t]].live /\ leases'[tokens'[t]].token = t
    <2>1. tokens'[t] = tokens[t] /\ t # leases[l].token
        <3>1. tokens'[t] = DeleteLeaseToken(l)[t]
            BY <1>4
        <3>2. CASE leases[l].token = NoToken
            <4>1. t # NoToken
                BY BrokerAssumption DEF TokenIds, LeaseIds
            <4> QED
                BY <3>1, <3>2, <4>1 DEF DeleteLeaseToken
        <3>3. CASE leases[l].token # NoToken
            BY <1>4, <3>1, <3>3 DEF DeleteLeaseToken, TypeOK
        <3> QED
            BY <3>2, <3>3
    <2>2. /\ tokens[t] \in LeaseIds
          /\ leases[tokens[t]].live /\ leases[tokens[t]].token = t
        BY <1>4, <2>1, TokenRange DEF TokensHeld, TokenNeverDangles
    <2>3. tokens[t] # l
        BY <2>1, <2>2
    <2> QED
        BY <1>1, <2>1, <2>2, <2>3
<1> QED
    BY <1>3, <1>4 DEF TokensHeld, TokenNeverDangles

\* A step that keeps the tokens, the liveness of every lease and its token.
LEMMA TokenFrame ==
    ASSUME TypeOK, TokensHeld, UNCHANGED <<tokens, nextLease>>,
           \A j \in LeaseIds : /\ leases'[j].live = leases[j].live
                               /\ leases[j].live => leases'[j].token = leases[j].token
    PROVE  TokensHeld'
BY TokenRange DEF TokensHeld, TokenNeverDangles, LeasesBelow

\* applyLease takes a fresh id, which no token names.
LEMMA LeaseTokens ==
    ASSUME TypeOK, TokensHeld, NEW q \in Queues, NEW i \in MsgIds, Lease(q, i)
    PROVE  TokensHeld'
<1>1. PICK h \in LeaseIds : h = nextLease
    BY DEF Lease
<1>2. /\ \A j \in LeaseIds : j # h => leases'[j] = leases[j]
      /\ nextLease' = nextLease + 1 /\ tokens' = tokens
    BY <1>1 DEF Lease, TypeOK
<1>3. LeasesBelow'
    <2>1. ASSUME NEW j \in LeaseIds, leases'[j].live
          PROVE  j < nextLease'
        <3>1. CASE j = h
            BY <1>1, <1>2, <3>1 DEF TypeOK
        <3>2. CASE j # h
            BY <1>2, <2>1, <3>2 DEF TokensHeld, LeasesBelow, LeaseIds, TypeOK
        <3> QED
            BY <3>1, <3>2
    <2> QED
        BY <2>1 DEF LeasesBelow
<1>4. TokenNeverDangles'
    <2>1. ASSUME NEW t \in TokenIds, tokens[t] # 0
          PROVE  leases'[tokens[t]].live /\ leases'[tokens[t]].token = t
        <3>1. /\ tokens[t] \in LeaseIds /\ leases[tokens[t]].live
              /\ leases[tokens[t]].token = t /\ tokens[t] < nextLease
            BY <2>1, TokenRange DEF TokensHeld, TokenNeverDangles, LeasesBelow
        <3>2. tokens[t] # h
            BY <1>1, <3>1 DEF LeaseIds
        <3> QED
            BY <1>2, <3>1, <3>2
    <2> QED
        BY <1>2, <2>1 DEF TokenNeverDangles
<1> QED
    BY <1>3, <1>4 DEF TokensHeld

\* applyIssueToken: the lease had no token, so no other row names it.
LEMMA IssueTokens ==
    ASSUME TypeOK, TokensHeld, NEW l \in LeaseIds, IssueToken(l)
    PROVE  TokensHeld'
<1>1. PICK t0 : t0 = IF leases[l].want = Minted THEN l ELSE leases[l].want
    OBVIOUS
<1>2. leases[l] \in LeaseRow /\ leases[l].live /\ leases[l].token = NoToken
    BY RowKinds DEF IssueToken
<1>3. t0 \in TokenIds
    BY <1>1, <1>2, BrokerAssumption DEF IssueToken, LeaseRow, TokenIds
<1>4. /\ leases' = [leases EXCEPT ![l] = [leases[l] EXCEPT !.token = t0]]
      /\ tokens' = [tokens EXCEPT ![t0] = l]
      /\ nextLease' = nextLease
    BY <1>1 DEF IssueToken
<1>5. /\ \A j \in LeaseIds : j # l => leases'[j] = leases[j]
      /\ leases'[l].live /\ leases'[l].token = t0
    BY <1>2, <1>4 DEF TypeOK, LeaseRow
<1>6. LeasesBelow'
    BY <1>2, <1>4, <1>5 DEF TokensHeld, LeasesBelow
<1>7. ASSUME NEW t \in TokenIds, tokens'[t] # 0
      PROVE  leases'[tokens'[t]].live /\ leases'[tokens'[t]].token = t
    <2>1. CASE t = t0
        BY <1>3, <1>4, <1>5, <2>1 DEF TypeOK
    <2>2. CASE t # t0
        <3>1. tokens'[t] = tokens[t]
            BY <1>4, <2>2 DEF TypeOK
        <3>2. /\ tokens[t] \in LeaseIds
              /\ leases[tokens[t]].live /\ leases[tokens[t]].token = t
            BY <1>7, <3>1, TokenRange DEF TokensHeld, TokenNeverDangles
        <3>3. t # NoToken
            BY BrokerAssumption DEF TokenIds, LeaseIds
        <3> QED
            BY <1>2, <1>5, <3>1, <3>2, <3>3
    <2> QED
        BY <2>1, <2>2
<1> QED
    BY <1>6, <1>7 DEF TokensHeld, TokenNeverDangles

\* applyComplete: both branches end the lease and delete the row.
LEMMA CompleteTokens ==
    ASSUME TypeOK, TokensHeld, NEW t \in TokenIds, NEW ok \in BOOLEAN,
           NEW delay \in Nat, Complete(t, ok, delay)
    PROVE  TokensHeld'
<1>1. PICK l \in LeaseIds : l = tokens[t]
    BY TokenRange DEF Complete
<1>2. leases[l].live
    BY <1>1 DEF Complete, TokensHeld, TokenNeverDangles
<1>3. PICK tok : tok = [DeleteLeaseToken(l) EXCEPT ![t] = 0]
    OBVIOUS
<1>4. AckLease(l, tok) \/ NackRetryLease(l, delay, tok)
    BY <1>1, <1>2, <1>3 DEF Complete
<1>5. /\ leases' = [leases EXCEPT ![l] = NoLease] /\ nextLease' = nextLease
      /\ tokens' = tok
    BY <1>4 DEF AckLease, NackRetryLease, EndLease
<1>6. DeleteLeaseToken(l) \in [TokenIds -> 0..MaxLease]
    BY <1>2, DeleteLeaseTokenType
<1>7. \A u \in TokenIds : tokens'[u] = 0 \/ tokens'[u] = DeleteLeaseToken(l)[u]
    BY <1>3, <1>5, <1>6
<1> QED
    BY <1>2, <1>5, <1>7, TokenEnd

\* Every step keeps the token rows on live leases.
LEMMA NextTokens == TypeOK /\ TokensHeld /\ [Next]_vars => TokensHeld'
<1> SUFFICES ASSUME TypeOK, TokensHeld, [Next]_vars PROVE TokensHeld'
    OBVIOUS
<1>1. CASE UNCHANGED <<leases, tokens, nextLease>>
    BY <1>1, TokenFrame
<1>2. CASE UNCHANGED vars \/ Tick \/ ReapNext \/ AdminNext
    BY <1>1, <1>2 DEF vars, Tick, ReapNext, ReapSweep, ReapGroup, AdminNext,
       Redrive, Purge, Teardown, DropLeasable, SetPaused, GroupConfig, ReapNow,
       store
<1>3. CASE ClientNext
    <2>1. ASSUME NEW q \in Queues,
                 \/ \E r \in PublishReq : Publish(q, r)
                 \/ Pick(q) \/ LeaseEmpty(q)
          PROVE  TokensHeld'
        BY <1>1, <2>1 DEF Publish, Pick, LeaseEmpty, store
    <2>2. ASSUME NEW l \in LeaseIds,
                 \/ Ack(l) \/ NackDeadLetter(l)
                 \/ \E d \in Delays : NackRetry(l, d) \/ NackRequeue(l, d)
          PROVE  TokensHeld'
        <3>1. /\ leases[l].live
              /\ leases' = [leases EXCEPT ![l] = NoLease]
              /\ nextLease' = nextLease /\ tokens' = DeleteLeaseToken(l)
            BY <2>2 DEF Ack, AckLease, NackDeadLetter, NackRetry, NackRetryLease,
               NackRequeue, EndLease
        <3> QED
            BY <3>1, TokenEnd
    <2>3. ASSUME NEW l \in LeaseIds, NEW d \in Delays, Extend(l, d)
          PROVE  TokensHeld'
        <3>1. UNCHANGED <<tokens, nextLease>>
            BY <2>3 DEF Extend
        <3>2. leases' = [leases EXCEPT ![l].deadline = now + d]
              /\ leases[l] \in LeaseRow
            BY <2>3, RowKinds DEF Extend
        <3>3. \A j \in LeaseIds : /\ leases'[j].live = leases[j].live
                                  /\ leases[j].live =>
                                        leases'[j].token = leases[j].token
            BY <3>2 DEF TypeOK, LeaseRow
        <3> QED
            BY <3>1, <3>3, TokenFrame
    <2>4. ASSUME NEW t \in TokenIds, NEW ok \in BOOLEAN, NEW d \in Delays,
                 Complete(t, ok, d)
          PROVE  TokensHeld'
        BY <2>4, CompleteTokens, BrokerAssumption
    <2> QED
        BY <1>3, <2>1, <2>2, <2>3, <2>4, LeaseTokens, IssueTokens DEF ClientNext
<1>4. CASE SweepNext
    <2>1. ASSUME NEW t \in leaseDeadline, FireLeaseDeadline(t)
          PROVE  TokensHeld'
        <3>1. PICK l \in LeaseIds : l = t.ref
            BY DEF TypeOK, Timer
        <3>2. CASE DeadlineFence(t)
            <4>1. /\ leases[l].live
                  /\ leases' = [leases EXCEPT ![l] = NoLease]
                  /\ nextLease' = nextLease /\ tokens' = DeleteLeaseToken(l)
                BY <2>1, <3>1, <3>2 DEF FireLeaseDeadline, DeadlineFence
            <4> QED
                BY <4>1, TokenEnd
        <3> QED
            BY <1>1, <2>1, <3>2 DEF FireLeaseDeadline
    <2>2. ASSUME NEW t \in leaseMaxLife, FireLeaseMaxLife(t)
          PROVE  TokensHeld'
        <3>1. PICK l \in LeaseIds : l = t.ref
            BY DEF TypeOK, Timer
        <3>2. CASE leases[l].live /\ LeaseCurrent(l)
            <4>1. /\ leases' = [leases EXCEPT ![l] = NoLease]
                  /\ nextLease' = nextLease /\ tokens' = DeleteLeaseToken(l)
                BY <2>2, <3>1, <3>2 DEF FireLeaseMaxLife
            <4> QED
                BY <3>2, <4>1, TokenEnd
        <3> QED
            BY <1>1, <2>2, <3>1, <3>2 DEF FireLeaseMaxLife
    <2> QED
        BY <1>1, <1>4, <2>1, <2>2
        DEF SweepNext, FireReadyAt, FireMsgExpiry, FireDedupExpiry
<1> QED
    BY <1>2, <1>3, <1>4 DEF Next

\* No completion token outlives its lease: after any sequence of settles,
\* timeouts, caps, purges and teardowns a token row names a live lease that
\* carries that very token, so a late Complete never chases a deleted lease.
THEOREM TokensNeverDangle == Spec => []TokenNeverDangles
<1>1. Init => TokensHeld
    BY DEF Init, TokensHeld, TokenNeverDangles, LeasesBelow, NoLease
<1>2. TypeOK /\ TokensHeld /\ [Next]_vars => TokensHeld'
    BY NextTokens
<1>3. TokensHeld => TokenNeverDangles
    BY DEF TokensHeld
<1> QED
    BY <1>1, <1>2, <1>3, TypeCorrect, PTL DEF Spec

\* A step keeps every promised window.
LEMMA NextDedup == TypeOK /\ DedupWindowHeld /\ [Next]_vars => DedupWindowHeld'
<1> SUFFICES ASSUME TypeOK, DedupWindowHeld, [Next]_vars
             PROVE  DedupWindowHeld'
    OBVIOUS
<1>1. CASE UNCHANGED <<dedup, promised, now>>
    BY <1>1 DEF DedupWindowHeld
<1>2. CASE Tick
    BY <1>2 DEF Tick, store, history, DedupWindowHeld, TypeOK
<1>3. ASSUME NEW q \in Queues, NEW r \in PublishReq, Publish(q, r)
      PROVE  DedupWindowHeld'
    <2>1. CASE r.dedup = NoKey
        BY <1>1, <1>3, <2>1 DEF Publish
    <2>2. CASE r.dedup # NoKey
        <3> DEFINE ref == <<q[1], r.dedup>>
                   exp == now + DedupWindow
        <3>1. /\ now' = now
              /\ dedup' = [dedup EXCEPT ![ref] =
                    [id |-> LoadGroupMeta(q).next, expiry |-> exp]]
              /\ promised' = [promised EXCEPT ![ref] = exp]
            BY <1>3, <2>2 DEF Publish
        <3>2. \A d \in DedupRefs : promised'[d] > now' => dedup'[d].expiry = promised'[d]
            BY <3>1 DEF DedupWindowHeld, TypeOK
        <3> QED
            BY <3>2 DEF DedupWindowHeld
    <2> QED
        BY <2>1, <2>2
<1>4. ASSUME NEW t \in dedupExpiry, FireDedupExpiry(t)
      PROVE  DedupWindowHeld'
    <2>1. t.ref \in DedupRefs
        BY DEF TypeOK, Timer
    <2>2. CASE WindowOver(t.ref)
        <3>1. ~(promised[t.ref] > now)
            BY <2>1, <2>2 DEF WindowOver, DedupWindowHeld, TypeOK
        <3> QED
            BY <1>4, <2>1, <3>1 DEF FireDedupExpiry, DedupWindowHeld,
               TypeOK, history
    <2> QED
        BY <1>1, <1>4, <2>2 DEF FireDedupExpiry, history
<1>5. CASE UNCHANGED vars \/ ReapNext \/ AdminNext
    BY <1>1, <1>5 DEF vars, ReapNext, ReapSweep, ReapGroup, AdminNext,
       Redrive, Purge, Teardown, DropLeasable, SetPaused, GroupConfig,
       ReapNow, store, history
<1>6. CASE SweepNext
    BY <1>1, <1>4, <1>6 DEF SweepNext, FireReadyAt, FireLeaseDeadline,
       FireLeaseMaxLife, FireMsgExpiry, history
<1>7. CASE ClientNext
    <2>1. ASSUME NEW q \in Queues,
                 \/ Pick(q) \/ LeaseEmpty(q)
                 \/ \E i \in MsgIds : Lease(q, i)
          PROVE  DedupWindowHeld'
        BY <1>1, <2>1 DEF Pick, LeaseEmpty, Lease, store, history
    <2>2. ASSUME NEW l \in LeaseIds,
                 \/ IssueToken(l) \/ Ack(l) \/ NackDeadLetter(l)
                 \/ \E d \in Delays : NackRetry(l, d) \/ NackRequeue(l, d)
                                      \/ Extend(l, d)
          PROVE  DedupWindowHeld'
        BY <1>1, <2>2 DEF IssueToken, Ack, AckLease, NackDeadLetter,
           NackRetry, NackRetryLease, NackRequeue, EndLease, Extend, history
    <2>3. ASSUME NEW t \in TokenIds, NEW ok \in BOOLEAN, NEW d \in Delays,
                 Complete(t, ok, d)
          PROVE  DedupWindowHeld'
        BY <1>1, <2>3 DEF Complete, AckLease, NackRetryLease, EndLease, history
    <2> QED
        BY <1>3, <1>7, <2>1, <2>2, <2>3 DEF ClientNext
<1> QED
    BY <1>2, <1>5, <1>6, <1>7 DEF Next

\* A producer's key is remembered for the whole window its publish was promised,
\* also when the key was renewed and the sweep fires the first window's row late.
THEOREM DedupWindowAlwaysHeld == Spec => []DedupWindowHeld
<1>1. Init => DedupWindowHeld
    BY DEF Init, DedupWindowHeld
<1>2. TypeOK /\ DedupWindowHeld /\ [Next]_vars => DedupWindowHeld'
    BY NextDedup
<1> QED
    BY <1>1, <1>2, TypeCorrect, PTL DEF Spec

-----------------------------------------------------------------------------
(* The queue.  Without teardowns an id is given to a new message only when *)
(* its row is free, so a lease never comes to name another message; and    *)
(* that needs the counters to be exact, because a reap trusts them.        *)
(* The three are inductive together (QueueInv).                            *)

NoTeardown == "teardown" \notin AdminOps

\* The number of messages of a group in a state, and the counters that tell it.
InState(M, q, s) == {i \in MsgIds : M[<<q, i>>].state = s}
CountIn(M, q, s) == Cardinality(InState(M, q, s))

Tally(M, q, g) ==
    /\ g.ready = CountIn(M, q, "READY")
    /\ g.delayed = CountIn(M, q, "DELAYED")
    /\ g.inflight = CountIn(M, q, "LEASED")
    /\ g.total = g.ready + g.delayed + g.inflight

Exact == \A q \in Queues : Tally(msgs, q, ReadMeta(q))

\* Ids not yet given have no row.
Fresh ==
    \A k \in Keys : k[2] >= LoadGroupMeta(k[1]).next => msgs[k] = NoMessage

QueueInv == TypeOK /\ Exact /\ Fresh /\ LeaseOwnsMessage

Is(s, t) == IF s = t THEN 1 ELSE 0

\* The counters of q follow one message from state s to state t, the rows of other
\* groups stay.
MetaMoves(q, s, t) ==
    /\ \A p \in Queues : p # q => meta'[p] = meta[p]
    /\ ReadMeta(q)'.ready = ReadMeta(q).ready - Is(s, "READY") + Is(t, "READY")
    /\ ReadMeta(q)'.delayed =
          ReadMeta(q).delayed - Is(s, "DELAYED") + Is(t, "DELAYED")
    /\ ReadMeta(q)'.inflight =
          ReadMeta(q).inflight - Is(s, "LEASED") + Is(t, "LEASED")
    /\ ReadMeta(q)'.total = ReadMeta(q).total + Is(s, "NONE") - Is(t, "NONE")

NextsKept == \A p \in Queues : LoadGroupMeta(p)'.next = LoadGroupMeta(p).next

\* Live leases were live before, with their message, and none is of k.
LeasesStay(k) ==
    \A l \in LeaseIds : leases'[l].live =>
        /\ leases[l].live /\ leases[l].key # k
        /\ leases'[l].key = leases[l].key /\ leases'[l].body = leases[l].body

\* U has the rows of T and at most one more.
NewRows(T, U, k, e, due) ==
    \A t \in U : t \in T \/ (t.ref = k /\ t.epoch = e /\ t.due = due)

(* A step of Next is one of these. *)

\* A message comes in: a publish, or a redrive of a dead letter.
ComesIn(k, m) ==
    /\ m \in Message /\ m.state \in {"READY", "DELAYED"} /\ m.epoch = 0
    /\ k[2] = LoadGroupMeta(k[1]).next
    /\ LoadGroupMeta(k[1])'.next = k[2] + 1
    /\ msgs' = [msgs EXCEPT ![k] = m]
    /\ MetaMoves(k[1], "NONE", m.state)
    /\ LeasesStay(k)
    /\ NewRows(readyAt, readyAt', k, 0, m.due)
    /\ \A t \in msgExpiry' :
          t \in msgExpiry \/ (t.ref = k /\ t.due = m.ttlAt /\ t.due > 0)

Arrives(k, m) ==
    /\ ComesIn(k, m)
    /\ UNCHANGED <<acked, dropped>>
    /\ \/ published' = published + 1 /\ m.body = published + 1 /\ dlq' = dlq
       \/ \E row \in dlq : /\ dlq' = dlq \ {row} /\ m.body = row.body
                           /\ published' = published

\* A message changes its state and its epoch: leased, given back, woken, extended.
Turns(k, m) ==
    /\ msgs[k].state # "NONE" /\ m \in Message
    /\ m.body = msgs[k].body /\ m.ttlAt = msgs[k].ttlAt
    /\ m.epoch = msgs[k].epoch + 1
    /\ msgs' = [msgs EXCEPT ![k] = m]
    /\ MetaMoves(k[1], msgs[k].state, m.state) /\ NextsKept
    /\ \A l \in LeaseIds : leases'[l].live =>
          \/ /\ leases[l].live /\ leases[l].key # k
             /\ leases'[l].key = leases[l].key /\ leases'[l].body = leases[l].body
          \/ /\ leases'[l].key = k /\ leases'[l].body = m.body
             /\ m.state = "LEASED" /\ m.lease = l
    /\ NewRows(readyAt, readyAt', k, m.epoch, m.due)
    /\ msgs[k].state = "DELAYED" =>
          \E t \in readyAt : t.ref = k /\ t.epoch = msgs[k].epoch /\ t.due <= now
    /\ UNCHANGED <<msgExpiry, dlq, history>>

\* A message goes: acked, or to the dead letters.
Leaves(k) ==
    /\ msgs[k].state # "NONE"
    /\ msgs' = [msgs EXCEPT ![k] = NoMessage]
    /\ MetaMoves(k[1], msgs[k].state, "NONE") /\ NextsKept
    /\ LeasesStay(k)
    /\ readyAt' \subseteq readyAt /\ msgExpiry' \subseteq msgExpiry
    /\ UNCHANGED <<dropped, published>>
    /\ \/ acked' = acked \cup {msgs[k].body} /\ dlq' = dlq
       \/ \E m \in Message :
            \E reason \in {"max_attempts", "terminal_nack",
                           "max_lease_lifetime", "ttl"} :
             /\ m.body = msgs[k].body /\ m.ttlAt = msgs[k].ttlAt
             /\ dlq' = DeadLetters(k, m, reason) /\ acked' = acked
             /\ reason = "ttl" =>
                   \E t \in msgExpiry : t.ref = k /\ t.due <= now

\* A group is drained and its row reaped.
Reaps(q) ==
    /\ meta[q].exists /\ meta[q].total = 0
    /\ meta' = [meta EXCEPT ![q] = NoMeta]
    /\ UNCHANGED <<msgs, leases, timers, dlq, history>>

MayReap == "reap" \in AdminOps \/ reapCmds # {}

\* No message moves.
Rests ==
    /\ UNCHANGED <<msgs, dlq, published, acked, dropped>>
    /\ \A p \in Queues :
          /\ ReadMeta(p)'.ready = ReadMeta(p).ready
          /\ ReadMeta(p)'.delayed = ReadMeta(p).delayed
          /\ ReadMeta(p)'.inflight = ReadMeta(p).inflight
          /\ ReadMeta(p)'.total = ReadMeta(p).total
    /\ NextsKept
    /\ \A l \in LeaseIds : leases'[l].live =>
          /\ leases[l].live
          /\ leases'[l].key = leases[l].key /\ leases'[l].body = leases[l].body
    /\ readyAt' \subseteq readyAt /\ msgExpiry' \subseteq msgExpiry

\* What a step does to the messages already there.
Stays ==
    \/ \E k \in Keys : \E m \in Message : Turns(k, m)
    \/ \E k \in Keys : Leaves(k)
    \/ \E q \in Queues : Purge(q) \/ (MayReap /\ Reaps(q))
    \/ Rests

Moves == Stays \/ \E k \in Keys : \E m \in Message : Arrives(k, m)


\* Counts are natural, and zero only when no message is in the state.
LEMMA CountNat ==
    ASSUME NEW M, NEW q \in Queues, NEW s
    PROVE  /\ IsFiniteSet(InState(M, q, s))
           /\ CountIn(M, q, s) \in Nat
           /\ \A i \in MsgIds : M[<<q, i>>].state = s => CountIn(M, q, s) > 0
<1>1. IsFiniteSet(MsgIds)
    <2>1. 0 \in Int /\ MaxMsgId \in Int
        BY BrokerAssumption
    <2> QED
        BY <2>1, FS_Interval DEF MsgIds
<1>2. InState(M, q, s) \in SUBSET MsgIds
    BY DEF InState
<1>3. IsFiniteSet(InState(M, q, s))
    BY <1>1, <1>2, FS_Subset
<1>4. CountIn(M, q, s) \in Nat /\ (CountIn(M, q, s) = 0 <=> InState(M, q, s) = {})
    BY <1>3, FS_CardinalityType, FS_EmptySet DEF CountIn
<1>5. \A i \in MsgIds : M[<<q, i>>].state = s => InState(M, q, s) # {}
    BY DEF InState
<1>6. \A i \in MsgIds : M[<<q, i>>].state = s => CountIn(M, q, s) > 0
    BY <1>4, <1>5
<1> QED
    BY <1>3, <1>4, <1>6

\* One message moves: the counts of its group follow, the others stay.
LEMMA CountMoves ==
    ASSUME NEW M, NEW N, NEW k \in Keys, \A j \in Keys : j # k => N[j] = M[j],
           NEW q \in Queues, NEW x
    PROVE  CountIn(N, q, x) =
              IF q = k[1]
              THEN CountIn(M, q, x) - Is(M[k].state, x) + Is(N[k].state, x)
              ELSE CountIn(M, q, x)
<1>1. /\ k[1] \in Queues /\ k[2] \in MsgIds /\ k = <<k[1], k[2]>>
      /\ \A i \in MsgIds : <<q, i>> \in Keys
    BY KeyParts DEF Keys
<1>2. PICK S : S = InState(M, q, x)
    OBVIOUS
<1>3. PICK T : T = InState(N, q, x)
    OBVIOUS
<1>4. /\ IsFiniteSet(S) /\ Cardinality(S) \in Nat
      /\ CountIn(M, q, x) = Cardinality(S) /\ CountIn(N, q, x) = Cardinality(T)
    BY <1>2, <1>3, CountNat DEF CountIn
<1>5. CASE q # k[1]
    <2>1. S = T
        BY <1>1, <1>2, <1>3, <1>5 DEF InState
    <2> QED
        BY <1>4, <1>5, <2>1
<1>6. CASE q = k[1]
    <2>1. \A i \in MsgIds : i # k[2] => N[<<q, i>>] = M[<<q, i>>]
        BY <1>1, <1>6
    <2>2. N[<<q, k[2]>>] = N[k] /\ M[<<q, k[2]>>] = M[k]
        BY <1>1, <1>6
    <2>3. k[2] \in S <=> M[k].state = x
        BY <1>1, <1>2, <2>2 DEF InState
    <2>4. CASE N[k].state = x
        <3>1. T = S \cup {k[2]}
            BY <1>1, <1>2, <1>3, <2>1, <2>2, <2>4 DEF InState
        <3>2. Cardinality(T) =
                 IF k[2] \in S THEN Cardinality(S) ELSE Cardinality(S) + 1
            BY <1>4, <3>1, FS_AddElement
        <3> QED
            BY <1>4, <1>6, <2>3, <2>4, <3>2 DEF Is
    <2>5. CASE N[k].state # x
        <3>1. T = S \ {k[2]}
            BY <1>1, <1>2, <1>3, <2>1, <2>2, <2>5 DEF InState
        <3>2. Cardinality(T) =
                 IF k[2] \in S THEN Cardinality(S) - 1 ELSE Cardinality(S)
            BY <1>4, <3>1, FS_RemoveElement
        <3> QED
            BY <1>4, <1>6, <2>3, <2>5, <3>2 DEF Is
    <2> QED
        BY <2>4, <2>5
<1> QED
    BY <1>5, <1>6

\* Exact is what CountersExact says.
LEMMA ExactCounters == Exact <=> CountersExact
BY DEF Exact, Tally, CountIn, InState, CountersExact

\* A message is counted in the row of its group.
LEMMA Counted ==
    ASSUME TypeOK, Exact, NEW k \in Keys, msgs[k].state # "NONE"
    PROVE  /\ k[1] \in Queues /\ meta[k[1]].exists /\ meta[k[1]] \in GroupMeta
           /\ ReadMeta(k[1]) = meta[k[1]] /\ LoadGroupMeta(k[1]) = meta[k[1]]
           /\ meta[k[1]].total > 0
           /\ msgs[k].state = "READY" => meta[k[1]].ready > 0
           /\ msgs[k].state = "DELAYED" => meta[k[1]].delayed > 0
           /\ msgs[k].state = "LEASED" => meta[k[1]].inflight > 0
<1>1. k[1] \in Queues /\ k[2] \in MsgIds /\ k = <<k[1], k[2]>>
    BY KeyParts
<1>2. PICK q \in Queues : q = k[1]
    BY <1>1
<1>3. msgs[k].state \in {"READY", "DELAYED", "LEASED"}
    BY RowKinds DEF Message
<1>4. msgs[<<q, k[2]>>] = msgs[k]
    BY <1>1, <1>2
<1>5. CountIn(msgs, q, msgs[k].state) > 0
    BY <1>1, <1>4, CountNat
<1>6. ReadMeta(q) \in GroupMeta /\ Tally(msgs, q, ReadMeta(q))
    BY MetaDefaults DEF Exact
<1>7. /\ ReadMeta(q).total > 0
      /\ msgs[k].state = "READY" => ReadMeta(q).ready > 0
      /\ msgs[k].state = "DELAYED" => ReadMeta(q).delayed > 0
      /\ msgs[k].state = "LEASED" => ReadMeta(q).inflight > 0
    BY <1>3, <1>5, <1>6 DEF Tally, GroupMeta
<1>8. meta[q].exists
    BY <1>7 DEF ReadMeta, ZeroMeta, FreshMeta
<1> QED
    BY <1>2, <1>6, <1>7, <1>8 DEF ReadMeta, LoadGroupMeta

\* The counters stay exact when one message moves and its group's row follows.
LEMMA MoveExact ==
    ASSUME TypeOK, Exact, NEW k \in Keys, NEW m, NEW s, NEW t,
           msgs' = [msgs EXCEPT ![k] = m], s = msgs[k].state, t = m.state,
           t \in {"READY", "DELAYED", "LEASED", "NONE"}, MetaMoves(k[1], s, t)
    PROVE  Exact'
<1>1. k[1] \in Queues
    BY KeyParts
<1>2. SUFFICES ASSUME NEW q \in Queues
              PROVE  Tally(msgs, q, ReadMeta(q))'
    BY DEF Exact
<1>3. PICK M : M = msgs
    OBVIOUS
<1>4. PICK N : N = msgs'
    OBVIOUS
<1>5. /\ \A j \in Keys : j # k => N[j] = M[j]
      /\ M[k].state = s /\ N[k].state = t
    BY <1>3, <1>4 DEF TypeOK
<1>6. ReadMeta(q) \in GroupMeta /\ Tally(M, q, ReadMeta(q))
    BY <1>3, MetaDefaults DEF Exact
<1>7. s \in {"READY", "DELAYED", "LEASED", "NONE"}
    BY RowKinds DEF TypeOK, Message, NoMessage
<1>10. ASSUME NEW x
       PROVE  CountIn(N, q, x) =
                IF q = k[1] THEN CountIn(M, q, x) - Is(s, x) + Is(t, x)
                ELSE CountIn(M, q, x)
    BY <1>5, CountMoves
<1>8. CASE q # k[1]
    <2>1. ReadMeta(q)' = ReadMeta(q)
        BY <1>8 DEF MetaMoves, ReadMeta
    <2>2. ASSUME NEW x PROVE CountIn(N, q, x) = CountIn(M, q, x)
        BY <1>8, <1>10
    <2>3. Tally(N, q, ReadMeta(q))
        BY <1>6, <2>2 DEF Tally
    <2> QED
        BY <1>4, <2>1, <2>3 DEF Tally
<1>9. CASE q = k[1]
    <2>1. ASSUME NEW x
          PROVE  CountIn(N, q, x) = CountIn(M, q, x) - Is(s, x) + Is(t, x)
        BY <1>9, <1>10
    <2>2. PICK g : g = ReadMeta(q)
        OBVIOUS
    <2>3. PICK h : h = ReadMeta(q)'
        OBVIOUS
    <2>4. /\ h.ready = g.ready - Is(s, "READY") + Is(t, "READY")
          /\ h.delayed = g.delayed - Is(s, "DELAYED") + Is(t, "DELAYED")
          /\ h.inflight = g.inflight - Is(s, "LEASED") + Is(t, "LEASED")
          /\ h.total = g.total + Is(s, "NONE") - Is(t, "NONE")
        BY <1>9, <2>2, <2>3 DEF MetaMoves
    <2>5. g \in GroupMeta /\ Tally(M, q, g)
        BY <1>6, <2>2
    <2>6. Is(s, "READY") + Is(s, "DELAYED") + Is(s, "LEASED") = 1 - Is(s, "NONE")
        BY <1>7 DEF Is
    <2>7. Is(t, "READY") + Is(t, "DELAYED") + Is(t, "LEASED") = 1 - Is(t, "NONE")
        BY DEF Is
    <2>8. \A x, y : Is(x, y) \in Int
        BY DEF Is
    <2>9. h.total = h.ready + h.delayed + h.inflight
        BY <2>4, <2>5, <2>6, <2>7, <2>8 DEF Tally, GroupMeta
    <2>10. Tally(N, q, h)
        BY <2>1, <2>4, <2>5, <2>9 DEF Tally
    <2> QED
        BY <1>4, <2>3, <2>10 DEF Tally
<1> QED
    BY <1>8, <1>9


\* A group without a row holds nothing above the first id.
LEMMA NextNat ==
    ASSUME TypeOK, NEW q \in Queues
    PROVE  LoadGroupMeta(q).next \in Nat
BY MetaDefaults DEF GroupMeta

\* A message that comes in takes a free row.
LEMMA ArrivesQueue ==
    ASSUME QueueInv, NEW k \in Keys, NEW m \in Message, Arrives(k, m)
    PROVE  Exact' /\ Fresh' /\ LeaseOwnsMessage'
<1> USE DEF QueueInv
<1>1. /\ m.state \in {"READY", "DELAYED"}
      /\ k[2] = LoadGroupMeta(k[1]).next
      /\ LoadGroupMeta(k[1])'.next = k[2] + 1
      /\ msgs' = [msgs EXCEPT ![k] = m]
      /\ MetaMoves(k[1], "NONE", m.state) /\ LeasesStay(k)
    BY DEF Arrives, ComesIn
<1>2. k[1] \in Queues /\ k[2] \in Nat
    BY KeyParts, BrokerAssumption DEF MsgIds
<1>3. msgs[k] = NoMessage
    BY <1>1, <1>2 DEF Fresh
<1>4. Exact'
    <2>1. msgs[k].state = "NONE"
        BY <1>3 DEF NoMessage
    <2>2. PICK s : s = msgs[k].state
        OBVIOUS
    <2>3. PICK t : t = m.state
        OBVIOUS
    <2>4. MetaMoves(k[1], s, t) /\ t \in {"READY", "DELAYED", "LEASED", "NONE"}
        BY <1>1, <2>1, <2>2, <2>3
    <2> QED
        BY <1>1, <2>2, <2>3, <2>4, MoveExact
<1>5. Fresh'
    <2> SUFFICES ASSUME NEW j \in Keys, j[2] >= LoadGroupMeta(j[1])'.next
                 PROVE  msgs'[j] = NoMessage
        BY DEF Fresh
    <2>1. j[1] \in Queues /\ j[2] \in Nat /\ j = <<j[1], j[2]>>
        BY KeyParts, BrokerAssumption DEF MsgIds
    <2>2. j # k
        BY <1>1, <1>2
    <2>3. j[1] # k[1] => LoadGroupMeta(j[1])' = LoadGroupMeta(j[1])
        BY <1>1, <2>1 DEF MetaMoves, LoadGroupMeta
    <2>4. j[2] >= LoadGroupMeta(j[1]).next
        BY <1>1, <1>2, <2>1, <2>3
    <2>5. msgs[j] = NoMessage
        BY <2>4 DEF Fresh
    <2> QED
        BY <1>1, <2>2, <2>5
<1>6. LeaseOwnsMessage'
    <2> SUFFICES ASSUME NEW l \in LeaseIds, leases'[l].live
                 PROVE  LeaseCurrent(l)' /\ msgs'[leases'[l].key].body = leases'[l].body
        BY DEF LeaseOwnsMessage
    <2>1. /\ leases[l].live /\ leases[l].key # k
          /\ leases'[l].key = leases[l].key /\ leases'[l].body = leases[l].body
        BY <1>1 DEF LeasesStay
    <2>2. msgs'[leases[l].key] = msgs[leases[l].key]
        BY <1>1, <2>1
    <2> QED
        BY <2>1, <2>2 DEF LeaseOwnsMessage, LeaseCurrent
<1> QED
    BY <1>4, <1>5, <1>6

\* Rows that stay, or go, leave the free ids free.
LEMMA FreshKept ==
    ASSUME Fresh, NextsKept, \A k \in Keys : msgs[k] = NoMessage => msgs'[k] = NoMessage
    PROVE  Fresh'
<1> SUFFICES ASSUME NEW j \in Keys, j[2] >= LoadGroupMeta(j[1])'.next
             PROVE  msgs'[j] = NoMessage
    BY DEF Fresh
<1>1. LoadGroupMeta(j[1])'.next = LoadGroupMeta(j[1]).next
    BY KeyParts DEF NextsKept
<1> QED
    BY <1>1 DEF Fresh

\* A message that changes its state keeps its lease or loses it.
LEMMA TurnsQueue ==
    ASSUME QueueInv, NEW k \in Keys, NEW m \in Message, Turns(k, m)
    PROVE  Exact' /\ Fresh' /\ LeaseOwnsMessage'
<1> USE DEF QueueInv
<1>1. /\ msgs[k].state # "NONE" /\ m.body = msgs[k].body
      /\ msgs' = [msgs EXCEPT ![k] = m]
      /\ MetaMoves(k[1], msgs[k].state, m.state) /\ NextsKept
    BY DEF Turns
<1>2. Exact'
    <2>1. PICK s : s = msgs[k].state
        OBVIOUS
    <2>2. PICK t : t = m.state
        OBVIOUS
    <2>3. MetaMoves(k[1], s, t) /\ t \in {"READY", "DELAYED", "LEASED", "NONE"}
        BY <1>1, <2>1, <2>2 DEF Message
    <2> QED
        BY <1>1, <2>1, <2>2, <2>3, MoveExact
<1>3. Fresh'
    <2>1. \A j \in Keys : msgs[j] = NoMessage => msgs'[j] = NoMessage
        BY <1>1 DEF NoMessage
    <2> QED
        BY <1>1, <2>1, FreshKept
<1>4. LeaseOwnsMessage'
    <2> SUFFICES ASSUME NEW l \in LeaseIds, leases'[l].live
                 PROVE  LeaseCurrent(l)' /\ msgs'[leases'[l].key].body = leases'[l].body
        BY DEF LeaseOwnsMessage
    <2>1. msgs'[k] = m
        BY <1>1 DEF TypeOK
    <2>2. CASE /\ leases[l].live /\ leases[l].key # k
               /\ leases'[l].key = leases[l].key /\ leases'[l].body = leases[l].body
        <3>1. msgs'[leases[l].key] = msgs[leases[l].key]
            BY <1>1, <2>2
        <3> QED
            BY <2>2, <3>1 DEF LeaseOwnsMessage, LeaseCurrent
    <2>3. CASE /\ leases'[l].key = k /\ leases'[l].body = m.body
               /\ m.state = "LEASED" /\ m.lease = l
        BY <2>1, <2>3 DEF LeaseCurrent
    <2> QED
        BY <2>2, <2>3 DEF Turns
<1> QED
    BY <1>2, <1>3, <1>4

\* A message that goes takes its lease along.
LEMMA LeavesQueue ==
    ASSUME QueueInv, NEW k \in Keys, Leaves(k)
    PROVE  Exact' /\ Fresh' /\ LeaseOwnsMessage'
<1> USE DEF QueueInv
<1>1. /\ msgs' = [msgs EXCEPT ![k] = NoMessage]
      /\ MetaMoves(k[1], msgs[k].state, "NONE") /\ NextsKept /\ LeasesStay(k)
    BY DEF Leaves
<1>2. Exact'
    <2>1. PICK s : s = msgs[k].state
        OBVIOUS
    <2>2. PICK t : t = "NONE"
        OBVIOUS
    <2>3. PICK m : m = NoMessage
        OBVIOUS
    <2>4. /\ MetaMoves(k[1], s, t) /\ t \in {"READY", "DELAYED", "LEASED", "NONE"}
          /\ msgs' = [msgs EXCEPT ![k] = m] /\ t = m.state
        BY <1>1, <2>1, <2>2, <2>3 DEF NoMessage
    <2> QED
        BY <2>1, <2>4, MoveExact
<1>3. Fresh'
    <2>1. \A j \in Keys : msgs[j] = NoMessage => msgs'[j] = NoMessage
        BY <1>1
    <2> QED
        BY <1>1, <2>1, FreshKept
<1>4. LeaseOwnsMessage'
    <2> SUFFICES ASSUME NEW l \in LeaseIds, leases'[l].live
                 PROVE  LeaseCurrent(l)' /\ msgs'[leases'[l].key].body = leases'[l].body
        BY DEF LeaseOwnsMessage
    <2>1. /\ leases[l].live /\ leases[l].key # k
          /\ leases'[l].key = leases[l].key /\ leases'[l].body = leases[l].body
        BY <1>1 DEF LeasesStay
    <2>2. msgs'[leases[l].key] = msgs[leases[l].key]
        BY <1>1, <2>1
    <2> QED
        BY <2>1, <2>2 DEF LeaseOwnsMessage, LeaseCurrent
<1> QED
    BY <1>2, <1>3, <1>4

\* A reaped group had no message: its counters said so.
LEMMA ReapsQueue ==
    ASSUME QueueInv, NEW q \in Queues, Reaps(q)
    PROVE  Exact' /\ Fresh' /\ LeaseOwnsMessage'
<1> USE DEF QueueInv
<1>1. /\ meta[q].exists /\ meta[q].total = 0
      /\ meta' = [meta EXCEPT ![q] = NoMeta] /\ msgs' = msgs /\ leases' = leases
    BY DEF Reaps
<1>2. ReadMeta(q) = meta[q] /\ meta[q] \in GroupMeta /\ Tally(msgs, q, meta[q])
    BY <1>1, RowKinds DEF ReadMeta, Exact
<1>3. /\ meta[q].ready = 0 /\ meta[q].delayed = 0 /\ meta[q].inflight = 0
    <2>1. meta[q].total = meta[q].ready + meta[q].delayed + meta[q].inflight
        BY <1>2 DEF Tally
    <2>2. meta[q].ready \in Nat /\ meta[q].delayed \in Nat /\ meta[q].inflight \in Nat
        BY <1>2 DEF GroupMeta
    <2> QED
        BY <1>1, <2>1, <2>2
<1>4. ReadMeta(q)' = ZeroMeta
    <2>1. meta'[q] = NoMeta
        BY <1>1 DEF TypeOK
    <2>2. ~NoMeta.exists
        BY DEF NoMeta
    <2> QED
        BY <2>1, <2>2 DEF ReadMeta
<1>5. Exact'
    <2> SUFFICES ASSUME NEW p \in Queues PROVE Tally(msgs, p, ReadMeta(p))'
        BY DEF Exact
    <2>1. CASE p # q
        <3>1. ReadMeta(p)' = ReadMeta(p)
            BY <1>1, <2>1 DEF ReadMeta, TypeOK
        <3> QED
            BY <1>1, <3>1 DEF Exact, Tally
    <2>2. CASE p = q
        <3>1. /\ ZeroMeta.ready = 0 /\ ZeroMeta.delayed = 0
              /\ ZeroMeta.inflight = 0 /\ ZeroMeta.total = 0
            BY DEF ZeroMeta, FreshMeta
        <3> QED
            BY <1>1, <1>2, <1>3, <1>4, <2>2, <3>1 DEF Tally
    <2> QED
        BY <2>1, <2>2
<1>6. Fresh'
    <2> SUFFICES ASSUME NEW j \in Keys, j[2] >= LoadGroupMeta(j[1])'.next
                 PROVE  msgs[j] = NoMessage
        BY <1>1 DEF Fresh
    <2>1. j[1] \in Queues
        BY KeyParts
    <2>2. CASE j[1] = q
        <3>1. msgs[j].state = "NONE"
            BY <1>1, <2>2, Counted
        <3> QED
            BY <3>1 DEF TypeOK, Message
    <2>3. CASE j[1] # q
        <3>1. LoadGroupMeta(j[1])' = LoadGroupMeta(j[1])
            BY <1>1, <2>1, <2>3 DEF LoadGroupMeta, TypeOK
        <3> QED
            BY <3>1 DEF Fresh
    <2> QED
        BY <2>2, <2>3
<1>7. LeaseOwnsMessage'
    BY <1>1 DEF LeaseOwnsMessage, LeaseCurrent
<1> QED
    BY <1>5, <1>6, <1>7

\* A step without moves changes none of it.
LEMMA RestsQueue ==
    ASSUME QueueInv, Rests
    PROVE  Exact' /\ Fresh' /\ LeaseOwnsMessage'
<1> USE DEF QueueInv
<1>1. Exact'
    <2> SUFFICES ASSUME NEW p \in Queues PROVE Tally(msgs, p, ReadMeta(p))'
        BY DEF Exact
    <2> QED
        BY DEF Exact, Tally, Rests
<1>2. Fresh'
    BY FreshKept DEF Rests
<1>3. LeaseOwnsMessage'
    <2> SUFFICES ASSUME NEW l \in LeaseIds, leases'[l].live
                 PROVE  LeaseCurrent(l)' /\ msgs'[leases'[l].key].body = leases'[l].body
        BY DEF LeaseOwnsMessage
    <2> QED
        BY DEF Rests, LeaseOwnsMessage, LeaseCurrent
<1> QED
    BY <1>1, <1>2, <1>3


\* dropLeasable empties the group but for what is in flight.
LEMMA PurgeQueue ==
    ASSUME QueueInv, NEW q \in Queues, Purge(q)
    PROVE  Exact' /\ Fresh' /\ LeaseOwnsMessage' /\ NextsKept
<1> USE DEF QueueInv
<1>1. /\ meta[q].exists /\ meta' = [meta EXCEPT ![q] = MetaDropped(q)]
      /\ msgs' = [k \in Keys |-> IF k[1] \in {q} /\ Leasable(msgs[k])
                                 THEN NoMessage ELSE msgs[k]]
      /\ leases' = leases
    BY DEF Purge, DropLeasable
<1>2. \A k \in Keys : msgs'[k] =
         IF k[1] = q /\ Leasable(msgs[k]) THEN NoMessage ELSE msgs[k]
    BY <1>1
<1>3. /\ ReadMeta(q) = meta[q] /\ meta[q] \in GroupMeta
      /\ Tally(msgs, q, meta[q])
    BY <1>1, RowKinds DEF ReadMeta, Exact
<1>4. \A i \in MsgIds : <<q, i>> \in Keys /\ <<q, i>>[1] = q
    BY DEF Keys
<1>5. Cardinality(DroppedIds(q)) = meta[q].ready + meta[q].delayed
    <2>1. DroppedIds(q) = InState(msgs, q, "READY") \cup InState(msgs, q, "DELAYED")
        BY DEF DroppedIds, Leasable, InState
    <2>2. InState(msgs, q, "READY") \cap InState(msgs, q, "DELAYED") = {}
        BY DEF InState
    <2>3. PICK S : S = InState(msgs, q, "READY")
        OBVIOUS
    <2>4. PICK T : T = InState(msgs, q, "DELAYED")
        OBVIOUS
    <2>5. PICK M : M = msgs
        OBVIOUS
    <2>6. IsFiniteSet(S) /\ IsFiniteSet(T)
        BY <2>3, <2>4, <2>5, CountNat
    <2>7. /\ meta[q].ready = Cardinality(S) /\ meta[q].delayed = Cardinality(T)
          /\ Cardinality(S) \in Nat /\ Cardinality(T) \in Nat
        BY <1>3, <2>3, <2>4, <2>6, FS_CardinalityType DEF Tally, CountIn
    <2>8. Cardinality(S \cup T) = Cardinality(S) + Cardinality(T) - Cardinality(S \cap T)
        BY <2>6, FS_Union
    <2>9. Cardinality(S \cap T) = 0
        BY <2>2, <2>3, <2>4, FS_EmptySet
    <2> QED
        BY <2>1, <2>3, <2>4, <2>7, <2>8, <2>9
<1>6. /\ MetaDropped(q) \in GroupMeta
      /\ MetaDropped(q).ready = 0 /\ MetaDropped(q).delayed = 0
      /\ MetaDropped(q).inflight = meta[q].inflight
      /\ MetaDropped(q).total = meta[q].inflight
      /\ MetaDropped(q).next = meta[q].next
    <2>1. meta[q].total - Cardinality(DroppedIds(q)) = meta[q].inflight
        <3>1. meta[q].total = meta[q].ready + meta[q].delayed + meta[q].inflight
            BY <1>3 DEF Tally
        <3>2. /\ meta[q].ready \in Nat /\ meta[q].delayed \in Nat
              /\ meta[q].inflight \in Nat
            BY <1>3 DEF GroupMeta
        <3> QED
            BY <1>5, <3>1, <3>2
    <2>2. PICK g : g = meta[q]
        OBVIOUS
    <2>3. PICK tot : tot = IF g.total >= Cardinality(DroppedIds(q))
                           THEN g.total - Cardinality(DroppedIds(q)) ELSE g.inflight
        OBVIOUS
    <2>4. tot = g.inflight
        BY <2>1, <2>2, <2>3
    <2>5. MetaDropped(q) = [g EXCEPT !.ready = 0, !.delayed = 0, !.total = tot]
        BY <2>2, <2>3 DEF MetaDropped
    <2>6. g \in GroupMeta
        BY <1>3, <2>2
    <2> QED
        BY <1>1, <2>2, <2>4, <2>5, <2>6, MetaDroppedType DEF GroupMeta
<1>7. meta'[q] = MetaDropped(q) /\ \A p \in Queues : p # q => meta'[p] = meta[p]
    BY <1>1 DEF TypeOK
<1>8. ReadMeta(q)' = MetaDropped(q) /\ LoadGroupMeta(q)' = MetaDropped(q)
    BY <1>6, <1>7 DEF ReadMeta, LoadGroupMeta, GroupMeta
<1>9. PICK N : N = msgs'
    OBVIOUS
<1>10. Exact'
    <2> SUFFICES ASSUME NEW p \in Queues PROVE Tally(msgs, p, ReadMeta(p))'
        BY DEF Exact
    <2>1. CASE p # q
        <3>1. ReadMeta(p)' = ReadMeta(p)
            BY <1>7, <2>1 DEF ReadMeta
        <3>2. \A i \in MsgIds : N[<<p, i>>] = msgs[<<p, i>>]
            BY <1>2, <1>9, <2>1 DEF Keys
        <3>3. /\ InState(N, p, "READY") = InState(msgs, p, "READY")
              /\ InState(N, p, "DELAYED") = InState(msgs, p, "DELAYED")
              /\ InState(N, p, "LEASED") = InState(msgs, p, "LEASED")
            BY <3>2 DEF InState
        <3>4. Tally(N, p, ReadMeta(p))
            BY <3>3 DEF Exact, Tally, CountIn
        <3> QED
            BY <1>9, <3>1, <3>4 DEF Tally
    <2>2. CASE p = q
        <3>1. \A i \in MsgIds : N[<<q, i>>] =
                 IF Leasable(msgs[<<q, i>>]) THEN NoMessage ELSE msgs[<<q, i>>]
            BY <1>2, <1>4, <1>9
        <3>2. /\ InState(N, q, "READY") = {} /\ InState(N, q, "DELAYED") = {}
              /\ InState(N, q, "LEASED") = InState(msgs, q, "LEASED")
            BY <3>1 DEF InState, Leasable, NoMessage
        <3>3. Tally(N, q, MetaDropped(q))
            BY <1>3, <1>6, <3>2, FS_EmptySet DEF Tally, CountIn, GroupMeta
        <3> QED
            BY <1>8, <1>9, <2>2, <3>3 DEF Tally
    <2> QED
        BY <2>1, <2>2
<1>11. NextsKept
    <2> SUFFICES ASSUME NEW p \in Queues
                 PROVE  LoadGroupMeta(p)'.next = LoadGroupMeta(p).next
        BY DEF NextsKept
    <2>1. p # q => LoadGroupMeta(p)' = LoadGroupMeta(p)
        BY <1>7 DEF LoadGroupMeta
    <2>2. LoadGroupMeta(q) = meta[q]
        BY <1>1 DEF LoadGroupMeta
    <2> QED
        BY <1>6, <1>8, <2>1, <2>2
<1>12. Fresh'
    <2>1. \A k \in Keys : msgs[k] = NoMessage => msgs'[k] = NoMessage
        BY <1>2
    <2> QED
        BY <1>11, <2>1, FreshKept
<1>13. LeaseOwnsMessage'
    <2> SUFFICES ASSUME NEW l \in LeaseIds, leases[l].live
                 PROVE  LeaseCurrent(l)' /\ msgs'[leases[l].key].body = leases[l].body
        BY <1>1 DEF LeaseOwnsMessage
    <2>1. leases[l].key \in Keys /\ LeaseCurrent(l)
        BY LeaseKeys DEF LeaseOwnsMessage
    <2>2. msgs'[leases[l].key] = msgs[leases[l].key]
        BY <1>2, <2>1 DEF LeaseCurrent, Leasable
    <2> QED
        BY <1>1, <2>2 DEF LeaseOwnsMessage, LeaseCurrent
<1> QED
    BY <1>10, <1>12, <1>13, <1>11


\* Adding a row to the index adds that row only.
LEMMA RowsAdded ==
    ASSUME NEW T, NEW due, NEW ref, NEW e
    PROVE  /\ NewRows(T, AddTimer(T, due, ref, e), ref, e, due)
           /\ NewRows(T, T, ref, e, due)
BY DEF NewRows, AddTimer, DelTimer

\* publishOne writes to a free id.
LEMMA PublishComesIn ==
    ASSUME QueueInv, NEW q \in Queues, NEW r, NEW body \in Bodies,
           r.delay \in Nat, r.ttl \in Nat, r.max \in AttemptLimits,
           r.token \in TokenModes, PublishOne(q, r, body), leases' = leases
    PROVE  \E k \in Keys : \E m \in Message : ComesIn(k, m) /\ m.body = body
<1> USE DEF QueueInv
<1>1. PICK g : g = LoadGroupMeta(q)
    OBVIOUS
<1>2. g \in GroupMeta /\ g.next \in MsgIds /\ g.next \in Nat
    BY <1>1, MetaDefaults DEF PublishOne, GroupMeta
<1>3. PICK k \in Keys : k = <<q, g.next>>
    BY <1>2 DEF Keys
<1>4. k[1] = q /\ k[2] = g.next
    BY <1>3
<1>5. PICK m : m =
          [state |-> IF r.delay > 0 THEN "DELAYED" ELSE "READY",
           lease |-> 0, epoch |-> 0, attempt |-> 0, max |-> r.max,
           token |-> r.token, body |-> body, due |-> now + r.delay,
           ttlAt |-> IF r.ttl > 0 THEN now + r.ttl ELSE 0]
    OBVIOUS
<1>6. m \in Message
    <2>1. now \in Nat
        BY DEF TypeOK
    <2>2. (IF r.delay > 0 THEN "DELAYED" ELSE "READY") \in {"READY", "DELAYED", "LEASED"}
        OBVIOUS
    <2>3. (IF r.ttl > 0 THEN now + r.ttl ELSE 0) \in Nat /\ now + r.delay \in Nat
        BY <2>1
    <2> QED
        BY <1>5, <2>2, <2>3 DEF Message
<1>7. /\ m.state = IF r.delay > 0 THEN "DELAYED" ELSE "READY"
      /\ m.epoch = 0 /\ m.body = body /\ m.due = now + r.delay
      /\ m.ttlAt = IF r.ttl > 0 THEN now + r.ttl ELSE 0
    BY <1>5
<1>8. PICK h : h = [g EXCEPT !.next = @ + 1, !.total = @ + 1, !.last = now,
                        !.delayed = IF r.delay > 0 THEN @ + 1 ELSE @,
                        !.ready   = IF r.delay > 0 THEN @ ELSE @ + 1]
    OBVIOUS
<1>9. /\ msgs' = [msgs EXCEPT ![k] = m]
      /\ meta' = [meta EXCEPT ![q] = h]
    BY <1>1, <1>3, <1>5, <1>8 DEF PublishOne
<1>10. /\ h.exists /\ h.next = g.next + 1 /\ h.total = g.total + 1
       /\ h.delayed = (IF r.delay > 0 THEN g.delayed + 1 ELSE g.delayed)
       /\ h.ready = (IF r.delay > 0 THEN g.ready ELSE g.ready + 1)
       /\ h.inflight = g.inflight
    BY <1>2, <1>8 DEF GroupMeta
<1>11. meta'[q] = h /\ \A p \in Queues : p # q => meta'[p] = meta[p]
    BY <1>9 DEF TypeOK
<1>12. ReadMeta(q)' = h /\ LoadGroupMeta(q)' = h
    BY <1>10, <1>11 DEF ReadMeta, LoadGroupMeta
<1>13. /\ ReadMeta(q).ready = g.ready /\ ReadMeta(q).delayed = g.delayed
       /\ ReadMeta(q).inflight = g.inflight /\ ReadMeta(q).total = g.total
    BY <1>1 DEF ReadMeta, LoadGroupMeta, ZeroMeta, FreshMeta
<1>14. MetaMoves(k[1], "NONE", m.state)
    <2>1. /\ Is("NONE", "READY") = 0 /\ Is("NONE", "DELAYED") = 0
          /\ Is("NONE", "LEASED") = 0 /\ Is("NONE", "NONE") = 1
          /\ Is(m.state, "READY") = (IF r.delay > 0 THEN 0 ELSE 1)
          /\ Is(m.state, "DELAYED") = (IF r.delay > 0 THEN 1 ELSE 0)
          /\ Is(m.state, "LEASED") = 0 /\ Is(m.state, "NONE") = 0
        BY <1>7 DEF Is
    <2>2. g.ready \in Nat /\ g.delayed \in Nat /\ g.inflight \in Nat /\ g.total \in Nat
        BY <1>2 DEF GroupMeta
    <2>3. /\ h.ready = g.ready - 0 + (IF r.delay > 0 THEN 0 ELSE 1)
          /\ h.delayed = g.delayed - 0 + (IF r.delay > 0 THEN 1 ELSE 0)
          /\ h.inflight = g.inflight - 0 + 0
          /\ h.total = g.total + 1 - 0
        BY <1>10, <2>2
    <2> QED
        BY <1>4, <1>11, <1>12, <1>13, <2>1, <2>3 DEF MetaMoves
<1>15. LeasesStay(k)
    <2>1. msgs[k].state = "NONE"
        BY <1>1, <1>2, <1>4 DEF Fresh, NoMessage
    <2>2. \A l \in LeaseIds : leases[l].live => leases[l].key # k
        BY <2>1 DEF LeaseOwnsMessage, LeaseCurrent
    <2> QED
        BY <2>2 DEF LeasesStay
<1>16. NewRows(readyAt, readyAt', k, 0, m.due)
    <2>1. PICK due : due = now + r.delay
        OBVIOUS
    <2>2. readyAt' = AddTimer(readyAt, due, k, 0) \/ readyAt' = readyAt
        BY <1>1, <1>3, <2>1 DEF PublishOne
    <2>3. PICK T : T = readyAt
        OBVIOUS
    <2>4. NewRows(T, AddTimer(T, due, k, 0), k, 0, due) /\ NewRows(T, T, k, 0, due)
        BY RowsAdded
    <2> QED
        BY <1>7, <2>1, <2>2, <2>3, <2>4
<1>17. \A t \in msgExpiry' :
          t \in msgExpiry \/ (t.ref = k /\ t.due = m.ttlAt /\ t.due > 0)
    <2>1. CASE r.ttl > 0
        <3>1. PICK due : due = now + r.ttl
            OBVIOUS
        <3>2. msgExpiry' = AddTimer(msgExpiry, due, k, 0)
            BY <1>1, <1>3, <2>1, <3>1 DEF PublishOne
        <3>3. due > 0 /\ m.ttlAt = due
            BY <1>7, <2>1, <3>1 DEF TypeOK
        <3>4. PICK T : T = msgExpiry
            OBVIOUS
        <3>5. NewRows(T, AddTimer(T, due, k, 0), k, 0, due)
            BY RowsAdded
        <3> QED
            BY <3>2, <3>3, <3>4, <3>5 DEF NewRows
    <2>2. CASE ~(r.ttl > 0)
        BY <2>2 DEF PublishOne
    <2> QED
        BY <2>1, <2>2
<1>18. ComesIn(k, m)
    <2>1. m.state \in {"READY", "DELAYED"}
        BY <1>7
    <2>2. LoadGroupMeta(k[1]).next = k[2] /\ LoadGroupMeta(k[1])'.next = k[2] + 1
        BY <1>1, <1>4, <1>10, <1>12
    <2> QED
        BY <1>6, <1>7, <1>9, <1>14, <1>15, <1>16, <1>17, <2>1, <2>2 DEF ComesIn
<1> QED
    BY <1>6, <1>7, <1>18

\* applyPublish brings a new payload.
LEMMA PublishMoves ==
    ASSUME QueueInv, NEW q \in Queues, NEW r \in PublishReq, Publish(q, r)
    PROVE  Moves
<1> USE DEF QueueInv
<1>1. /\ r.delay \in Nat /\ r.ttl \in Nat /\ r.max \in AttemptLimits
      /\ r.token \in TokenModes
    BY BrokerAssumption DEF PublishReq
<1>2. PICK body \in Bodies : body = published + 1
    BY BrokerAssumption DEF TypeOK, Publish, Bodies
<1>3. PublishOne(q, r, body) /\ leases' = leases
    BY <1>2 DEF Publish
<1>4. PICK k \in Keys : \E m \in Message : ComesIn(k, m) /\ m.body = body
    BY <1>1, <1>3, PublishComesIn
<1>5. PICK m \in Message : ComesIn(k, m) /\ m.body = body
    BY <1>4
<1>6. UNCHANGED <<acked, dropped, dlq>> /\ published' = published + 1
    BY DEF Publish
<1>7. Arrives(k, m)
    BY <1>2, <1>5, <1>6 DEF Arrives
<1> QED
    BY <1>7 DEF Moves

\* applyRedrive brings the payload of a dead letter, which goes.
LEMMA RedriveMoves ==
    ASSUME QueueInv, NEW row \in dlq, Redrive(row)
    PROVE  Moves
<1> USE DEF QueueInv
<1>1. row \in DeadRow
    BY DEF TypeOK
<1>2. PICK q \in Queues : q = row.key[1]
    BY <1>1, KeyParts DEF DeadRow
<1>3. PICK r : r = [delay |-> 0, ttl |-> 0, max |-> row.max, token |-> row.token]
    OBVIOUS
<1>4. PICK body \in Bodies : body = row.body
    BY <1>1 DEF DeadRow
<1>5. /\ r.delay \in Nat /\ r.ttl \in Nat /\ r.max \in AttemptLimits
      /\ r.token \in TokenModes
    BY <1>1, <1>3 DEF DeadRow
<1>6. PublishOne(q, r, body) /\ leases' = leases
    BY <1>2, <1>3, <1>4 DEF Redrive
<1>7. PICK k \in Keys : \E m \in Message : ComesIn(k, m) /\ m.body = body
    BY <1>5, <1>6, PublishComesIn
<1>8. PICK m \in Message : ComesIn(k, m) /\ m.body = body
    BY <1>7
<1>9. UNCHANGED <<acked, dropped, published>> /\ dlq' = dlq \ {row}
    BY DEF Redrive, history
<1>10. Arrives(k, m)
    BY <1>4, <1>8, <1>9 DEF Arrives
<1> QED
    BY <1>10 DEF Moves


\* A row written back moves the counters as its fields say.
LEMMA MetaPut ==
    ASSUME TypeOK, NEW q \in Queues, meta[q].exists, NEW h \in GroupMeta,
           meta' = [meta EXCEPT ![q] = h], h.next = meta[q].next, NEW s, NEW t,
           h.ready = meta[q].ready - Is(s, "READY") + Is(t, "READY"),
           h.delayed = meta[q].delayed - Is(s, "DELAYED") + Is(t, "DELAYED"),
           h.inflight = meta[q].inflight - Is(s, "LEASED") + Is(t, "LEASED"),
           h.total = meta[q].total + Is(s, "NONE") - Is(t, "NONE")
    PROVE  MetaMoves(q, s, t) /\ NextsKept
<1>1. meta'[q] = h /\ h.exists /\ \A p \in Queues : p # q => meta'[p] = meta[p]
    BY DEF TypeOK, GroupMeta
<1>2. ReadMeta(q) = meta[q] /\ LoadGroupMeta(q) = meta[q]
    BY DEF ReadMeta, LoadGroupMeta
<1>3. ReadMeta(q)' = h /\ LoadGroupMeta(q)' = h
    BY <1>1 DEF ReadMeta, LoadGroupMeta
<1>4. MetaMoves(q, s, t)
    BY <1>1, <1>2, <1>3 DEF MetaMoves
<1>5. NextsKept
    <2> SUFFICES ASSUME NEW p \in Queues
                 PROVE  LoadGroupMeta(p)'.next = LoadGroupMeta(p).next
        BY DEF NextsKept
    <2>1. p # q => LoadGroupMeta(p)' = LoadGroupMeta(p)
        BY <1>1 DEF LoadGroupMeta
    <2> QED
        BY <1>2, <1>3, <2>1
<1> QED
    BY <1>4, <1>5

\* A message in flight goes: one less in flight and in all.
LEMMA MetaLeaves ==
    ASSUME QueueInv, NEW k \in Keys, msgs[k].state = "LEASED",
           meta' = PutIfFound(k[1], [meta[k[1]] EXCEPT !.inflight = Decr(@),
                                                       !.total = Decr(@)])
    PROVE  MetaMoves(k[1], "LEASED", "NONE") /\ NextsKept
<1> USE DEF QueueInv
<1>1. /\ k[1] \in Queues /\ meta[k[1]].exists /\ meta[k[1]] \in GroupMeta
      /\ meta[k[1]].total > 0 /\ meta[k[1]].inflight > 0
    BY Counted
<1>2. PICK q \in Queues : q = k[1]
    BY <1>1
<1>3. PICK g \in GroupMeta : g = meta[q]
    BY <1>1, <1>2
<1>4. PICK h : h = [g EXCEPT !.inflight = Decr(@), !.total = Decr(@)]
    OBVIOUS
<1>5. h \in GroupMeta
    BY <1>4, MetaRows
<1>6. meta' = [meta EXCEPT ![q] = h]
    BY <1>1, <1>2, <1>3, <1>4 DEF PutIfFound
<1>7. /\ g.ready \in Nat /\ g.delayed \in Nat /\ g.inflight \in Nat /\ g.total \in Nat
      /\ g.inflight > 0 /\ g.total > 0
    BY <1>1, <1>2, <1>3 DEF GroupMeta
<1>8. /\ h.ready = g.ready /\ h.delayed = g.delayed /\ h.next = g.next
      /\ h.inflight = Decr(g.inflight) /\ h.total = Decr(g.total)
    BY <1>4 DEF GroupMeta
<1>9. Decr(g.inflight) = g.inflight - 1 /\ Decr(g.total) = g.total - 1
    BY <1>7 DEF Decr
<1>10. /\ Is("LEASED", "READY") = 0 /\ Is("LEASED", "DELAYED") = 0
       /\ Is("LEASED", "LEASED") = 1 /\ Is("LEASED", "NONE") = 0
       /\ Is("NONE", "READY") = 0 /\ Is("NONE", "DELAYED") = 0
       /\ Is("NONE", "LEASED") = 0 /\ Is("NONE", "NONE") = 1
    BY DEF Is
<1>11. PICK s : s = "LEASED"
    OBVIOUS
<1>12. PICK t : t = "NONE"
    OBVIOUS
<1>13. /\ h.ready = g.ready - Is(s, "READY") + Is(t, "READY")
       /\ h.delayed = g.delayed - Is(s, "DELAYED") + Is(t, "DELAYED")
       /\ h.inflight = g.inflight - Is(s, "LEASED") + Is(t, "LEASED")
       /\ h.total = g.total + Is(s, "NONE") - Is(t, "NONE")
    BY <1>7, <1>8, <1>9, <1>10, <1>11, <1>12
<1>14. MetaMoves(q, s, t) /\ NextsKept
    BY <1>1, <1>2, <1>3, <1>5, <1>6, <1>8, <1>13, MetaPut
<1> QED
    BY <1>2, <1>11, <1>12, <1>14

\* A message in flight goes back: one less in flight, one more in its new state.
LEMMA MetaRequeues ==
    ASSUME QueueInv, NEW k \in Keys, msgs[k].state = "LEASED", NEW at,
           meta' = PutIfFound(k[1], MetaRequeued(
                      [meta[k[1]] EXCEPT !.inflight = Decr(@)], at))
    PROVE  /\ MetaMoves(k[1], "LEASED", IF at > now THEN "DELAYED" ELSE "READY")
           /\ NextsKept
<1> USE DEF QueueInv
<1>1. /\ k[1] \in Queues /\ meta[k[1]].exists /\ meta[k[1]] \in GroupMeta
      /\ meta[k[1]].inflight > 0
    BY Counted
<1>2. PICK q \in Queues : q = k[1]
    BY <1>1
<1>3. PICK g \in GroupMeta : g = meta[q]
    BY <1>1, <1>2
<1>4. PICK f : f = [g EXCEPT !.inflight = Decr(@)]
    OBVIOUS
<1>5. f \in GroupMeta
    BY <1>4, MetaRows
<1>6. PICK h : h = MetaRequeued(f, at)
    OBVIOUS
<1>7. h \in GroupMeta
    BY <1>5, <1>6, MetaRequeuedType
<1>8. meta' = [meta EXCEPT ![q] = h]
    BY <1>1, <1>2, <1>3, <1>4, <1>6 DEF PutIfFound
<1>9. /\ g.ready \in Nat /\ g.delayed \in Nat /\ g.inflight \in Nat /\ g.total \in Nat
      /\ g.inflight > 0
    BY <1>1, <1>2, <1>3 DEF GroupMeta
<1>10. /\ f.ready = g.ready /\ f.delayed = g.delayed /\ f.next = g.next
       /\ f.inflight = Decr(g.inflight) /\ f.total = g.total
    BY <1>4 DEF GroupMeta
<1>11. Decr(g.inflight) = g.inflight - 1
    BY <1>9 DEF Decr
<1>12. PICK t : t = IF at > now THEN "DELAYED" ELSE "READY"
    OBVIOUS
<1>13. PICK s : s = "LEASED"
    OBVIOUS
<1>14. /\ Is(s, "READY") = 0 /\ Is(s, "DELAYED") = 0
       /\ Is(s, "LEASED") = 1 /\ Is(s, "NONE") = 0
       /\ Is(t, "LEASED") = 0 /\ Is(t, "NONE") = 0
    BY <1>12, <1>13 DEF Is
<1>15. CASE at > now
    <2>1. h = [f EXCEPT !.delayed = @ + 1]
        BY <1>6, <1>15 DEF MetaRequeued
    <2>2. /\ h.ready = f.ready /\ h.delayed = f.delayed + 1 /\ h.next = f.next
          /\ h.inflight = f.inflight /\ h.total = f.total
        BY <1>5, <2>1 DEF GroupMeta
    <2>3. Is(t, "READY") = 0 /\ Is(t, "DELAYED") = 1
        BY <1>12, <1>15 DEF Is
    <2>4. /\ h.ready = g.ready - Is(s, "READY") + Is(t, "READY")
          /\ h.delayed = g.delayed - Is(s, "DELAYED") + Is(t, "DELAYED")
          /\ h.inflight = g.inflight - Is(s, "LEASED") + Is(t, "LEASED")
          /\ h.total = g.total + Is(s, "NONE") - Is(t, "NONE")
        BY <1>9, <1>10, <1>11, <1>14, <2>2, <2>3
    <2>5. MetaMoves(q, s, t) /\ NextsKept
        <3>1. /\ h.ready = meta[q].ready - Is(s, "READY") + Is(t, "READY")
              /\ h.delayed = meta[q].delayed - Is(s, "DELAYED") + Is(t, "DELAYED")
              /\ h.inflight = meta[q].inflight - Is(s, "LEASED") + Is(t, "LEASED")
              /\ h.total = meta[q].total + Is(s, "NONE") - Is(t, "NONE")
            BY <1>3, <2>4
        <3>2. meta[q].exists /\ h.next = meta[q].next
            BY <1>1, <1>2, <1>3, <1>10, <2>2
        <3> QED
            BY <1>7, <1>8, <3>1, <3>2, MetaPut
    <2> QED
        BY <1>2, <1>12, <1>13, <2>5
<1>16. CASE ~(at > now)
    <2>1. h = [f EXCEPT !.ready = @ + 1]
        BY <1>6, <1>16 DEF MetaRequeued
    <2>2. /\ h.ready = f.ready + 1 /\ h.delayed = f.delayed /\ h.next = f.next
          /\ h.inflight = f.inflight /\ h.total = f.total
        BY <1>5, <2>1 DEF GroupMeta
    <2>3. Is(t, "READY") = 1 /\ Is(t, "DELAYED") = 0
        BY <1>12, <1>16 DEF Is
    <2>4. /\ h.ready = g.ready - Is(s, "READY") + Is(t, "READY")
          /\ h.delayed = g.delayed - Is(s, "DELAYED") + Is(t, "DELAYED")
          /\ h.inflight = g.inflight - Is(s, "LEASED") + Is(t, "LEASED")
          /\ h.total = g.total + Is(s, "NONE") - Is(t, "NONE")
        BY <1>9, <1>10, <1>11, <1>14, <2>2, <2>3
    <2>5. MetaMoves(q, s, t) /\ NextsKept
        <3>1. /\ h.ready = meta[q].ready - Is(s, "READY") + Is(t, "READY")
              /\ h.delayed = meta[q].delayed - Is(s, "DELAYED") + Is(t, "DELAYED")
              /\ h.inflight = meta[q].inflight - Is(s, "LEASED") + Is(t, "LEASED")
              /\ h.total = meta[q].total + Is(s, "NONE") - Is(t, "NONE")
            BY <1>3, <2>4
        <3>2. meta[q].exists /\ h.next = meta[q].next
            BY <1>1, <1>2, <1>3, <1>10, <2>2
        <3> QED
            BY <1>7, <1>8, <3>1, <3>2, MetaPut
    <2> QED
        BY <1>2, <1>12, <1>13, <2>5
<1> QED
    BY <1>15, <1>16

\* A live lease is the only one of its message.
LEMMA LeaseEnds ==
    ASSUME QueueInv, NEW l \in LeaseIds, leases[l].live,
           leases' = [leases EXCEPT ![l] = NoLease]
    PROVE  LeasesStay(leases[l].key)
<1> USE DEF QueueInv
<1>1. PICK k : k = leases[l].key
    OBVIOUS
<1> SUFFICES ASSUME NEW j \in LeaseIds, leases'[j].live
             PROVE  /\ leases[j].live /\ leases[j].key # k
                    /\ leases'[j].key = leases[j].key
                    /\ leases'[j].body = leases[j].body
    BY <1>1 DEF LeasesStay
<1>2. j # l
    BY DEF TypeOK, NoLease
<1>3. leases'[j] = leases[j]
    BY <1>2
<1>4. leases[j].key # k
    BY <1>1, <1>2, <1>3 DEF LeaseOwnsMessage, LeaseCurrent
<1> QED
    BY <1>3, <1>4

\* A live lease has its message, in flight.
LEMMA LeaseHas ==
    ASSUME QueueInv, NEW l \in LeaseIds, leases[l].live
    PROVE  /\ leases[l].key \in Keys /\ LeaseCurrent(l)
           /\ msgs[leases[l].key] \in Message
           /\ msgs[leases[l].key].state = "LEASED"
           /\ msgs[leases[l].key].lease = l
           /\ msgs[leases[l].key].body = leases[l].body
BY LeaseKeys DEF QueueInv, LeaseOwnsMessage, LeaseCurrent


\* A message in flight goes back to its group with the end of its lease.
LEMMA RequeueMoves ==
    ASSUME QueueInv, NEW l \in LeaseIds, leases[l].live, NEW c \in Keys,
           c = leases[l].key, NEW m \in Message, m.epoch = msgs[c].epoch,
           m.body = msgs[c].body, m.ttlAt = msgs[c].ttlAt, NEW at \in Nat,
           RequeueMsg(c, m, at), leases' = [leases EXCEPT ![l] = NoLease],
           UNCHANGED <<msgExpiry, history>>
    PROVE  Stays
<1> USE DEF QueueInv
<1>1. msgs[c] \in Message /\ msgs[c].state = "LEASED"
    BY LeaseHas
<1>2. PICK n \in Message : n = Requeued(m, at)
    BY RequeuedType
<1>3. /\ n.state = (IF at > now THEN "DELAYED" ELSE "READY")
      /\ n.epoch = m.epoch + 1 /\ n.due = at /\ n.body = m.body /\ n.ttlAt = m.ttlAt
    BY <1>2 DEF Requeued, Message
<1>4. /\ msgs' = [msgs EXCEPT ![c] = n] /\ dlq' = dlq
      /\ readyAt' = TimersRequeued(c, at)
    BY <1>2 DEF RequeueMsg
<1>5. MetaMoves(c[1], msgs[c].state, n.state) /\ NextsKept
    BY <1>1, <1>3, MetaRequeues DEF RequeueMsg
<1>6. LeasesStay(c)
    BY LeaseEnds
<1>7. NewRows(readyAt, readyAt', c, n.epoch, n.due)
    <2>1. PICK T : T = readyAt
        OBVIOUS
    <2>2. PICK e : e = n.epoch
        OBVIOUS
    <2>3. readyAt' = AddTimer(T, at, c, e) \/ readyAt' = T
        BY <1>3, <1>4, <2>1, <2>2 DEF TimersRequeued
    <2>4. NewRows(T, AddTimer(T, at, c, e), c, e, at) /\ NewRows(T, T, c, e, at)
        BY RowsAdded
    <2> QED
        BY <1>3, <2>1, <2>2, <2>3, <2>4
<1>8. Turns(c, n)
    BY <1>1, <1>3, <1>4, <1>5, <1>6, <1>7 DEF Turns, LeasesStay
<1> QED
    BY <1>8 DEF Stays

\* A message in flight goes to the dead letters with the end of its lease.
LEMMA DeadLetterMoves ==
    ASSUME QueueInv, NEW l \in LeaseIds, leases[l].live, NEW c \in Keys,
           c = leases[l].key, NEW m \in Message,
           m.body = msgs[c].body, m.ttlAt = msgs[c].ttlAt,
           NEW reason \in {"max_attempts", "terminal_nack", "max_lease_lifetime"},
           DeadLetterMsg(c, m, reason), leases' = [leases EXCEPT ![l] = NoLease],
           UNCHANGED <<msgExpiry, history>>
    PROVE  Stays
<1> USE DEF QueueInv
<1>1. msgs[c].state = "LEASED"
    BY LeaseHas
<1>2. MetaMoves(c[1], msgs[c].state, "NONE") /\ NextsKept
    BY <1>1, MetaLeaves DEF DeadLetterMsg
<1>3. LeasesStay(c)
    BY LeaseEnds
<1>4. /\ msgs' = [msgs EXCEPT ![c] = NoMessage] /\ readyAt' = readyAt
      /\ dlq' = DeadLetters(c, m, reason) /\ msgExpiry' = msgExpiry
      /\ UNCHANGED <<dropped, published, acked>>
    BY DEF DeadLetterMsg, history
<1>5. Leaves(c)
    BY <1>1, <1>2, <1>3, <1>4 DEF Leaves
<1> QED
    BY <1>5 DEF Stays

\* applyAck.
LEMMA AckMoves ==
    ASSUME QueueInv, NEW l \in LeaseIds, leases[l].live, NEW tok, AckLease(l, tok)
    PROVE  Stays
<1> USE DEF QueueInv
<1>1. PICK c \in Keys : c = leases[l].key
    BY LeaseHas
<1>2. msgs[c].state = "LEASED" /\ msgs[c].body = leases[l].body
    BY <1>1, LeaseHas
<1>3. MetaMoves(c[1], msgs[c].state, "NONE") /\ NextsKept
    <2>1. meta' = PutIfFound(c[1], [meta[c[1]] EXCEPT !.inflight = Decr(@),
                                                      !.total = Decr(@)])
        BY <1>1 DEF AckLease
    <2> QED
        BY <1>2, <2>1, MetaLeaves
<1>4. LeasesStay(c)
    BY <1>1, LeaseEnds DEF AckLease
<1>5. /\ msgs' = [msgs EXCEPT ![c] = NoMessage] /\ readyAt' = readyAt
      /\ dlq' = dlq /\ msgExpiry' = msgExpiry
      /\ UNCHANGED <<dropped, published>> /\ acked' = acked \cup {msgs[c].body}
    BY <1>1, <1>2 DEF AckLease
<1>6. Leaves(c)
    BY <1>2, <1>3, <1>4, <1>5 DEF Leaves
<1> QED
    BY <1>6 DEF Stays

\* applyNack, mode NackRetry.
LEMMA NackRetryMoves ==
    ASSUME QueueInv, NEW l \in LeaseIds, leases[l].live, NEW delay \in Nat, NEW tok,
           NackRetryLease(l, delay, tok)
    PROVE  Stays
<1> USE DEF QueueInv
<1>1. PICK c \in Keys : c = leases[l].key
    BY LeaseHas
<1>2. LeaseCurrent(l) /\ msgs[c] \in Message
    BY <1>1, LeaseHas
<1>3. PICK m : m = [msgs[c] EXCEPT !.attempt = @ + 1]
    OBVIOUS
<1>4. /\ m \in Message /\ m.epoch = msgs[c].epoch
      /\ m.body = msgs[c].body /\ m.ttlAt = msgs[c].ttlAt
    BY <1>2, <1>3 DEF Message
<1>5. PICK at : at = now + (IF delay > 0 THEN delay ELSE Backoff)
    OBVIOUS
<1>6. at \in Nat
    BY <1>5, BrokerAssumption DEF TypeOK
<1>7. /\ leases' = [leases EXCEPT ![l] = NoLease]
      /\ UNCHANGED <<msgExpiry, history>>
    BY DEF NackRetryLease, EndLease
<1>8. CASE AttemptsExhausted(m)
    <2>1. PICK reason \in {"max_attempts", "terminal_nack", "max_lease_lifetime"} :
             reason = "max_attempts"
        OBVIOUS
    <2>2. DeadLetterMsg(c, m, reason)
        BY <1>1, <1>2, <1>3, <1>8, <2>1 DEF NackRetryLease
    <2> QED
        BY <1>1, <1>4, <1>7, <2>2, DeadLetterMoves
<1>9. CASE ~AttemptsExhausted(m)
    <2>1. RequeueMsg(c, m, at)
        BY <1>1, <1>2, <1>3, <1>5, <1>9 DEF NackRetryLease
    <2> QED
        BY <1>1, <1>4, <1>6, <1>7, <2>1, RequeueMoves
<1> QED
    BY <1>8, <1>9

\* applyNack, mode NackDeadLetter.
LEMMA NackDeadLetterMoves ==
    ASSUME QueueInv, NEW l \in LeaseIds, NackDeadLetter(l)
    PROVE  Stays
<1> USE DEF QueueInv
<1>1. leases[l].live
    BY DEF NackDeadLetter
<1>2. PICK c \in Keys : c = leases[l].key
    BY <1>1, LeaseHas
<1>3. PICK m \in Message : m = msgs[c]
    BY <1>1, <1>2, LeaseHas
<1>4. PICK reason \in {"max_attempts", "terminal_nack", "max_lease_lifetime"} :
         reason = "terminal_nack"
    OBVIOUS
<1>5. /\ DeadLetterMsg(c, m, reason) /\ leases' = [leases EXCEPT ![l] = NoLease]
      /\ UNCHANGED <<msgExpiry, history>>
    BY <1>1, <1>2, <1>3, <1>4, LeaseHas DEF NackDeadLetter, EndLease
<1> QED
    BY <1>1, <1>2, <1>3, <1>5, DeadLetterMoves

\* applyNack, mode NackRequeueNoPenalty.
LEMMA NackRequeueMoves ==
    ASSUME QueueInv, NEW l \in LeaseIds, NEW delay \in Nat, NackRequeue(l, delay)
    PROVE  Stays
<1> USE DEF QueueInv
<1>1. leases[l].live
    BY DEF NackRequeue
<1>2. PICK c \in Keys : c = leases[l].key
    BY <1>1, LeaseHas
<1>3. PICK m \in Message : m = msgs[c]
    BY <1>1, <1>2, LeaseHas
<1>4. PICK at \in Nat : at = now + delay
    BY DEF TypeOK
<1>5. /\ RequeueMsg(c, m, at) /\ leases' = [leases EXCEPT ![l] = NoLease]
      /\ UNCHANGED <<msgExpiry, history>>
    BY <1>1, <1>2, <1>3, <1>4, LeaseHas DEF NackRequeue, EndLease
<1> QED
    BY <1>1, <1>2, <1>3, <1>5, RequeueMoves

\* A step that touches the rows of none of them.
LEMMA QuietRests ==
    ASSUME UNCHANGED <<msgs, meta, leases, dlq, history>>,
           readyAt' \subseteq readyAt, msgExpiry' \subseteq msgExpiry
    PROVE  Stays
BY DEF Stays, Rests, NextsKept, ReadMeta, LoadGroupMeta, history

\* applyComplete settles the lease of the token.
LEMMA CompleteMoves ==
    ASSUME QueueInv, NEW t \in TokenIds, NEW ok \in BOOLEAN, NEW delay \in Nat,
           Complete(t, ok, delay)
    PROVE  Stays
<1> USE DEF QueueInv
<1>1. tokens[t] \in LeaseIds
    BY TokenRange DEF Complete
<1>2. PICK l \in LeaseIds : l = tokens[t]
    BY <1>1
<1>3. CASE ~leases[l].live
    <2>1. UNCHANGED <<msgs, meta, leases, dlq, timers, history>>
        BY <1>2, <1>3 DEF Complete
    <2> QED
        BY <2>1, QuietRests DEF timers
<1>4. CASE leases[l].live
    <2>1. PICK tok : tok = [DeleteLeaseToken(l) EXCEPT ![t] = 0]
        OBVIOUS
    <2>2. AckLease(l, tok) \/ NackRetryLease(l, delay, tok)
        BY <1>2, <1>4, <2>1 DEF Complete
    <2> QED
        BY <1>4, <2>2, AckMoves, NackRetryMoves
<1> QED
    BY <1>3, <1>4


\* applyLease.
LEMMA LeaseMoves ==
    ASSUME QueueInv, NEW q \in Queues, NEW i \in MsgIds, Lease(q, i)
    PROVE  Stays
<1> USE DEF QueueInv
<1>1. PICK c \in Keys : c = <<q, i>>
    BY DEF Keys
<1>2. PICK h \in LeaseIds : h = nextLease
    BY DEF Lease
<1>3. msgs[c] \in Message /\ msgs[c].state = "READY"
    BY <1>1, RowKinds DEF Lease, IsHeadReady, ReadyIds
<1>4. PICK m : m = [msgs[c] EXCEPT !.state = "LEASED", !.lease = h, !.epoch = @ + 1]
    OBVIOUS
<1>5. /\ m \in Message /\ m.state = "LEASED" /\ m.lease = h
      /\ m.epoch = msgs[c].epoch + 1 /\ m.body = msgs[c].body
      /\ m.ttlAt = msgs[c].ttlAt
    <2>1. h \in Nat
        BY BrokerAssumption DEF LeaseIds
    <2>2. PICK o \in Message : o = msgs[c]
        BY <1>3
    <2>3. o.epoch \in Nat /\ o.epoch + 1 \in Nat
        BY DEF Message
    <2>4. m = [o EXCEPT !.state = "LEASED", !.lease = h, !.epoch = o.epoch + 1]
        BY <1>4, <2>2
    <2>5. m \in Message
        BY <2>1, <2>3, <2>4 DEF Message
    <2>6. /\ m.state = "LEASED" /\ m.lease = h /\ m.epoch = o.epoch + 1
          /\ m.body = o.body /\ m.ttlAt = o.ttlAt
        BY <2>4 DEF Message
    <2> QED
        BY <2>2, <2>5, <2>6
<1>6. /\ c[1] = q /\ meta[q].exists /\ meta[q] \in GroupMeta
      /\ ReadMeta(q) = meta[q] /\ meta[q].ready > 0
    BY <1>1, <1>3, Counted
<1>7. PICK g \in GroupMeta : g = meta[q]
    BY <1>6
<1>8. PICK n : n = [g EXCEPT !.ready = Decr(@), !.inflight = @ + 1]
    OBVIOUS
<1>9. /\ g.ready \in Nat /\ g.delayed \in Nat /\ g.inflight \in Nat /\ g.total \in Nat
      /\ Decr(g.ready) = g.ready - 1 /\ g.ready > 0
    BY <1>6, <1>7 DEF GroupMeta, Decr
<1>10. /\ n.ready = g.ready - 1 /\ n.delayed = g.delayed /\ n.next = g.next
       /\ n.inflight = g.inflight + 1 /\ n.total = g.total
    BY <1>8, <1>9 DEF GroupMeta
<1>11. n \in GroupMeta
    <2>1. g.ready - 1 \in Nat /\ g.inflight + 1 \in Nat
        BY <1>9
    <2>2. n = [g EXCEPT !.ready = g.ready - 1, !.inflight = g.inflight + 1]
        BY <1>8, <1>9
    <2> QED
        BY <2>1, <2>2 DEF GroupMeta
<1>12. meta' = [meta EXCEPT ![q] = n]
    BY <1>6, <1>7, <1>8 DEF Lease
<1>13. MetaMoves(c[1], msgs[c].state, m.state) /\ NextsKept
    <2>1. PICK s : s = "READY"
        OBVIOUS
    <2>2. PICK t : t = "LEASED"
        OBVIOUS
    <2>3. /\ Is(s, "READY") = 1 /\ Is(s, "DELAYED") = 0
          /\ Is(s, "LEASED") = 0 /\ Is(s, "NONE") = 0
          /\ Is(t, "READY") = 0 /\ Is(t, "DELAYED") = 0
          /\ Is(t, "LEASED") = 1 /\ Is(t, "NONE") = 0
        BY <2>1, <2>2 DEF Is
    <2>4. /\ n.ready = meta[q].ready - Is(s, "READY") + Is(t, "READY")
          /\ n.delayed = meta[q].delayed - Is(s, "DELAYED") + Is(t, "DELAYED")
          /\ n.inflight = meta[q].inflight - Is(s, "LEASED") + Is(t, "LEASED")
          /\ n.total = meta[q].total + Is(s, "NONE") - Is(t, "NONE")
        BY <1>7, <1>9, <1>10, <2>3
    <2>5. meta[q].exists /\ n.next = meta[q].next
        BY <1>6, <1>7, <1>10
    <2>6. MetaMoves(q, s, t) /\ NextsKept
        BY <1>11, <1>12, <2>4, <2>5, MetaPut
    <2> QED
        BY <1>3, <1>5, <1>6, <2>1, <2>2, <2>6
<1>14. /\ msgs' = [msgs EXCEPT ![c] = m] /\ UNCHANGED <<readyAt, msgExpiry, dlq, history>>
    BY <1>1, <1>2, <1>4 DEF Lease
<1>15. PICK row : row = [live |-> TRUE, key |-> c, deadline |-> now + Visibility,
                         token |-> NoToken, want |-> m.token, body |-> m.body]
    OBVIOUS
<1>16. leases' = [leases EXCEPT ![h] = row] /\ row.key = c /\ row.body = m.body
    BY <1>1, <1>2, <1>4, <1>15 DEF Lease
<1>17. ASSUME NEW l \in LeaseIds, leases'[l].live
       PROVE  \/ /\ leases[l].live /\ leases[l].key # c
                 /\ leases'[l].key = leases[l].key /\ leases'[l].body = leases[l].body
              \/ /\ leases'[l].key = c /\ leases'[l].body = m.body
                 /\ m.state = "LEASED" /\ m.lease = l
    <2>1. CASE l = h
        BY <1>5, <1>16, <2>1 DEF TypeOK
    <2>2. CASE l # h
        <3>1. leases'[l] = leases[l]
            BY <1>16, <2>2
        <3>2. leases[l].key # c
            BY <1>3, <1>17, <3>1 DEF LeaseOwnsMessage, LeaseCurrent
        <3> QED
            BY <1>17, <3>1, <3>2
    <2> QED
        BY <2>1, <2>2
<1>18. NewRows(readyAt, readyAt', c, m.epoch, m.due)
    BY <1>14 DEF NewRows
<1>19. Turns(c, m)
    BY <1>3, <1>5, <1>13, <1>14, <1>17, <1>18 DEF Turns
<1> QED
    BY <1>5, <1>19 DEF Stays

\* applyExtend.
LEMMA ExtendMoves ==
    ASSUME QueueInv, NEW l \in LeaseIds, NEW ttl \in Nat, Extend(l, ttl)
    PROVE  Stays
<1> USE DEF QueueInv
<1>1. leases[l].live
    BY DEF Extend
<1>2. PICK c \in Keys : c = leases[l].key
    BY <1>1, LeaseHas
<1>3. /\ msgs[c] \in Message /\ msgs[c].state = "LEASED" /\ msgs[c].lease = l
      /\ msgs[c].body = leases[l].body
    BY <1>1, <1>2, LeaseHas
<1>4. PICK m : m = [msgs[c] EXCEPT !.epoch = msgs[c].epoch + 1]
    OBVIOUS
<1>5. /\ m \in Message /\ m.state = "LEASED" /\ m.lease = l
      /\ m.epoch = msgs[c].epoch + 1 /\ m.body = msgs[c].body
      /\ m.ttlAt = msgs[c].ttlAt
    BY <1>3, <1>4 DEF Message
<1>6. /\ msgs' = [msgs EXCEPT ![c] = m]
      /\ leases' = [leases EXCEPT ![l].deadline = now + ttl]
      /\ UNCHANGED <<meta, readyAt, msgExpiry, dlq, history>>
    BY <1>2, <1>4 DEF Extend
<1>7. c[1] \in Queues /\ ReadMeta(c[1]) \in GroupMeta
    BY KeyParts, MetaDefaults
<1>8. MetaMoves(c[1], msgs[c].state, m.state) /\ NextsKept
    <2>1. PICK g \in GroupMeta : g = ReadMeta(c[1])
        BY <1>7
    <2>2. ReadMeta(c[1])' = g
        BY <1>6, <2>1 DEF ReadMeta
    <2>3. /\ Is("LEASED", "READY") = 0 /\ Is("LEASED", "DELAYED") = 0
          /\ Is("LEASED", "LEASED") = 1 /\ Is("LEASED", "NONE") = 0
        BY DEF Is
    <2>4. /\ g.ready = g.ready - 0 + 0 /\ g.delayed = g.delayed - 0 + 0
          /\ g.inflight = g.inflight - 1 + 1 /\ g.total = g.total + 0 - 0
        BY DEF GroupMeta
    <2>5. MetaMoves(c[1], "LEASED", "LEASED")
        BY <1>6, <2>1, <2>2, <2>3, <2>4 DEF MetaMoves
    <2> QED
        BY <1>3, <1>5, <1>6, <2>5 DEF NextsKept, LoadGroupMeta
<1>9. ASSUME NEW j \in LeaseIds, leases'[j].live
      PROVE  \/ /\ leases[j].live /\ leases[j].key # c
                /\ leases'[j].key = leases[j].key /\ leases'[j].body = leases[j].body
             \/ /\ leases'[j].key = c /\ leases'[j].body = m.body
                /\ m.state = "LEASED" /\ m.lease = j
    <2>1. CASE j = l
        <3>1. leases[l] \in LeaseRow
            BY <1>1, RowKinds
        <3>2. leases'[l].key = leases[l].key /\ leases'[l].body = leases[l].body
            BY <1>6, <3>1 DEF LeaseRow, TypeOK
        <3> QED
            BY <1>2, <1>3, <1>5, <2>1, <3>2
    <2>2. CASE j # l
        <3>1. leases'[j] = leases[j]
            BY <1>6, <2>2
        <3>2. leases[j].key # c
            BY <1>3, <1>9, <2>2, <3>1 DEF LeaseOwnsMessage, LeaseCurrent
        <3> QED
            BY <1>9, <3>1, <3>2
    <2> QED
        BY <2>1, <2>2
<1>10. NewRows(readyAt, readyAt', c, m.epoch, m.due)
    BY <1>6 DEF NewRows
<1>11. Turns(c, m)
    BY <1>3, <1>5, <1>6, <1>8, <1>9, <1>10 DEF Turns
<1> QED
    BY <1>5, <1>11 DEF Stays

\* The ready-at row wakes its message, or finds that it is gone.
LEMMA FireReadyAtMoves ==
    ASSUME QueueInv, NEW t \in readyAt, FireReadyAt(t)
    PROVE  Stays
<1> USE DEF QueueInv
<1>1. PICK c \in Keys : c = t.ref
    BY DEF TypeOK, Timer
<1>2. CASE ~ReadyFence(t)
    <2>1. /\ UNCHANGED <<msgs, meta, leases, dlq, history, msgExpiry>>
          /\ readyAt' \subseteq readyAt
        BY <1>2 DEF FireReadyAt
    <2> QED
        BY <2>1, QuietRests
<1>3. CASE ReadyFence(t)
    <2>1. msgs[c].state = "DELAYED" /\ msgs[c].epoch = t.epoch /\ msgs[c] \in Message
        BY <1>1, <1>3, RowKinds DEF ReadyFence
    <2>2. PICK m : m = [msgs[c] EXCEPT !.state = "READY", !.epoch = @ + 1]
        OBVIOUS
    <2>3. /\ m \in Message /\ m.state = "READY" /\ m.epoch = msgs[c].epoch + 1
          /\ m.body = msgs[c].body /\ m.ttlAt = msgs[c].ttlAt
        <3>1. PICK o \in Message : o = msgs[c]
            BY <2>1
        <3>2. o.epoch \in Nat /\ o.epoch + 1 \in Nat
            BY DEF Message
        <3>3. m = [o EXCEPT !.state = "READY", !.epoch = o.epoch + 1]
            BY <2>2, <3>1
        <3>4. m \in Message
            BY <3>2, <3>3 DEF Message
        <3>5. /\ m.state = "READY" /\ m.epoch = o.epoch + 1
              /\ m.body = o.body /\ m.ttlAt = o.ttlAt
            BY <3>3 DEF Message
        <3> QED
            BY <3>1, <3>4, <3>5
    <2>4. msgs' = [msgs EXCEPT ![c] = m]
        BY <1>1, <1>3, <2>1, <2>2 DEF FireReadyAt, TypeOK
    <2>5. /\ UNCHANGED <<leases, msgExpiry, dlq, history>> /\ readyAt' \subseteq readyAt
          /\ meta' = PutIfFound(c[1],
                [meta[c[1]] EXCEPT !.ready = @ + 1, !.delayed = Decr(@)])
          /\ t.due <= now
        BY <1>1, <1>3 DEF FireReadyAt, Due
    <2>6. /\ c[1] \in Queues /\ meta[c[1]].exists /\ meta[c[1]] \in GroupMeta
          /\ meta[c[1]].delayed > 0
        BY <2>1, Counted
    <2>7. PICK q \in Queues : q = c[1]
        BY <2>6
    <2>8. PICK g \in GroupMeta : g = meta[q]
        BY <2>6, <2>7
    <2>9. PICK n : n = [g EXCEPT !.ready = @ + 1, !.delayed = Decr(@)]
        OBVIOUS
    <2>10. /\ g.ready \in Nat /\ g.delayed \in Nat /\ g.inflight \in Nat
           /\ g.total \in Nat /\ Decr(g.delayed) = g.delayed - 1 /\ g.delayed > 0
        BY <2>6, <2>7, <2>8 DEF GroupMeta, Decr
    <2>11. /\ n.ready = g.ready + 1 /\ n.delayed = g.delayed - 1 /\ n.next = g.next
           /\ n.inflight = g.inflight /\ n.total = g.total
        BY <2>9, <2>10 DEF GroupMeta
    <2>12. n \in GroupMeta
        <3>1. g.ready + 1 \in Nat /\ g.delayed - 1 \in Nat
            BY <2>10
        <3>2. n = [g EXCEPT !.ready = g.ready + 1, !.delayed = g.delayed - 1]
            BY <2>9, <2>10
        <3> QED
            BY <3>1, <3>2 DEF GroupMeta
    <2>13. meta' = [meta EXCEPT ![q] = n]
        BY <2>5, <2>6, <2>7, <2>8, <2>9 DEF PutIfFound
    <2>14. MetaMoves(c[1], msgs[c].state, m.state) /\ NextsKept
        <3>1. PICK s : s = "DELAYED"
            OBVIOUS
        <3>2. PICK u : u = "READY"
            OBVIOUS
        <3>3. /\ Is(s, "READY") = 0 /\ Is(s, "DELAYED") = 1
              /\ Is(s, "LEASED") = 0 /\ Is(s, "NONE") = 0
              /\ Is(u, "READY") = 1 /\ Is(u, "DELAYED") = 0
              /\ Is(u, "LEASED") = 0 /\ Is(u, "NONE") = 0
            BY <3>1, <3>2 DEF Is
        <3>4. /\ n.ready = meta[q].ready - Is(s, "READY") + Is(u, "READY")
              /\ n.delayed = meta[q].delayed - Is(s, "DELAYED") + Is(u, "DELAYED")
              /\ n.inflight = meta[q].inflight - Is(s, "LEASED") + Is(u, "LEASED")
              /\ n.total = meta[q].total + Is(s, "NONE") - Is(u, "NONE")
            BY <2>8, <2>10, <2>11, <3>3
        <3>5. meta[q].exists /\ n.next = meta[q].next
            BY <2>6, <2>7, <2>8, <2>11
        <3>6. MetaMoves(q, s, u) /\ NextsKept
            BY <2>12, <2>13, <3>4, <3>5, MetaPut
        <3> QED
            BY <2>1, <2>3, <2>7, <3>1, <3>2, <3>6
    <2>15. LeasesStay(c)
        BY <2>1, <2>5 DEF LeasesStay, LeaseOwnsMessage, LeaseCurrent
    <2>16. NewRows(readyAt, readyAt', c, m.epoch, m.due)
        BY <2>5 DEF NewRows
    <2>17. Turns(c, m)
        BY <1>1, <2>1, <2>3, <2>4, <2>5, <2>14, <2>15, <2>16 DEF Turns, LeasesStay
    <2> QED
        BY <2>3, <2>17 DEF Stays
<1> QED
    BY <1>2, <1>3


\* A visibility timeout gives the message back.
LEMMA FireLeaseDeadlineMoves ==
    ASSUME QueueInv, NEW t \in leaseDeadline, FireLeaseDeadline(t)
    PROVE  Stays
<1> USE DEF QueueInv
<1>1. PICK l \in LeaseIds : l = t.ref
    BY DEF TypeOK, Timer
<1>2. CASE ~DeadlineFence(t)
    <2>1. UNCHANGED <<msgs, meta, leases, dlq, history, readyAt, msgExpiry>>
        BY <1>2 DEF FireLeaseDeadline
    <2> QED
        BY <2>1, QuietRests
<1>3. CASE DeadlineFence(t)
    <2>1. leases[l].live
        BY <1>1, <1>3 DEF DeadlineFence
    <2>2. PICK c \in Keys : c = leases[l].key
        BY <2>1, LeaseHas
    <2>3. PICK m \in Message : m = msgs[c]
        BY <2>1, <2>2, LeaseHas
    <2>4. PICK at \in Nat : at = now
        BY DEF TypeOK
    <2>5. /\ RequeueMsg(c, m, at) /\ leases' = [leases EXCEPT ![l] = NoLease]
          /\ UNCHANGED <<msgExpiry, history>>
        BY <1>1, <1>3, <2>2, <2>3, <2>4 DEF FireLeaseDeadline
    <2> QED
        BY <2>1, <2>2, <2>3, <2>5, RequeueMoves
<1> QED
    BY <1>2, <1>3

\* The lifetime cap dead-letters the message.
LEMMA FireLeaseMaxLifeMoves ==
    ASSUME QueueInv, NEW t \in leaseMaxLife, FireLeaseMaxLife(t)
    PROVE  Stays
<1> USE DEF QueueInv
<1>1. PICK l \in LeaseIds : l = t.ref
    BY DEF TypeOK, Timer
<1>2. CASE ~(leases[l].live /\ LeaseCurrent(l))
    <2>1. UNCHANGED <<msgs, meta, leases, dlq, history, readyAt, msgExpiry>>
        BY <1>1, <1>2 DEF FireLeaseMaxLife
    <2> QED
        BY <2>1, QuietRests
<1>3. CASE leases[l].live /\ LeaseCurrent(l)
    <2>1. PICK c \in Keys : c = leases[l].key
        BY <1>3, LeaseHas
    <2>2. PICK m \in Message : m = msgs[c]
        BY <1>3, <2>1, LeaseHas
    <2>3. PICK reason \in {"max_attempts", "terminal_nack", "max_lease_lifetime"} :
             reason = "max_lease_lifetime"
        OBVIOUS
    <2>4. /\ DeadLetterMsg(c, m, reason) /\ leases' = [leases EXCEPT ![l] = NoLease]
          /\ UNCHANGED <<msgExpiry, history>>
        BY <1>1, <1>3, <2>1, <2>2, <2>3 DEF FireLeaseMaxLife
    <2> QED
        BY <1>3, <2>1, <2>2, <2>4, DeadLetterMoves
<1> QED
    BY <1>2, <1>3

\* The time-to-live dead-letters a message no worker holds.
LEMMA FireMsgExpiryMoves ==
    ASSUME QueueInv, NEW t \in msgExpiry, FireMsgExpiry(t)
    PROVE  Stays
<1> USE DEF QueueInv
<1>1. PICK c \in Keys : c = t.ref
    BY DEF TypeOK, Timer
<1>2. CASE ~Leasable(msgs[c])
    <2>1. /\ UNCHANGED <<msgs, meta, leases, dlq, history, readyAt>>
          /\ msgExpiry' \subseteq msgExpiry
        BY <1>1, <1>2 DEF FireMsgExpiry
    <2> QED
        BY <2>1, QuietRests
<1>3. CASE Leasable(msgs[c])
    <2>1. msgs[c].state \in {"READY", "DELAYED"} /\ msgs[c] \in Message
        BY <1>3, RowKinds DEF Leasable
    <2>2. PICK m \in Message : m = msgs[c]
        BY <2>1
    <2>3. /\ c[1] \in Queues /\ meta[c[1]].exists /\ meta[c[1]] \in GroupMeta
          /\ meta[c[1]].total > 0
          /\ m.state = "READY" => meta[c[1]].ready > 0
          /\ m.state = "DELAYED" => meta[c[1]].delayed > 0
        BY <2>1, <2>2, Counted
    <2>4. PICK q \in Queues : q = c[1]
        BY <2>3
    <2>5. PICK g \in GroupMeta : g = meta[q]
        BY <2>3, <2>4
    <2>6. PICK r : r = IF m.state = "READY" THEN Decr(g.ready) ELSE g.ready
        OBVIOUS
    <2>7. PICK d : d = IF m.state = "READY" THEN g.delayed ELSE Decr(g.delayed)
        OBVIOUS
    <2>8. PICK n : n = [g EXCEPT !.ready = r, !.delayed = d, !.total = Decr(g.total)]
        OBVIOUS
    <2>9. /\ msgs' = [msgs EXCEPT ![c] = NoMessage] /\ dlq' = DeadLetters(c, m, "ttl")
          /\ msgExpiry' \subseteq msgExpiry /\ t.due <= now
          /\ UNCHANGED <<leases, readyAt, history>>
        BY <1>1, <1>3, <2>2 DEF FireMsgExpiry, Due
    <2>10. meta' = [meta EXCEPT ![q] = n]
        <3>1. meta' = PutIfFound(c[1], [meta[c[1]] EXCEPT
                      !.ready   = IF m.state = "READY" THEN Decr(@) ELSE @,
                      !.delayed = IF m.state = "READY" THEN @ ELSE Decr(@),
                      !.total   = Decr(@)])
            BY <1>1, <1>3, <2>2 DEF FireMsgExpiry
        <3>2. meta' = [meta EXCEPT ![q] = [g EXCEPT
                      !.ready   = IF m.state = "READY" THEN Decr(@) ELSE @,
                      !.delayed = IF m.state = "READY" THEN @ ELSE Decr(@),
                      !.total   = Decr(@)]]
            BY <2>3, <2>4, <2>5, <3>1 DEF PutIfFound
        <3> QED
            BY <2>6, <2>7, <2>8, <3>2
    <2>11. /\ g.ready \in Nat /\ g.delayed \in Nat /\ g.inflight \in Nat
           /\ g.total \in Nat /\ g.total > 0 /\ Decr(g.total) = g.total - 1
        BY <2>3, <2>4, <2>5 DEF GroupMeta, Decr
    <2>12. PICK s : s = m.state
        OBVIOUS
    <2>13. s \in {"READY", "DELAYED"}
        BY <2>1, <2>2, <2>12
    <2>14. /\ r = g.ready - Is(s, "READY") /\ d = g.delayed - Is(s, "DELAYED")
           /\ r \in Nat /\ d \in Nat
        <3>1. CASE s = "READY"
            <4>1. Decr(g.ready) = g.ready - 1 /\ g.ready > 0
                BY <2>3, <2>4, <2>5, <2>11, <2>12, <3>1 DEF Decr
            <4>2. Is(s, "READY") = 1 /\ Is(s, "DELAYED") = 0
                BY <3>1 DEF Is
            <4> QED
                BY <2>6, <2>7, <2>11, <2>12, <3>1, <4>1, <4>2
        <3>2. CASE s = "DELAYED"
            <4>1. Decr(g.delayed) = g.delayed - 1 /\ g.delayed > 0
                BY <2>3, <2>4, <2>5, <2>11, <2>12, <3>2 DEF Decr
            <4>2. Is(s, "READY") = 0 /\ Is(s, "DELAYED") = 1
                BY <3>2 DEF Is
            <4> QED
                BY <2>6, <2>7, <2>11, <2>12, <3>2, <4>1, <4>2
        <3> QED
            BY <2>13, <3>1, <3>2
    <2>15. /\ n.ready = r /\ n.delayed = d /\ n.next = g.next
           /\ n.inflight = g.inflight /\ n.total = g.total - 1
        BY <2>8, <2>11 DEF GroupMeta
    <2>16. n \in GroupMeta
        <3>1. g.total - 1 \in Nat
            BY <2>11
        <3>2. n = [g EXCEPT !.ready = r, !.delayed = d, !.total = g.total - 1]
            BY <2>8, <2>11
        <3> QED
            BY <2>14, <3>1, <3>2 DEF GroupMeta
    <2>17. MetaMoves(c[1], msgs[c].state, "NONE") /\ NextsKept
        <3>1. PICK u : u = "NONE"
            OBVIOUS
        <3>2. /\ Is(s, "LEASED") = 0 /\ Is(s, "NONE") = 0
              /\ Is(u, "READY") = 0 /\ Is(u, "DELAYED") = 0
              /\ Is(u, "LEASED") = 0 /\ Is(u, "NONE") = 1
            BY <2>13, <3>1 DEF Is
        <3>3. /\ n.ready = meta[q].ready - Is(s, "READY") + Is(u, "READY")
              /\ n.delayed = meta[q].delayed - Is(s, "DELAYED") + Is(u, "DELAYED")
              /\ n.inflight = meta[q].inflight - Is(s, "LEASED") + Is(u, "LEASED")
              /\ n.total = meta[q].total + Is(s, "NONE") - Is(u, "NONE")
            BY <2>5, <2>11, <2>14, <2>15, <3>2
        <3>4. meta[q].exists /\ n.next = meta[q].next
            BY <2>3, <2>4, <2>5, <2>15
        <3>5. MetaMoves(q, s, u) /\ NextsKept
            BY <2>10, <2>16, <3>3, <3>4, MetaPut
        <3> QED
            BY <2>2, <2>4, <2>12, <3>1, <3>5
    <2>18. LeasesStay(c)
        BY <2>1, <2>9 DEF LeasesStay, LeaseOwnsMessage, LeaseCurrent
    <2>19. \E x \in msgExpiry : x.ref = c /\ x.due <= now
        BY <1>1, <2>9
    <2>20. \E x \in Message :
            \E reason \in {"max_attempts", "terminal_nack",
                           "max_lease_lifetime", "ttl"} :
             /\ x.body = msgs[c].body /\ x.ttlAt = msgs[c].ttlAt
             /\ dlq' = DeadLetters(c, x, reason) /\ acked' = acked
             /\ reason = "ttl" =>
                   \E y \in msgExpiry : y.ref = c /\ y.due <= now
        BY <2>2, <2>9, <2>19 DEF history
    <2>21. Leaves(c)
        BY <2>1, <2>9, <2>17, <2>18, <2>20 DEF Leaves, history
    <2> QED
        BY <2>21 DEF Stays
<1> QED
    BY <1>2, <1>3

\* Pausing a group, configuring one, issuing a token: no message moves.
LEMMA RowOpsMove ==
    ASSUME QueueInv,
           \/ \E l \in LeaseIds : IssueToken(l)
           \/ \E q \in Queues : \E p \in BOOLEAN : SetPaused(q, p)
           \/ \E q \in Queues : GroupConfig(q)
    PROVE  Stays
<1> USE DEF QueueInv
<1>1. ASSUME NEW l \in LeaseIds, IssueToken(l) PROVE Stays
    <2>1. /\ UNCHANGED <<msgs, meta, dlq, history, readyAt, msgExpiry>>
        BY <1>1 DEF IssueToken, timers
    <2>2. \A j \in LeaseIds : leases'[j].live =>
             /\ leases[j].live
             /\ leases'[j].key = leases[j].key /\ leases'[j].body = leases[j].body
        BY <1>1, RowKinds DEF IssueToken, LeaseRow, TypeOK
    <2>3. Rests
        BY <2>1, <2>2 DEF Rests, NextsKept, ReadMeta, LoadGroupMeta, history
    <2> QED
        BY <2>3 DEF Stays
<1>2. ASSUME NEW q \in Queues, NEW h \in GroupMeta,
             UNCHANGED <<msgs, leases, dlq, history, readyAt, msgExpiry>>,
             meta' = [meta EXCEPT ![q] = h], h.next = LoadGroupMeta(q).next,
             h.ready = ReadMeta(q).ready, h.delayed = ReadMeta(q).delayed,
             h.inflight = ReadMeta(q).inflight, h.total = ReadMeta(q).total
      PROVE  Stays
    <2>1. meta'[q] = h /\ h.exists /\ \A p \in Queues : p # q => meta'[p] = meta[p]
        BY <1>2 DEF TypeOK, GroupMeta
    <2>2. ReadMeta(q)' = h /\ LoadGroupMeta(q)' = h
        BY <2>1 DEF ReadMeta, LoadGroupMeta
    <2>3. ASSUME NEW p \in Queues, p # q
          PROVE  ReadMeta(p)' = ReadMeta(p) /\ LoadGroupMeta(p)' = LoadGroupMeta(p)
        BY <2>1, <2>3 DEF ReadMeta, LoadGroupMeta
    <2>4. Rests
        <3>1. NextsKept
            BY <1>2, <2>2, <2>3 DEF NextsKept
        <3>2. ASSUME NEW p \in Queues
              PROVE  /\ ReadMeta(p)'.ready = ReadMeta(p).ready
                     /\ ReadMeta(p)'.delayed = ReadMeta(p).delayed
                     /\ ReadMeta(p)'.inflight = ReadMeta(p).inflight
                     /\ ReadMeta(p)'.total = ReadMeta(p).total
            BY <1>2, <2>2, <2>3
        <3> QED
            BY <1>2, <3>1, <3>2 DEF Rests, history
    <2> QED
        BY <2>4 DEF Stays
<1>3. ASSUME NEW q \in Queues, NEW p \in BOOLEAN, SetPaused(q, p) PROVE Stays
    <2>1. meta[q].exists /\ meta[q] \in GroupMeta
        BY <1>3, RowKinds DEF SetPaused
    <2>2. PICK h : h = [meta[q] EXCEPT !.paused = p]
        OBVIOUS
    <2>3. /\ h \in GroupMeta /\ h.next = meta[q].next /\ h.ready = meta[q].ready
          /\ h.delayed = meta[q].delayed /\ h.inflight = meta[q].inflight
          /\ h.total = meta[q].total
        BY <2>1, <2>2 DEF GroupMeta
    <2>4. meta' = [meta EXCEPT ![q] = h]
        BY <1>3, <2>2 DEF SetPaused
    <2>5. UNCHANGED <<msgs, leases, dlq, history, readyAt, msgExpiry>>
        BY <1>3 DEF SetPaused, timers
    <2>6. ReadMeta(q) = meta[q] /\ LoadGroupMeta(q) = meta[q]
        BY <2>1 DEF ReadMeta, LoadGroupMeta
    <2> QED
        BY <1>2, <2>3, <2>4, <2>5, <2>6
<1>4. ASSUME NEW q \in Queues, GroupConfig(q) PROVE Stays
    <2>1. ~meta[q].exists /\ meta' = [meta EXCEPT ![q] = FreshMeta]
        BY <1>4 DEF GroupConfig
    <2>2. UNCHANGED <<msgs, leases, dlq, history, readyAt, msgExpiry>>
        BY <1>4 DEF GroupConfig, timers
    <2>3. ReadMeta(q) = ZeroMeta /\ LoadGroupMeta(q) = FreshMeta
        BY <2>1 DEF ReadMeta, LoadGroupMeta
    <2>4. PICK h : h = FreshMeta
        OBVIOUS
    <2>5. /\ h \in GroupMeta /\ h.ready = ZeroMeta.ready
          /\ h.delayed = ZeroMeta.delayed /\ h.inflight = ZeroMeta.inflight
          /\ h.total = ZeroMeta.total
        BY <2>4 DEF FreshMeta, ZeroMeta, GroupMeta
    <2> QED
        BY <1>2, <2>1, <2>2, <2>3, <2>4, <2>5
<1> QED
    BY <1>1, <1>3, <1>4

\* Every step without a teardown brings a message in or moves those there.
LEMMA StepSorts ==
    ASSUME NoTeardown, QueueInv, [Next]_vars
    PROVE  \/ \E q \in Queues : \E r \in PublishReq : Publish(q, r)
           \/ "redrive" \in AdminOps /\ \E row \in dlq : Redrive(row)
           \/ Stays
<1>1. CASE UNCHANGED vars \/ Tick
    BY <1>1, QuietRests DEF vars, Tick, store, timers
<1>2. CASE ClientNext
    <2>1. ASSUME NEW q \in Queues, Pick(q) \/ LeaseEmpty(q) PROVE Stays
        BY <2>1, QuietRests DEF Pick, LeaseEmpty, store, timers
    <2>2. ASSUME NEW l \in LeaseIds, Ack(l) PROVE Stays
        <3>1. PICK tok : tok = DeleteLeaseToken(l)
            OBVIOUS
        <3> QED
            BY <2>2, <3>1, AckMoves DEF Ack
    <2>3. ASSUME NEW l \in LeaseIds, NEW d \in Delays,
                 NackRetry(l, d) \/ NackRequeue(l, d) \/ Extend(l, d)
          PROVE  Stays
        <3>1. d \in Nat
            BY BrokerAssumption
        <3>2. PICK tok : tok = DeleteLeaseToken(l)
            OBVIOUS
        <3>3. CASE NackRetry(l, d)
            <4>1. NackRetryLease(l, d, tok) /\ leases[l].live
                BY <3>2, <3>3 DEF NackRetry, NackRetryLease
            <4> QED
                BY <3>1, <4>1, NackRetryMoves
        <3> QED
            BY <2>3, <3>1, <3>3, NackRequeueMoves, ExtendMoves
    <2>4. ASSUME NEW t \in TokenIds, NEW ok \in BOOLEAN, NEW d \in Delays,
                 Complete(t, ok, d)
          PROVE  Stays
        BY <2>4, CompleteMoves, BrokerAssumption
    <2> QED
        BY <1>2, <2>1, <2>2, <2>3, <2>4, LeaseMoves, RowOpsMove,
           NackDeadLetterMoves DEF ClientNext
<1>3. CASE SweepNext
    <2>1. ASSUME NEW t \in dedupExpiry, FireDedupExpiry(t) PROVE Stays
        BY <2>1, QuietRests DEF FireDedupExpiry
    <2> QED
        BY <1>3, <2>1, FireReadyAtMoves, FireLeaseDeadlineMoves,
           FireLeaseMaxLifeMoves, FireMsgExpiryMoves DEF SweepNext
<1>4. CASE ReapNext
    <2>1. ASSUME NEW q \in Queues, ReapSweep(q) PROVE Stays
        BY <2>1, QuietRests DEF ReapSweep, store, timers
    <2>2. ASSUME NEW q \in Queues, ReapGroup(q) PROVE Stays
        <3>1. CASE StillDrained(q)
            <4>1. MayReap /\ Reaps(q)
                BY <2>2, <3>1 DEF ReapGroup, StillDrained, Reaps, MayReap
            <4> QED
                BY <4>1 DEF Stays
        <3>2. CASE ~StillDrained(q)
            BY <2>2, <3>2, QuietRests DEF ReapGroup, timers
        <3> QED
            BY <3>1, <3>2
    <2> QED
        BY <1>4, <2>1, <2>2 DEF ReapNext
<1>5. CASE AdminNext
    <2>1. ASSUME NEW q \in Queues, Purge(q) PROVE Stays
        BY <2>1 DEF Stays
    <2>2. ASSUME NEW q \in Queues, "reap" \in AdminOps, ReapNow(q) PROVE Stays
        <3>1. MayReap /\ Reaps(q)
            BY <2>2 DEF ReapNow, StillDrained, Reaps, MayReap
        <3> QED
            BY <3>1 DEF Stays
    <2> QED
        BY <1>5, <2>1, <2>2, RowOpsMove DEF AdminNext, NoTeardown
<1> QED
    BY <1>1, <1>2, <1>3, <1>4, <1>5 DEF Next

\* Every step without a teardown is one of the moves.
LEMMA StepMoves ==
    ASSUME NoTeardown, QueueInv, [Next]_vars
    PROVE  Moves
BY StepSorts, PublishMoves, RedriveMoves DEF Moves

\* The queue starts empty, with every counter at zero.
LEMMA QueueInit == Init => QueueInv
<1> SUFFICES ASSUME Init PROVE QueueInv
    OBVIOUS
<1>1. TypeOK
    BY InitType
<1>2. PICK M : M = msgs
    OBVIOUS
<1>3. ASSUME NEW q \in Queues
      PROVE  Tally(msgs, q, ReadMeta(q))
    <2>1. \A i \in MsgIds : <<q, i>> \in Keys
        BY DEF Keys
    <2>2. /\ InState(msgs, q, "READY") = {} /\ InState(msgs, q, "DELAYED") = {}
          /\ InState(msgs, q, "LEASED") = {}
        BY <2>1 DEF Init, InState, NoMessage
    <2>3. ReadMeta(q) = ZeroMeta
        <3>1. meta[q] = NoMeta /\ ~NoMeta.exists
            BY DEF Init, NoMeta
        <3> QED
            BY <3>1 DEF ReadMeta
    <2>4. /\ ZeroMeta.ready = 0 /\ ZeroMeta.delayed = 0
          /\ ZeroMeta.inflight = 0 /\ ZeroMeta.total = 0
        BY DEF ZeroMeta, FreshMeta
    <2> QED
        BY <2>2, <2>3, <2>4, FS_EmptySet DEF Tally, CountIn
<1>4. Fresh
    BY DEF Init, Fresh
<1>5. LeaseOwnsMessage
    BY DEF Init, LeaseOwnsMessage, NoLease
<1> QED
    BY <1>1, <1>3, <1>4, <1>5 DEF QueueInv, Exact

\* Every step without teardown keeps the queue's invariant, move by move.
LEMMA QueueStep ==
    ASSUME NoTeardown
    PROVE  QueueInv /\ [Next]_vars => QueueInv'
<1> SUFFICES ASSUME QueueInv, [Next]_vars PROVE QueueInv'
    OBVIOUS
<1>1. TypeOK'
    BY NextType DEF QueueInv
<1>2. Moves
    BY StepMoves
<1>3. Exact' /\ Fresh' /\ LeaseOwnsMessage'
    BY <1>2, ArrivesQueue, TurnsQueue, LeavesQueue, PurgeQueue, ReapsQueue, RestsQueue
    DEF Moves, Stays
<1> QED
    BY <1>1, <1>3 DEF QueueInv

\* The counters that the scheduler and the reaper trust are exact after any
\* sequence of commands without a teardown, reaps and operators' reaps included.
THEOREM CountersStayExact ==
    ASSUME NoTeardown
    PROVE  Spec => []CountersExact
<1>1. Init => QueueInv
    BY QueueInit
<1>2. QueueInv /\ [Next]_vars => QueueInv'
    BY QueueStep
<1>3. QueueInv => CountersExact
    BY ExactCounters DEF QueueInv
<1> QED
    BY <1>1, <1>2, <1>3, PTL DEF Spec

\* A live lease owns its message as long as no group is torn down: an ack or a
\* nack settles the payload its worker was given, and no other.
THEOREM LeasesOwnTheirMessages ==
    ASSUME NoTeardown
    PROVE  Spec => []LeaseOwnsMessage
<1>1. Init => QueueInv
    BY QueueInit
<1>2. QueueInv /\ [Next]_vars => QueueInv'
    BY QueueStep
<1>3. QueueInv => LeaseOwnsMessage
    BY DEF QueueInv
<1> QED
    BY <1>1, <1>2, <1>3, PTL DEF Spec


-----------------------------------------------------------------------------
(* A payload is in one place.  Apart is NoMessageForked row by row; the    *)
(* next publish brings a payload no row has because all known ones are at  *)
(* or below the count of publishes.                                        *)

Queued(k) == msgs[k].state # "NONE"

Apart ==
    /\ \A j, k \in Keys : Queued(j) /\ Queued(k) /\ msgs[j].body = msgs[k].body => j = k
    /\ \A r, s \in dlq : r.body = s.body => r = s
    /\ \A k \in Keys : Queued(k) =>
          msgs[k].body \notin acked /\ \A r \in dlq : r.body # msgs[k].body
    /\ \A r \in dlq : r.body \notin acked

BodiesKnown ==
    /\ \A k \in Keys : Queued(k) => msgs[k].body <= published
    /\ \A r \in dlq : r.body <= published
    /\ \A b \in acked : b <= published

ForkInv == QueueInv /\ Apart /\ BodiesKnown

\* Apart says no less than NoMessageForked.
LEMMA ApartForked == Apart => NoMessageForked
<1> SUFFICES ASSUME Apart PROVE NoMessageForked
    OBVIOUS
<1>1. \A b \in BodiesQueued : \E k \in Keys : Queued(k) /\ b = msgs[k].body
    BY DEF BodiesQueued, Queued
<1>2. BodiesQueued \cap {r.body : r \in dlq} = {}
    BY <1>1 DEF Apart
<1>3. (BodiesQueued \cup {r.body : r \in dlq}) \cap acked = {}
    BY <1>1 DEF Apart
<1> QED
    BY <1>2, <1>3 DEF NoMessageForked, Apart, Queued

\* The rows a step may leave: old ones, or moved within what was known.
LEMMA ApartKept ==
    ASSUME Apart, BodiesKnown, published' = published,
           \A k \in Keys : Queued(k)' => Queued(k) /\ msgs'[k].body = msgs[k].body,
           dlq' \subseteq dlq, acked' = acked
    PROVE  Apart' /\ BodiesKnown'
<1>1. ASSUME NEW j \in Keys, NEW k \in Keys, Queued(j)', Queued(k)',
             msgs'[j].body = msgs'[k].body
      PROVE  j = k
    BY <1>1 DEF Apart
<1>2. ASSUME NEW k \in Keys, Queued(k)'
      PROVE  /\ msgs'[k].body \notin acked' /\ msgs'[k].body <= published'
             /\ \A r \in dlq' : r.body # msgs'[k].body
    BY <1>2 DEF Apart, BodiesKnown
<1>3. /\ \A r, s \in dlq' : r.body = s.body => r = s
      /\ \A r \in dlq' : r.body \notin acked' /\ r.body <= published'
      /\ \A b \in acked' : b <= published'
    BY DEF Apart, BodiesKnown
<1> QED
    BY <1>1, <1>2, <1>3 DEF Apart, BodiesKnown

\* A message that comes in has a new payload, or that of the dead letter that goes.
LEMMA ArrivesApart ==
    ASSUME ForkInv, NEW k \in Keys, NEW m \in Message, Arrives(k, m)
    PROVE  Apart' /\ BodiesKnown'
<1> USE DEF ForkInv
<1>1. msgs' = [msgs EXCEPT ![k] = m] /\ acked' = acked /\ m.state # "NONE"
    BY DEF Arrives, ComesIn
<1>2. \A j \in Keys : j # k => msgs'[j] = msgs[j]
    BY <1>1
<1>3. msgs'[k] = m
    BY <1>1 DEF QueueInv, TypeOK
<1>4. published \in Nat /\ acked \subseteq Nat /\ (\A r \in dlq : r.body \in Nat)
      /\ \A j \in Keys : Queued(j) => msgs[j].body \in Nat
    BY BrokerAssumption, RowKinds DEF QueueInv, TypeOK, Message, DeadRow, Bodies, Queued
<1>5. /\ dlq' \subseteq dlq /\ published' \in Nat /\ published <= published'
      /\ m.body <= published' /\ m.body \notin acked
      /\ \A j \in Keys : Queued(j) => msgs[j].body # m.body
      /\ \A r \in dlq' : r.body # m.body
    <2>1. CASE published' = published + 1 /\ m.body = published + 1 /\ dlq' = dlq
        <3>1. \A b \in Nat : b <= published => b # published + 1
            BY <1>4
        <3>2. /\ \A b \in acked : b # m.body
              /\ \A j \in Keys : Queued(j) => msgs[j].body # m.body
              /\ \A r \in dlq : r.body # m.body
            BY <1>4, <2>1, <3>1 DEF BodiesKnown
        <3>3. published' \in Nat /\ published <= published' /\ m.body <= published'
            BY <1>4, <2>1
        <3> QED
            BY <2>1, <3>2, <3>3
    <2>2. ASSUME NEW row \in dlq, dlq' = dlq \ {row}, m.body = row.body,
                 published' = published
          PROVE  /\ dlq' \subseteq dlq /\ published' \in Nat /\ published <= published'
                 /\ m.body <= published' /\ m.body \notin acked
                 /\ \A j \in Keys : Queued(j) => msgs[j].body # m.body
                 /\ \A r \in dlq' : r.body # m.body
        BY <1>4, <2>2 DEF Apart, BodiesKnown
    <2> QED
        BY <2>1, <2>2 DEF Arrives
<1>6. ASSUME NEW x \in Keys, NEW y \in Keys, Queued(x)', Queued(y)',
             msgs'[x].body = msgs'[y].body
      PROVE  x = y
    <2>1. CASE x # k /\ y # k
        BY <1>2, <1>6, <2>1 DEF Apart, Queued
    <2>2. CASE x = k /\ y # k
        BY <1>2, <1>3, <1>5, <1>6, <2>2 DEF Queued
    <2>3. CASE x # k /\ y = k
        BY <1>2, <1>3, <1>5, <1>6, <2>3 DEF Queued
    <2> QED
        BY <2>1, <2>2, <2>3
<1>7. ASSUME NEW x \in Keys, Queued(x)'
      PROVE  /\ msgs'[x].body \notin acked' /\ msgs'[x].body <= published'
             /\ \A r \in dlq' : r.body # msgs'[x].body
    <2>1. CASE x = k
        BY <1>1, <1>3, <1>5, <2>1
    <2>2. CASE x # k
        <3>1. msgs'[x] = msgs[x] /\ Queued(x)
            BY <1>2, <1>7, <2>2 DEF Queued
        <3>2. msgs[x].body <= published /\ msgs[x].body \in Nat
            BY <1>4, <3>1 DEF BodiesKnown
        <3>3. msgs[x].body <= published'
            BY <1>4, <1>5, <3>2
        <3> QED
            BY <1>1, <1>5, <3>1, <3>3 DEF Apart
    <2> QED
        BY <2>1, <2>2
<1>8. /\ \A r, s \in dlq' : r.body = s.body => r = s
      /\ \A r \in dlq' : r.body \notin acked'
    BY <1>1, <1>5 DEF Apart
<1>9. \A b \in Nat : b <= published => b <= published'
    BY <1>4, <1>5
<1>10. (\A r \in dlq' : r.body <= published') /\ (\A b \in acked' : b <= published')
    BY <1>1, <1>4, <1>5, <1>9 DEF BodiesKnown
<1> QED
    BY <1>6, <1>7, <1>8, <1>10 DEF Apart, BodiesKnown

\* A message that goes is acked or becomes a dead letter, not both.
LEMMA LeavesApart ==
    ASSUME ForkInv, NEW k \in Keys, Leaves(k)
    PROVE  Apart' /\ BodiesKnown'
<1> USE DEF ForkInv
<1>1. msgs' = [msgs EXCEPT ![k] = NoMessage] /\ Queued(k) /\ published' = published
    BY DEF Leaves, Queued
<1>2. \A j \in Keys : j # k => msgs'[j] = msgs[j]
    BY <1>1
<1>3. \A j \in Keys : Queued(j)' => j # k /\ Queued(j) /\ msgs'[j].body = msgs[j].body
    <2>1. msgs'[k].state = "NONE"
        BY <1>1 DEF QueueInv, TypeOK, NoMessage
    <2> QED
        BY <1>2, <2>1 DEF Queued
<1>4. PICK b : b = msgs[k].body
    OBVIOUS
<1>5. /\ \A j \in Keys : Queued(j)' => msgs[j].body # b
      /\ b \notin acked /\ b <= published /\ \A r \in dlq : r.body # b
    BY <1>1, <1>3, <1>4 DEF Apart, BodiesKnown
<1>6. \/ acked' = acked \cup {b} /\ dlq' = dlq
      \/ /\ acked' = acked
         /\ \E row : row.body = b /\ dlq' \subseteq dlq \cup {row}
    <2>1. ASSUME NEW m \in Message, NEW reason, m.body = b,
                 dlq' = DeadLetters(k, m, reason)
          PROVE  \E row : row.body = b /\ dlq' \subseteq dlq \cup {row}
        <3>1. PICK row : row = [key |-> k, deadAt |-> now, body |-> m.body, max |-> m.max,
                token |-> m.token, attempt |-> m.attempt, ttlAt |-> m.ttlAt,
                reason |-> reason]
            OBVIOUS
        <3>2. row.body = b /\ dlq' \subseteq dlq \cup {row}
            BY <2>1, <3>1 DEF DeadLetters
        <3> QED
            BY <3>2
    <2> QED
        BY <1>4, <2>1 DEF Leaves
<1>7. CASE acked' = acked \cup {b} /\ dlq' = dlq
    BY <1>1, <1>3, <1>5, <1>7 DEF Apart, BodiesKnown
<1>8. ASSUME acked' = acked, NEW row, row.body = b, dlq' \subseteq dlq \cup {row}
      PROVE  Apart' /\ BodiesKnown'
    BY <1>1, <1>3, <1>5, <1>8 DEF Apart, BodiesKnown
<1> QED
    BY <1>6, <1>7, <1>8

\* Every step without teardown keeps a body in one message.
LEMMA ForkStep ==
    ASSUME NoTeardown
    PROVE  ForkInv /\ [Next]_vars => ForkInv'
<1> SUFFICES ASSUME ForkInv, [Next]_vars PROVE ForkInv'
    OBVIOUS
<1>1. QueueInv' /\ Moves
    BY QueueStep, StepMoves DEF ForkInv
<1>2. ASSUME NEW k \in Keys, NEW m \in Message, Turns(k, m)
      PROVE  Apart' /\ BodiesKnown'
    <2>1. /\ msgs' = [msgs EXCEPT ![k] = m] /\ Queued(k) /\ m.body = msgs[k].body
          /\ dlq' = dlq /\ acked' = acked /\ published' = published
        BY <1>2 DEF Turns, Queued, history
    <2>2. \A j \in Keys : Queued(j)' => Queued(j) /\ msgs'[j].body = msgs[j].body
        BY <2>1 DEF Queued, ForkInv, QueueInv, TypeOK
    <2> QED
        BY <2>1, <2>2, ApartKept DEF ForkInv
<1>3. ASSUME NEW q \in Queues, Purge(q) \/ Reaps(q)
      PROVE  Apart' /\ BodiesKnown'
    <2>1. dlq' = dlq /\ acked' = acked /\ published' = published
        BY <1>3 DEF Purge, DropLeasable, Reaps, history
    <2>2. \A j \in Keys : Queued(j)' => Queued(j) /\ msgs'[j].body = msgs[j].body
        BY <1>3 DEF Purge, DropLeasable, Reaps, Queued, NoMessage
    <2> QED
        BY <2>1, <2>2, ApartKept DEF ForkInv
<1>4. ASSUME Rests PROVE Apart' /\ BodiesKnown'
    BY <1>4, ApartKept DEF ForkInv, Rests, Queued
<1> QED
    BY <1>1, <1>2, <1>3, <1>4, ArrivesApart, LeavesApart DEF Moves, Stays, ForkInv

\* Retries, reclaims, dead letters, redrives and reaps never fork a message, as
\* long as no group is torn down: its payload is in one row, and in none once acked.
THEOREM NeverForked ==
    ASSUME NoTeardown
    PROVE  Spec => []NoMessageForked
<1>1. Init => ForkInv
    BY QueueInit DEF Init, ForkInv, Apart, BodiesKnown, Queued, NoMessage
<1>2. ForkInv /\ [Next]_vars => ForkInv'
    BY ForkStep
<1>3. ForkInv => NoMessageForked
    BY ApartForked DEF ForkInv
<1> QED
    BY <1>1, <1>2, <1>3, PTL DEF Spec


-----------------------------------------------------------------------------
(* Where ids are not used again, because groups are neither torn down nor  *)
(* reaped, a row that outlives its message (a dead letter, the rows of its *)
(* time-to-live and of its delays) never meets another message of its key. *)

NoReuse == NoTeardown /\ "reap" \notin AdminOps /\ IdleReap = 0

\* The id of the key has been given.
Given(k) == k[2] < LoadGroupMeta(k[1]).next

DeadUsed == \A r \in dlq : Given(r.key) /\ ~Queued(r.key)

TtlUsed ==
    \A t \in msgExpiry :
        Given(t.ref) /\ (Queued(t.ref) => msgs[t.ref].ttlAt = t.due /\ t.due > 0)

\* A row of an earlier delay has an older epoch.
ReadyUsed ==
    \A t \in readyAt :
        /\ Given(t.ref)
        /\ Queued(t.ref) =>
              /\ t.epoch <= msgs[t.ref].epoch
              /\ t.epoch = msgs[t.ref].epoch /\ msgs[t.ref].state = "DELAYED"
                    => msgs[t.ref].due = t.due

Accounted(b) ==
    \/ \E k \in Keys : Queued(k) /\ msgs[k].body = b
    \/ b \in acked \/ b \in dropped
    \/ \E r \in dlq : r.body = b

AllAccounted == \A b \in 1..published : Accounted(b)

IdInv ==
    /\ QueueInv /\ reapCmds = {}
    /\ DeadUsed /\ TtlUsed /\ ReadyUsed /\ TtlHonest /\ AllAccounted

\* AllAccounted is what NoMessageLost says.
LEMMA AccountedLost == AllAccounted => NoMessageLost
BY DEF AllAccounted, Accounted, NoMessageLost, BodiesQueued, Queued

\* A message has an id that was given.
LEMMA QueuedGiven ==
    ASSUME QueueInv, NEW k \in Keys, Queued(k)
    PROVE  Given(k)
<1>1. k[1] \in Queues /\ k[2] \in Nat
    BY KeyParts, BrokerAssumption DEF MsgIds
<1>2. LoadGroupMeta(k[1]).next \in Nat
    BY <1>1, NextNat DEF QueueInv
<1>3. ~(k[2] >= LoadGroupMeta(k[1]).next)
    BY DEF QueueInv, Fresh, Queued, NoMessage
<1> QED
    BY <1>1, <1>2, <1>3 DEF Given

\* Ids that were given stay so while the counters of ids do not fall.
LEMMA GivenKept ==
    ASSUME NextsKept, NEW k \in Keys, Given(k)
    PROVE  Given(k)'
BY KeyParts DEF NextsKept, Given

\* The keys of the rows are keys.
LEMMA RowKeys ==
    ASSUME TypeOK
    PROVE  /\ \A r \in dlq : r.key \in Keys /\ r \in DeadRow
           /\ \A t \in msgExpiry : t.ref \in Keys /\ t.due \in Nat
           /\ \A t \in readyAt : t.ref \in Keys /\ t.epoch \in Nat /\ t.due \in Nat
BY DEF TypeOK, DeadRow, Timer

\* No reap is proposed or committed.
LEMMA NoReapStep ==
    ASSUME NoReuse, reapCmds = {}, [Next]_vars
    PROVE  reapCmds' = {}
<1>1. CASE UNCHANGED vars \/ Tick
    BY <1>1 DEF vars, Tick
<1>2. CASE ClientNext
    <2>1. ASSUME NEW q \in Queues, \/ \E r \in PublishReq : Publish(q, r)
                                   \/ Pick(q) \/ LeaseEmpty(q)
                                   \/ \E i \in MsgIds : Lease(q, i)
          PROVE  reapCmds' = reapCmds
        BY <2>1 DEF Publish, Pick, LeaseEmpty, Lease
    <2>2. ASSUME NEW l, NEW tok, NEW d, AckLease(l, tok) \/ NackRetryLease(l, d, tok)
          PROVE  reapCmds' = reapCmds
        BY <2>2 DEF AckLease, NackRetryLease, EndLease
    <2>3. ASSUME NEW l \in LeaseIds,
                 \/ IssueToken(l) \/ Ack(l) \/ NackDeadLetter(l)
                 \/ \E d \in Delays : NackRetry(l, d)
                 \/ \E d \in Delays : NackRequeue(l, d)
                 \/ \E d \in Delays : Extend(l, d)
          PROVE  reapCmds' = reapCmds
        BY <2>3 DEF IssueToken, Ack, AckLease, NackDeadLetter, EndLease, NackRetry,
                    NackRetryLease, NackRequeue, Extend
    <2>4. ASSUME NEW t \in TokenIds, NEW ok \in BOOLEAN, NEW d \in Delays,
                 Complete(t, ok, d)
          PROVE  reapCmds' = reapCmds
        BY <2>4 DEF Complete, AckLease, NackRetryLease, EndLease
    <2> QED
        BY <1>2, <2>1, <2>3, <2>4 DEF ClientNext
<1>3. CASE SweepNext
    BY <1>3 DEF SweepNext, FireReadyAt, FireLeaseDeadline, FireLeaseMaxLife,
                FireMsgExpiry, FireDedupExpiry
<1>4. CASE ReapNext
    BY <1>4 DEF ReapNext, ReapSweep, ReapGroup, NoReuse
<1>5. CASE AdminNext
    BY <1>5 DEF AdminNext, Redrive, Purge, DropLeasable, SetPaused, GroupConfig,
                NoReuse, NoTeardown
<1> QED
    BY <1>1, <1>2, <1>3, <1>4, <1>5 DEF Next

\* A message that comes in has an id of its own.
LEMMA ArrivesUsed ==
    ASSUME IdInv, NEW k \in Keys, NEW m \in Message, Arrives(k, m)
    PROVE  DeadUsed' /\ TtlUsed' /\ ReadyUsed' /\ TtlHonest' /\ AllAccounted'
<1> USE DEF IdInv
<1>1. /\ msgs' = [msgs EXCEPT ![k] = m] /\ m.state # "NONE" /\ m.epoch = 0
      /\ k[2] = LoadGroupMeta(k[1]).next /\ LoadGroupMeta(k[1])'.next = k[2] + 1
      /\ \A p \in Queues : p # k[1] => meta'[p] = meta[p]
      /\ NewRows(readyAt, readyAt', k, 0, m.due)
      /\ \A t \in msgExpiry' :
            t \in msgExpiry \/ (t.ref = k /\ t.due = m.ttlAt /\ t.due > 0)
      /\ UNCHANGED <<acked, dropped>>
    BY DEF Arrives, ComesIn, MetaMoves
<1>2. msgs'[k] = m /\ \A j \in Keys : j # k => msgs'[j] = msgs[j]
    BY <1>1 DEF QueueInv, TypeOK
<1>3. k[1] \in Queues /\ k[2] \in Nat
    BY KeyParts, BrokerAssumption DEF MsgIds
<1>4. ~Given(k) /\ Given(k)' /\ ~Queued(k)
    <2>1. ~Given(k) /\ Given(k)'
        BY <1>1, <1>3 DEF Given
    <2> QED
        BY <2>1, QueuedGiven
<1>5. ASSUME NEW j \in Keys, Given(j) PROVE Given(j)' /\ j # k
    <2>1. j[1] \in Queues /\ j[2] \in Nat
        BY KeyParts, BrokerAssumption DEF MsgIds
    <2>2. CASE j[1] = k[1]
        BY <1>1, <1>3, <1>4, <1>5, <2>1, <2>2 DEF Given
    <2>3. CASE j[1] # k[1]
        <3>1. LoadGroupMeta(j[1])' = LoadGroupMeta(j[1])
            BY <1>1, <2>1, <2>3 DEF LoadGroupMeta
        <3> QED
            BY <1>5, <2>3, <3>1 DEF Given
    <2> QED
        BY <2>2, <2>3
<1>6. dlq' \subseteq dlq
    BY DEF Arrives
<1>7. DeadUsed'
    <2> SUFFICES ASSUME NEW r \in dlq' PROVE Given(r.key)' /\ ~Queued(r.key)'
        BY DEF DeadUsed
    <2>1. PICK j \in Keys : j = r.key
        BY <1>6, RowKeys DEF QueueInv
    <2>2. Given(j) /\ ~Queued(j)
        BY <1>6, <2>1 DEF DeadUsed
    <2>3. Given(j)' /\ ~Queued(j)'
        BY <1>2, <1>5, <2>2 DEF Queued
    <2> QED
        BY <2>1, <2>3
<1>8. TtlUsed'
    <2> SUFFICES ASSUME NEW t \in msgExpiry'
                 PROVE  /\ Given(t.ref)'
                        /\ Queued(t.ref)' => msgs'[t.ref].ttlAt = t.due /\ t.due > 0
        BY DEF TtlUsed
    <2>1. CASE t \in msgExpiry
        <3>1. PICK j \in Keys : j = t.ref
            BY <2>1, RowKeys DEF QueueInv
        <3>2. Given(j) /\ (Queued(j) => msgs[j].ttlAt = t.due /\ t.due > 0)
            BY <2>1, <3>1 DEF TtlUsed
        <3>3. Given(j)' /\ msgs'[j] = msgs[j]
            BY <1>2, <1>5, <3>2
        <3> QED
            BY <3>1, <3>2, <3>3 DEF Queued
    <2>2. CASE t.ref = k /\ t.due = m.ttlAt /\ t.due > 0
        BY <1>2, <1>4, <2>2
    <2> QED
        BY <1>1, <2>1, <2>2
<1>9. ReadyUsed'
    <2> SUFFICES ASSUME NEW t \in readyAt'
                 PROVE  /\ Given(t.ref)'
                        /\ Queued(t.ref)' =>
                             /\ t.epoch <= msgs'[t.ref].epoch
                             /\ t.epoch = msgs'[t.ref].epoch
                                /\ msgs'[t.ref].state = "DELAYED"
                                   => msgs'[t.ref].due = t.due
        BY DEF ReadyUsed
    <2>1. CASE t \in readyAt
        <3>1. PICK j \in Keys : j = t.ref
            BY <2>1, RowKeys DEF QueueInv
        <3>2. /\ Given(j)
              /\ Queued(j) => /\ t.epoch <= msgs[j].epoch
                              /\ t.epoch = msgs[j].epoch /\ msgs[j].state = "DELAYED"
                                    => msgs[j].due = t.due
            BY <2>1, <3>1 DEF ReadyUsed
        <3>3. Given(j)' /\ msgs'[j] = msgs[j]
            BY <1>2, <1>5, <3>2
        <3> QED
            BY <3>1, <3>2, <3>3 DEF Queued
    <2>2. CASE t.ref = k /\ t.epoch = 0 /\ t.due = m.due
        BY <1>1, <1>2, <1>4, <2>2
    <2> QED
        BY <1>1, <2>1, <2>2 DEF NewRows
<1>10. TtlHonest'
    BY <1>6 DEF TtlHonest
<1>11. AllAccounted'
    <2> SUFFICES ASSUME NEW b \in 1..published' PROVE Accounted(b)'
        BY DEF AllAccounted
    <2>1. CASE b = m.body
        BY <1>1, <1>2, <2>1 DEF Accounted, Queued
    <2>2. CASE b # m.body
        <3>1. b \in 1..published
            <4>1. \/ published' = published + 1 /\ m.body = published + 1
                  \/ published' = published
                BY DEF Arrives
            <4>2. published \in Nat
                BY DEF QueueInv, TypeOK
            <4> QED
                BY <2>2, <4>1, <4>2
        <3>2. \A r \in dlq : r.body = b => r \in dlq'
            BY <2>2 DEF Arrives
        <3>3. \A j \in Keys : Queued(j) => Queued(j)' /\ msgs'[j] = msgs[j]
            BY <1>2, <1>4 DEF Queued
        <3>4. Accounted(b)
            BY <3>1 DEF AllAccounted
        <3> QED
            BY <1>1, <3>2, <3>3, <3>4 DEF Accounted
    <2> QED
        BY <2>1, <2>2
<1> QED
    BY <1>7, <1>8, <1>9, <1>10, <1>11


\* A message that changes its state gets an epoch newer than its old rows.
LEMMA TurnsUsed ==
    ASSUME IdInv, NEW k \in Keys, NEW m \in Message, Turns(k, m)
    PROVE  DeadUsed' /\ TtlUsed' /\ ReadyUsed' /\ TtlHonest' /\ AllAccounted'
<1> USE DEF IdInv
<1>1. /\ msgs' = [msgs EXCEPT ![k] = m] /\ Queued(k) /\ m.epoch = msgs[k].epoch + 1
      /\ m.body = msgs[k].body /\ m.ttlAt = msgs[k].ttlAt /\ NextsKept
      /\ NewRows(readyAt, readyAt', k, m.epoch, m.due)
      /\ UNCHANGED <<msgExpiry, dlq, published, acked, dropped>>
    BY DEF Turns, Queued, history
<1>2. msgs'[k] = m /\ \A j \in Keys : j # k => msgs'[j] = msgs[j]
    BY <1>1 DEF QueueInv, TypeOK
<1>3. /\ Given(k) /\ m.state # "NONE" /\ msgs[k].epoch \in Nat
    BY <1>1, QueuedGiven, RowKinds DEF QueueInv, Queued, Message
<1>4. \A j \in Keys : /\ Queued(j)' <=> Queued(j)
                      /\ Queued(j) => msgs'[j].body = msgs[j].body
                                      /\ msgs'[j].ttlAt = msgs[j].ttlAt
    BY <1>1, <1>2, <1>3 DEF Queued
<1>5. \A j \in Keys : Given(j) => Given(j)'
    BY <1>1, GivenKept
<1>6. DeadUsed'
    <2> SUFFICES ASSUME NEW r \in dlq PROVE Given(r.key)' /\ ~Queued(r.key)'
        BY <1>1 DEF DeadUsed
    <2>1. PICK j \in Keys : j = r.key
        BY RowKeys DEF QueueInv
    <2>2. Given(j) /\ ~Queued(j)
        BY <2>1 DEF DeadUsed
    <2>3. Given(j)' /\ ~Queued(j)'
        BY <1>4, <1>5, <2>2
    <2> QED
        BY <2>1, <2>3
<1>7. TtlUsed'
    <2> SUFFICES ASSUME NEW t \in msgExpiry
                 PROVE  /\ Given(t.ref)'
                        /\ Queued(t.ref)' => msgs'[t.ref].ttlAt = t.due /\ t.due > 0
        BY <1>1 DEF TtlUsed
    <2>1. PICK j \in Keys : j = t.ref
        BY RowKeys DEF QueueInv
    <2>2. Given(j) /\ (Queued(j) => msgs[j].ttlAt = t.due /\ t.due > 0)
        BY <2>1 DEF TtlUsed
    <2>3. Given(j)' /\ (Queued(j)' => msgs'[j].ttlAt = t.due /\ t.due > 0)
        BY <1>4, <1>5, <2>2
    <2> QED
        BY <2>1, <2>3
<1>8. ReadyUsed'
    <2> SUFFICES ASSUME NEW t \in readyAt'
                 PROVE  /\ Given(t.ref)'
                        /\ Queued(t.ref)' =>
                             /\ t.epoch <= msgs'[t.ref].epoch
                             /\ t.epoch = msgs'[t.ref].epoch
                                /\ msgs'[t.ref].state = "DELAYED"
                                   => msgs'[t.ref].due = t.due
        BY DEF ReadyUsed
    <2>1. CASE t \in readyAt
        <3>1. PICK j \in Keys : j = t.ref
            BY <2>1, RowKeys DEF QueueInv
        <3>2. /\ Given(j) /\ t.epoch \in Nat
              /\ Queued(j) => /\ t.epoch <= msgs[j].epoch
                              /\ t.epoch = msgs[j].epoch /\ msgs[j].state = "DELAYED"
                                    => msgs[j].due = t.due
            BY <2>1, <3>1, RowKeys DEF ReadyUsed, QueueInv
        <3>3. Given(j)'
            BY <1>5, <3>2
        <3>4. CASE j # k
            BY <1>2, <3>1, <3>2, <3>3, <3>4 DEF Queued
        <3>5. CASE j = k
            <4>1. t.epoch <= msgs[k].epoch
                BY <1>1, <3>2, <3>5
            <4>2. t.epoch <= m.epoch /\ t.epoch # m.epoch
                BY <1>1, <1>3, <3>2, <4>1
            <4> QED
                BY <1>2, <3>1, <3>3, <3>5, <4>2
        <3> QED
            BY <3>4, <3>5
    <2>2. CASE t.ref = k /\ t.epoch = m.epoch /\ t.due = m.due
        <3>1. Given(k)' /\ m.epoch <= m.epoch
            BY <1>1, <1>3, <1>5
        <3> QED
            BY <1>2, <2>2, <3>1
    <2> QED
        BY <1>1, <2>1, <2>2 DEF NewRows
<1>9. TtlHonest'
    BY <1>1 DEF TtlHonest
<1>10. AllAccounted'
    <2> SUFFICES ASSUME NEW b \in 1..published PROVE Accounted(b)'
        BY <1>1 DEF AllAccounted
    <2>1. Accounted(b)
        BY DEF AllAccounted
    <2> QED
        BY <1>1, <1>4, <2>1 DEF Accounted
<1> QED
    BY <1>6, <1>7, <1>8, <1>9, <1>10

\* Messages that go, or stay as they are, leave the rows true.
LEMMA FewerUsed ==
    ASSUME IdInv, NextsKept, msgExpiry' \subseteq msgExpiry, readyAt' \subseteq readyAt,
           \A k \in Keys : msgs'[k] = msgs[k] \/ msgs'[k] = NoMessage
    PROVE  TtlUsed' /\ ReadyUsed'
<1> USE DEF IdInv
<1>1. \A j \in Keys : Given(j) => Given(j)'
    BY GivenKept
<1>2. \A j \in Keys : Queued(j)' => Queued(j) /\ msgs'[j] = msgs[j]
    BY DEF Queued, NoMessage
<1>3. TtlUsed'
    <2> SUFFICES ASSUME NEW t \in msgExpiry
                 PROVE  /\ Given(t.ref)'
                        /\ Queued(t.ref)' => msgs'[t.ref].ttlAt = t.due /\ t.due > 0
        BY DEF TtlUsed
    <2>1. PICK j \in Keys : j = t.ref
        BY RowKeys DEF QueueInv
    <2>2. Given(j) /\ (Queued(j) => msgs[j].ttlAt = t.due /\ t.due > 0)
        BY <2>1 DEF TtlUsed
    <2>3. Given(j)' /\ (Queued(j)' => msgs'[j].ttlAt = t.due /\ t.due > 0)
        BY <1>1, <1>2, <2>2
    <2> QED
        BY <2>1, <2>3
<1>4. ReadyUsed'
    <2> SUFFICES ASSUME NEW t \in readyAt
                 PROVE  /\ Given(t.ref)'
                        /\ Queued(t.ref)' =>
                             /\ t.epoch <= msgs'[t.ref].epoch
                             /\ t.epoch = msgs'[t.ref].epoch
                                /\ msgs'[t.ref].state = "DELAYED"
                                   => msgs'[t.ref].due = t.due
        BY DEF ReadyUsed
    <2>1. PICK j \in Keys : j = t.ref
        BY RowKeys DEF QueueInv
    <2>2. /\ Given(j)
          /\ Queued(j) => /\ t.epoch <= msgs[j].epoch
                          /\ t.epoch = msgs[j].epoch /\ msgs[j].state = "DELAYED"
                                => msgs[j].due = t.due
        BY <2>1 DEF ReadyUsed
    <2> QED
        BY <1>1, <1>2, <2>1, <2>2
<1> QED
    BY <1>3, <1>4

\* A dead letter takes a key no other dead letter has.
LEMMA LeavesUsed ==
    ASSUME IdInv, NEW k \in Keys, Leaves(k)
    PROVE  DeadUsed' /\ TtlUsed' /\ ReadyUsed' /\ TtlHonest' /\ AllAccounted'
<1> USE DEF IdInv
<1>1. /\ msgs' = [msgs EXCEPT ![k] = NoMessage] /\ Queued(k) /\ NextsKept
      /\ readyAt' \subseteq readyAt /\ msgExpiry' \subseteq msgExpiry
      /\ UNCHANGED <<dropped, published>>
    BY DEF Leaves, Queued
<1>2. /\ msgs'[k] = NoMessage /\ \A j \in Keys : j # k => msgs'[j] = msgs[j]
    BY <1>1 DEF QueueInv, TypeOK
<1>3. TtlUsed' /\ ReadyUsed'
    BY <1>1, <1>2, FewerUsed
<1>4. Given(k) /\ Given(k)' /\ ~Queued(k)'
    BY <1>1, <1>2, QueuedGiven, GivenKept DEF Queued, NoMessage
<1>5. \A j \in Keys : Given(j) /\ ~Queued(j) => Given(j)' /\ ~Queued(j)'
    BY <1>1, <1>2, <1>4, GivenKept DEF Queued
<1>6. ASSUME NEW r \in dlq PROVE Given(r.key)' /\ ~Queued(r.key)' /\ r.key # k
    <2>1. PICK j \in Keys : j = r.key
        BY RowKeys DEF QueueInv
    <2>2. Given(j) /\ ~Queued(j)
        BY <2>1 DEF DeadUsed
    <2>3. Given(j)' /\ ~Queued(j)' /\ j # k
        BY <1>1, <1>5, <2>2
    <2> QED
        BY <2>1, <2>3
<1>7. CASE acked' = acked \cup {msgs[k].body} /\ dlq' = dlq
    <2>1. DeadUsed' /\ TtlHonest'
        BY <1>6, <1>7 DEF DeadUsed, TtlHonest
    <2>2. AllAccounted'
        <3> SUFFICES ASSUME NEW b \in 1..published PROVE Accounted(b)'
            BY <1>1 DEF AllAccounted
        <3>1. Accounted(b)
            BY DEF AllAccounted
        <3>2. CASE b = msgs[k].body
            BY <1>7, <3>2 DEF Accounted
        <3>3. CASE b # msgs[k].body
            <4>1. \A j \in Keys : Queued(j) /\ msgs[j].body = b
                                  => Queued(j)' /\ msgs'[j].body = b
                BY <1>2, <3>3 DEF Queued
            <4> QED
                BY <1>1, <1>7, <3>1, <4>1 DEF Accounted
        <3> QED
            BY <3>2, <3>3
    <2> QED
        BY <1>3, <2>1, <2>2
<1>8. ASSUME NEW m \in Message, NEW reason, m.body = msgs[k].body,
             m.ttlAt = msgs[k].ttlAt, dlq' = DeadLetters(k, m, reason), acked' = acked,
             reason = "ttl" => \E t \in msgExpiry : t.ref = k /\ t.due <= now
      PROVE  DeadUsed' /\ TtlHonest' /\ AllAccounted'
    <2>1. PICK row : row = [key |-> k, deadAt |-> now, body |-> m.body, max |-> m.max,
              token |-> m.token, attempt |-> m.attempt, ttlAt |-> m.ttlAt,
              reason |-> reason]
        OBVIOUS
    <2>2. /\ row.key = k /\ row.deadAt = now /\ row.body = m.body
          /\ row.ttlAt = m.ttlAt /\ row.reason = reason
        BY <2>1
    <2>3. dlq' = dlq \cup {row}
        <3>1. dlq' = {r \in dlq : ~(r.key = k /\ r.deadAt = now)} \cup {row}
            BY <1>8, <2>1 DEF DeadLetters
        <3> QED
            BY <1>6, <3>1
    <2>4. DeadUsed'
        BY <1>4, <1>6, <2>2, <2>3 DEF DeadUsed
    <2>5. reason = "ttl" => m.ttlAt > 0 /\ m.ttlAt <= now
        <3> SUFFICES ASSUME reason = "ttl" PROVE m.ttlAt > 0 /\ m.ttlAt <= now
            OBVIOUS
        <3>1. PICK t \in msgExpiry : t.ref = k /\ t.due <= now
            BY <1>8
        <3>2. msgs[k].ttlAt = t.due /\ t.due > 0
            BY <1>1, <3>1 DEF TtlUsed
        <3> QED
            BY <1>8, <3>1, <3>2
    <2>6. TtlHonest'
        BY <2>2, <2>3, <2>5 DEF TtlHonest
    <2>7. AllAccounted'
        <3> SUFFICES ASSUME NEW b \in 1..published PROVE Accounted(b)'
            BY <1>1 DEF AllAccounted
        <3>1. Accounted(b)
            BY DEF AllAccounted
        <3>2. CASE b = msgs[k].body
            BY <1>8, <2>2, <2>3, <3>2 DEF Accounted
        <3>3. CASE b # msgs[k].body
            <4>1. \A j \in Keys : Queued(j) /\ msgs[j].body = b
                                  => Queued(j)' /\ msgs'[j].body = b
                BY <1>2, <3>3 DEF Queued
            <4> QED
                BY <1>1, <1>8, <2>3, <3>1, <4>1 DEF Accounted
        <3> QED
            BY <3>2, <3>3
    <2> QED
        BY <2>4, <2>6, <2>7
<1>9. CASE \E m \in Message :
            \E reason \in {"max_attempts", "terminal_nack",
                           "max_lease_lifetime", "ttl"} :
             /\ m.body = msgs[k].body /\ m.ttlAt = msgs[k].ttlAt
             /\ dlq' = DeadLetters(k, m, reason) /\ acked' = acked
             /\ reason = "ttl" =>
                   \E t \in msgExpiry : t.ref = k /\ t.due <= now
    BY <1>3, <1>8, <1>9
<1> QED
    BY <1>7, <1>9 DEF Leaves

\* What a purge drops is written off.
LEMMA PurgeUsed ==
    ASSUME IdInv, NEW q \in Queues, Purge(q)
    PROVE  DeadUsed' /\ TtlUsed' /\ ReadyUsed' /\ TtlHonest' /\ AllAccounted'
<1> USE DEF IdInv
<1>1. NextsKept
    BY PurgeQueue
<1>2. /\ UNCHANGED <<dlq, msgExpiry, readyAt, published, acked>>
      /\ dropped' = dropped \cup {msgs[<<q, i>>].body : i \in DroppedIds(q)}
      /\ \A k \in Keys : msgs'[k] =
            IF k[1] = q /\ Leasable(msgs[k]) THEN NoMessage ELSE msgs[k]
    BY DEF Purge, DropLeasable, timers
<1>3. \A k \in Keys : msgs'[k] = msgs[k] \/ msgs'[k] = NoMessage
    BY <1>2
<1>4. TtlUsed' /\ ReadyUsed'
    BY <1>1, <1>2, <1>3, FewerUsed
<1>5. DeadUsed' /\ TtlHonest'
    <2>1. ASSUME NEW r \in dlq PROVE Given(r.key)' /\ ~Queued(r.key)'
        <3>1. PICK j \in Keys : j = r.key
            BY RowKeys DEF QueueInv
        <3>2. Given(j) /\ ~Queued(j)
            BY <3>1 DEF DeadUsed
        <3>3. Given(j)' /\ ~Queued(j)'
            BY <1>1, <1>3, <3>2, GivenKept DEF Queued, NoMessage
        <3> QED
            BY <3>1, <3>3
    <2> QED
        BY <1>2, <2>1 DEF DeadUsed, TtlHonest
<1>6. AllAccounted'
    <2> SUFFICES ASSUME NEW b \in 1..published PROVE Accounted(b)'
        BY <1>2 DEF AllAccounted
    <2>1. Accounted(b)
        BY DEF AllAccounted
    <2>2. ASSUME NEW k \in Keys, Queued(k), msgs[k].body = b
          PROVE  Accounted(b)'
        <3>1. CASE k[1] = q /\ Leasable(msgs[k])
            <4>1. k = <<q, k[2]>> /\ k[2] \in MsgIds
                BY <3>1, KeyParts
            <4>2. k[2] \in DroppedIds(q) /\ msgs[<<q, k[2]>>].body = b
                BY <2>2, <3>1, <4>1 DEF DroppedIds
            <4> QED
                BY <1>2, <4>2 DEF Accounted
        <3>2. CASE ~(k[1] = q /\ Leasable(msgs[k]))
            BY <1>2, <2>2, <3>2 DEF Accounted, Queued
        <3> QED
            BY <3>1, <3>2
    <2> QED
        BY <1>2, <2>1, <2>2 DEF Accounted
<1> QED
    BY <1>4, <1>5, <1>6

\* A step that leaves the messages alone leaves the used ids alone.
LEMMA RestsUsed ==
    ASSUME IdInv, Rests
    PROVE  DeadUsed' /\ TtlUsed' /\ ReadyUsed' /\ TtlHonest' /\ AllAccounted'
<1> USE DEF IdInv
<1>1. /\ NextsKept /\ msgExpiry' \subseteq msgExpiry /\ readyAt' \subseteq readyAt
      /\ UNCHANGED <<msgs, dlq, published, acked, dropped>>
    BY DEF Rests
<1>2. TtlUsed' /\ ReadyUsed'
    BY <1>1, FewerUsed
<1>3. DeadUsed'
    <2>1. ASSUME NEW r \in dlq PROVE Given(r.key)' /\ ~Queued(r.key)'
        <3>1. PICK j \in Keys : j = r.key
            BY RowKeys DEF QueueInv
        <3>2. Given(j) /\ ~Queued(j)
            BY <3>1 DEF DeadUsed
        <3>3. Given(j)' /\ ~Queued(j)'
            BY <1>1, <3>2, GivenKept DEF Queued
        <3> QED
            BY <3>1, <3>3
    <2> QED
        BY <1>1, <2>1 DEF DeadUsed
<1>4. TtlHonest' /\ AllAccounted'
    BY <1>1 DEF TtlHonest, AllAccounted, Accounted, Queued
<1> QED
    BY <1>2, <1>3, <1>4

\* Before the first publish no id is used and no send is accepted.
LEMMA IdInit == Init => IdInv
<1> SUFFICES ASSUME Init PROVE IdInv
    OBVIOUS
<1>1. QueueInv
    BY QueueInit
<1>2. \A b \in 1..published : FALSE
    BY DEF Init
<1> QED
    BY <1>1, <1>2
    DEF Init, IdInv, DeadUsed, TtlUsed, ReadyUsed, TtlHonest, AllAccounted

\* Every step keeps the facts about used ids, when ids are never reused.
LEMMA IdStep ==
    ASSUME NoReuse
    PROVE  IdInv /\ [Next]_vars => IdInv'
<1> SUFFICES ASSUME IdInv, [Next]_vars PROVE IdInv'
    OBVIOUS
<1>1. NoTeardown
    BY DEF NoReuse
<1>2. QueueInv' /\ Moves /\ reapCmds' = {}
    BY <1>1, QueueStep, StepMoves, NoReapStep DEF IdInv
<1>3. ~MayReap
    BY DEF MayReap, NoReuse, IdInv
<1>4. DeadUsed' /\ TtlUsed' /\ ReadyUsed' /\ TtlHonest' /\ AllAccounted'
    BY <1>2, <1>3, ArrivesUsed, TurnsUsed, LeavesUsed, PurgeUsed, RestsUsed DEF Moves, Stays
<1> QED
    BY <1>2, <1>4 DEF IdInv

\* No accepted message is lost where ids are not used again: whatever retries,
\* timers, dead letters, redrives and purges do, it is queued, acked by the worker
\* that was given it, a dead letter, or dropped by an operator.
THEOREM NothingLost ==
    ASSUME NoReuse
    PROVE  Spec => []NoMessageLost
<1>1. Init => IdInv
    BY IdInit
<1>2. IdInv /\ [Next]_vars => IdInv'
    BY IdStep
<1>3. IdInv => NoMessageLost
    BY AccountedLost DEF IdInv
<1> QED
    BY <1>1, <1>2, <1>3, PTL DEF Spec

\* A message is dead-lettered for its time-to-live only when that is over: the
\* row of MSG_EXPIRY, which has no epoch to check, is always of this very message.
THEOREM TtlStaysHonest ==
    ASSUME NoReuse
    PROVE  Spec => []TtlHonest
<1>1. Init => IdInv
    BY IdInit
<1>2. IdInv /\ [Next]_vars => IdInv'
    BY IdStep
<1>3. IdInv => TtlHonest
    BY DEF IdInv
<1> QED
    BY <1>1, <1>2, <1>3, PTL DEF Spec

\* One step ends no delay before its time.
LEMMA DelayStep ==
    ASSUME NoReuse, IdInv, [Next]_vars, NEW k \in Keys, msgs[k].state = "DELAYED",
           msgs'[k].state = "READY"
    PROVE  msgs[k].due <= now
<1>1. Moves /\ ~MayReap
    BY StepMoves DEF IdInv, NoReuse, MayReap
<1>2. msgs'[k] # msgs[k] /\ msgs'[k] # NoMessage /\ Queued(k)
    BY DEF NoMessage, Queued
<1>3. ASSUME NEW j \in Keys, NEW m \in Message, Arrives(j, m) PROVE FALSE
    <2>1. msgs' = [msgs EXCEPT ![j] = m] /\ ~Given(j)
        <3>1. j[1] \in Queues /\ j[2] \in Nat
            BY KeyParts, BrokerAssumption DEF MsgIds
        <3> QED
            BY <1>3, <3>1 DEF Arrives, ComesIn, Given
    <2>2. Given(k)
        BY <1>2, QueuedGiven DEF IdInv
    <2>3. msgs'[k] = msgs[k]
        BY <2>1, <2>2
    <2> QED
        BY <1>2, <2>3
<1>4. ASSUME NEW j \in Keys, NEW m \in Message, Turns(j, m)
      PROVE  msgs[k].due <= now
    <2>1. j = k
        BY <1>2, <1>4 DEF Turns
    <2>2. PICK t \in readyAt : t.ref = k /\ t.epoch = msgs[k].epoch /\ t.due <= now
        BY <1>4, <2>1 DEF Turns
    <2>3. msgs[k].due = t.due
        BY <1>2, <2>2 DEF IdInv, ReadyUsed
    <2> QED
        BY <2>2, <2>3
<1>5. ASSUME NEW j \in Keys, Leaves(j) PROVE FALSE
    BY <1>2, <1>5 DEF Leaves, IdInv, QueueInv, TypeOK
<1>6. ASSUME NEW q \in Queues, Purge(q) PROVE FALSE
    BY <1>2, <1>6 DEF Purge, DropLeasable
<1>7. ~Rests
    BY <1>2 DEF Rests
<1> QED
    BY <1>1, <1>3, <1>4, <1>5, <1>6, <1>7 DEF Moves, Stays

\* A delay is served in full: the epoch tells the row of the latest delay from
\* those of earlier ones, however often the message was leased and given back.
THEOREM DelaysAreServed ==
    ASSUME NoReuse
    PROVE  Spec => DelayServed
<1>1. Init => IdInv
    BY IdInit
<1>2. IdInv /\ [Next]_vars => IdInv'
    BY IdStep
<1>3. IdInv /\ [Next]_vars =>
        [\A k \in Keys :
            msgs[k].state = "DELAYED" /\ msgs'[k].state = "READY"
            /\ msgs'[k].body = msgs[k].body => msgs[k].due <= now]_vars
    BY DelayStep
<1> QED
    BY <1>1, <1>2, <1>3, PTL DEF Spec, DelayServed
=============================================================================
