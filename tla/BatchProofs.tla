---------------------------- MODULE BatchProofs -----------------------------
(****************************************************************************)
(* Proofs about module PublishBatch, the broker with its batches, for every *)
(* value of the constants.                                                  *)
(*                                                                          *)
(*   BatchLoopHeld            the loop over the items keeps its invariant   *)
(*   BatchTypeCorrect, BatchTimersHeld, BatchTokensNeverDangle,             *)
(*   BatchDedupWindowHeld     what the broker alone keeps, with batches too *)
(*   BatchCountersExact, BatchLeasesOwnTheirMessages,                       *)
(*   BatchNeverForks          the same of the queue, without teardowns      *)
(*   BatchOverwritesNothing   an item is written where no message is        *)
(*   BatchLosesNothing, BatchTtlStaysHonest, BatchDelaysAreServed           *)
(*                            the same of the ids, where none is used again *)
(*   BatchesAreAccepted       the broker with batches implements Intake:    *)
(*                            to its producer a batch is accepted as one    *)
(*                                                                          *)
(* A batch works on a private copy of what it writes.  The instance Applied *)
(* is the broker as it would be were that copy committed now; every item of *)
(* a batch is then a Publish of that broker, and the commit makes both one. *)
(* The step lemmas of BrokerProofs serve both.                              *)
(****************************************************************************)
EXTENDS PublishBatch, BrokerProofs

-----------------------------------------------------------------------------
(* The broker as it is once what the batch has written is committed.       *)

B == IF batch = NoBatch THEN Unwritten ELSE batch.b

BMeta ==
    IF batch = NoBatch THEN meta
    ELSE [q \in Queues |-> IF batch.cache[q].exists THEN batch.cache[q] ELSE meta[q]]

Applied == INSTANCE BrokerProofs WITH
    msgs <- B.msgs, meta <- BMeta, readyAt <- B.readyAt, msgExpiry <- B.msgExpiry,
    dedup <- B.dedup, dedupExpiry <- B.dedupExpiry,
    published <- B.published, promised <- B.promised

\* Nothing is written that is not committed.
Settled ==
    /\ B.msgs = msgs /\ BMeta = meta
    /\ B.readyAt = readyAt /\ B.msgExpiry = msgExpiry
    /\ B.dedup = dedup /\ B.dedupExpiry = dedupExpiry
    /\ B.published = published /\ B.promised = promised

\* The instance has the constants of the broker.
LEMMA SameSets ==
    /\ Applied!Queues = Queues /\ Applied!MsgIds = MsgIds /\ Applied!Keys = Keys
    /\ Applied!LeaseIds = LeaseIds /\ Applied!Bodies = Bodies
    /\ Applied!TokenIds = TokenIds /\ Applied!DedupRefs = DedupRefs
    /\ Applied!PublishReq = PublishReq
<1>1. Applied!Queues = Queues /\ Applied!MsgIds = MsgIds /\ Applied!LeaseIds = LeaseIds
      /\ Applied!Bodies = Bodies /\ Applied!DedupRefs = DedupRefs
      /\ Applied!PublishReq = PublishReq
  BY DEF Queues, Applied!Queues, MsgIds, Applied!MsgIds, LeaseIds, Applied!LeaseIds,
     Bodies, Applied!Bodies, DedupRefs, Applied!DedupRefs, PublishReq, Applied!PublishReq
<1>2. Applied!Keys = Keys /\ Applied!TokenIds = TokenIds
  BY <1>1 DEF Keys, Applied!Keys, TokenIds, Applied!TokenIds
<1>. QED  BY <1>1, <1>2

\* Rows have the same fields and the same absent value in both.
LEMMA SameRows ==
    /\ Applied!Message = Message /\ Applied!NoMessage = NoMessage
    /\ Applied!GroupMeta = GroupMeta /\ Applied!NoMeta = NoMeta
    /\ Applied!LeaseRow = LeaseRow /\ Applied!NoLease = NoLease
    /\ Applied!DeadRow = DeadRow /\ \A S : Applied!Timer(S) = Timer(S)
    /\ Applied!FreshMeta = FreshMeta /\ Applied!ZeroMeta = ZeroMeta
    /\ Applied!NoDedup = NoDedup
BY SameSets DEF Message, Applied!Message, NoMessage, Applied!NoMessage,
   GroupMeta, Applied!GroupMeta, NoMeta, Applied!NoMeta, LeaseRow, Applied!LeaseRow,
   NoLease, Applied!NoLease, DeadRow, Applied!DeadRow, Timer, Applied!Timer,
   FreshMeta, Applied!FreshMeta, ZeroMeta, Applied!ZeroMeta, NoDedup, Applied!NoDedup

\* A settled broker is the broker.
LEMMA SettledType == Settled => (Applied!TypeOK <=> TypeOK)
BY SameSets, SameRows DEF Settled, TypeOK, Applied!TypeOK

\* The timer index of the two brokers is one.
LEMMA SettledTimers == Settled => (Applied!TimersHeld <=> TimersHeld)
BY SameSets, SameRows DEF Settled, TimersHeld, Applied!TimersHeld, Reclaimable, Wakes,
   Applied!Reclaimable, Applied!Wakes

\* So are their token rows,
LEMMA SettledTokens == Settled => (Applied!TokensHeld <=> TokensHeld)
BY SameSets, SameRows DEF Settled, TokensHeld, Applied!TokensHeld, TokenNeverDangles,
   Applied!TokenNeverDangles, LeasesBelow, Applied!LeasesBelow

\* their remembered keys,
LEMMA SettledDedup == Settled => (Applied!DedupWindowHeld <=> DedupWindowHeld)
BY SameSets, SameRows DEF Settled, DedupWindowHeld, Applied!DedupWindowHeld

\* and the counters of their groups.
LEMMA SettledMeta ==
    Settled => \A q : /\ Applied!ReadMeta(q) = ReadMeta(q)
                      /\ Applied!LoadGroupMeta(q) = LoadGroupMeta(q)
<1>. SUFFICES ASSUME Settled, NEW q
              PROVE  /\ Applied!ReadMeta(q) = ReadMeta(q)
                     /\ Applied!LoadGroupMeta(q) = LoadGroupMeta(q)
  OBVIOUS
<1>1. BMeta[q] = meta[q]
  BY DEF Settled
<1>. QED  BY <1>1, SameRows DEF ReadMeta, Applied!ReadMeta, LoadGroupMeta, Applied!LoadGroupMeta

\* Counting rows is the same in both.
LEMMA SameTally == \A M, q, g : Applied!Tally(M, q, g) <=> Tally(M, q, g)
<1>0. \A S : Applied!Cardinality(S) = Cardinality(S)
  BY Zenon DEF Cardinality, Applied!Cardinality, IsFiniteSet, Applied!IsFiniteSet
<1>1. Applied!MsgIds = MsgIds
  BY SameSets
<1>2. \A M, q, s : Applied!CountIn(M, q, s) = CountIn(M, q, s)
  <2>. SUFFICES ASSUME NEW M, NEW q, NEW s
                PROVE  Applied!CountIn(M, q, s) = CountIn(M, q, s)
    OBVIOUS
  <2>1. Applied!InState(M, q, s) = InState(M, q, s)
    BY <1>1 DEF InState, Applied!InState
  <2>. QED  BY <1>0, <2>1 DEF CountIn, Applied!CountIn
<1>. QED  BY <1>2 DEF Tally, Applied!Tally

\* The queue invariant says the same of both when all is committed,
LEMMA SettledQueue == Settled => (Applied!QueueInv <=> QueueInv)
<1>. SUFFICES ASSUME Settled PROVE Applied!QueueInv <=> QueueInv
  OBVIOUS
<1>1. Applied!Exact <=> Exact
  BY SameSets, SettledMeta, SameTally DEF Settled, Exact, Applied!Exact
<1>2. Applied!Fresh <=> Fresh
  BY SameSets, SameRows, SettledMeta DEF Settled, Fresh, Applied!Fresh
<1>3. Applied!LeaseOwnsMessage <=> LeaseOwnsMessage
  BY SameSets DEF Settled, LeaseOwnsMessage, Applied!LeaseOwnsMessage, LeaseCurrent,
     Applied!LeaseCurrent
<1>. QED  BY <1>1, <1>2, <1>3, SettledType DEF QueueInv, Applied!QueueInv

\* and so does the one about bodies,
LEMMA SettledFork == Settled => (Applied!ForkInv <=> ForkInv)
<1>. SUFFICES ASSUME Settled PROVE Applied!ForkInv <=> ForkInv
  OBVIOUS
<1>1. \A k : Applied!Queued(k) <=> Queued(k)
  BY DEF Settled, Queued, Applied!Queued
<1>2. Applied!Apart <=> Apart
  BY <1>1, SameSets DEF Settled, Apart, Applied!Apart
<1>3. Applied!BodiesKnown <=> BodiesKnown
  BY <1>1, SameSets DEF Settled, BodiesKnown, Applied!BodiesKnown
<1>. QED  BY <1>2, <1>3, SettledQueue DEF ForkInv, Applied!ForkInv

\* and the one about ids.
LEMMA SettledId == Settled => (Applied!IdInv <=> IdInv)
<1>. SUFFICES ASSUME Settled PROVE Applied!IdInv <=> IdInv
  OBVIOUS
<1>1. \A k : (Applied!Queued(k) <=> Queued(k)) /\ (Applied!Given(k) <=> Given(k))
  BY SettledMeta DEF Settled, Queued, Applied!Queued, Given, Applied!Given
<1>2. (Applied!DeadUsed <=> DeadUsed) /\ (Applied!TtlUsed <=> TtlUsed)
      /\ (Applied!ReadyUsed <=> ReadyUsed)
  BY <1>1 DEF Settled, DeadUsed, Applied!DeadUsed, TtlUsed, Applied!TtlUsed, ReadyUsed,
     Applied!ReadyUsed
<1>3. Applied!TtlHonest <=> TtlHonest
  BY DEF TtlHonest, Applied!TtlHonest
<1>4. Applied!AllAccounted <=> AllAccounted
  BY <1>1, SameSets DEF Settled, AllAccounted, Applied!AllAccounted, Accounted,
     Applied!Accounted
<1>. QED  BY <1>2, <1>3, <1>4, SettledQueue DEF IdInv, Applied!IdInv

\* And so after a step.
LEMMA SettledNext ==
    Settled' => /\ (Applied!TypeOK' <=> TypeOK') /\ (Applied!TimersHeld' <=> TimersHeld')
                /\ (Applied!TokensHeld' <=> TokensHeld')
                /\ (Applied!DedupWindowHeld' <=> DedupWindowHeld')
                /\ (Applied!QueueInv' <=> QueueInv')
                /\ (Applied!ForkInv' <=> ForkInv') /\ (Applied!IdInv' <=> IdInv')
<1>1. Settled' => (Applied!TypeOK' <=> TypeOK')
  BY SettledType, PTL
<1>2. Settled' => (Applied!TimersHeld' <=> TimersHeld')
  BY SettledTimers, PTL
<1>3. Settled' => (Applied!TokensHeld' <=> TokensHeld')
  BY SettledTokens, PTL
<1>4. Settled' => (Applied!DedupWindowHeld' <=> DedupWindowHeld')
  BY SettledDedup, PTL
<1>5. Settled' => (Applied!QueueInv' <=> QueueInv')
  BY SettledQueue, PTL
<1>6. Settled' => (Applied!ForkInv' <=> ForkInv')
  BY SettledFork, PTL
<1>7. Settled' => (Applied!IdInv' <=> IdInv')
  BY SettledId, PTL
<1>. QED  BY <1>1, <1>2, <1>3, <1>4, <1>5, <1>6, <1>7

-----------------------------------------------------------------------------
(* The loop                                                                *)

\* The Pebble batch and the batch being applied.
Pebble ==
    [msgs: [Keys -> Message \cup {NoMessage}],
     readyAt: SUBSET Timer(Keys), msgExpiry: SUBSET Timer(Keys),
     dedup: [DedupRefs -> [id: Nat, expiry: Nat]], dedupExpiry: SUBSET Timer(DedupRefs),
     published: 0..MaxPublish, promised: [DedupRefs -> Nat]]

BatchRow ==
    [items: Batches, atomic: BOOLEAN, i: Nat, b: Pebble,
     cache: [Queues -> GroupMeta \cup {NoMeta}], batchDedup: SUBSET DedupRefs]

\* The batch stays inside what was free when it came, and the keys it will find
\* taken are those of a window and its own.
LoopInv ==
    batch # NoBatch =>
        /\ batch \in BatchRow /\ batch.i \in 1..(Len(batch.items) + 1)
        /\ Room(batch.items)
        /\ batch.b.published <= published + (batch.i - 1)
        /\ \A q \in Queues :
              CachedMeta(q).next <= LoadGroupMeta(q).next + (batch.i - 1)
        /\ \A r \in DedupRefs :
              batch.b.dedup[r].expiry > now
                <=> dedup[r].expiry > now \/ r \in batch.batchDedup

\* A batch has items, so it is not the absence of one.
LEMMA ItemsOf ==
    ASSUME NEW items \in Batches
    PROVE  /\ items # << >> /\ Len(items) \in Nat /\ DOMAIN items = 1..Len(items)
           /\ \A i \in 1..Len(items) : items[i] \in Item
<1>1. PICK n \in 2..MaxBatch : items \in [1..n -> Item]
  BY DEF Batches
<1>2. n \in Nat /\ n >= 2
  OBVIOUS
<1>3. items \in Seq(Item) /\ Len(items) = n
  BY <1>1, <1>2
<1>. QED  BY <1>1, <1>2, <1>3

\* A batch under way is never mistaken for none.
LEMMA RealBatch == ASSUME NEW x \in BatchRow PROVE x # NoBatch
<1>1. x.items \in Batches
  BY DEF BatchRow
<1>2. x.items # << >>
  BY <1>1, ItemsOf
<1>. QED  BY <1>2 DEF NoBatch

\* The item whose turn it is.
LEMMA ItTyped ==
    ASSUME batch \in BatchRow, batch.i \in 1..(Len(batch.items) + 1),
           batch.i <= Len(batch.items)
    PROVE  /\ It \in Item /\ It.q \in Queues /\ It.r \in PublishReq
           /\ batch.i \in DOMAIN batch.items /\ Len(batch.items) \in Nat
           /\ It.r.delay \in Nat /\ It.r.ttl \in Nat
           /\ It.r.dedup # NoKey => Ref \in DedupRefs
<1>1. batch.items \in Batches /\ batch.i \in Nat
  BY DEF BatchRow
<1>2. Len(batch.items) \in Nat /\ DOMAIN batch.items = 1..Len(batch.items)
      /\ \A i \in 1..Len(batch.items) : batch.items[i] \in Item
  BY <1>1, ItemsOf
<1>3. batch.i \in 1..Len(batch.items)
  BY <1>1, <1>2
<1>4. It \in Item
  BY <1>2, <1>3 DEF It
<1>5. It.q \in Queues /\ It.r \in PublishReq
  BY <1>4 DEF Item
<1>6. It.r.delay \in Delays /\ It.r.ttl \in Ttls /\ It.r.dedup \in DedupKeys \cup {NoKey}
  BY <1>5 DEF PublishReq
<1>7. It.q[1] \in Lanes
  BY <1>5 DEF Queues
<1>. QED  BY <1>2, <1>3, <1>4, <1>5, <1>6, <1>7, BrokerAssumption DEF Ref, DedupRefs

\* The row and the metadata a publish writes.
RowOf(r, body) ==
    [state |-> IF r.delay > 0 THEN "DELAYED" ELSE "READY",
     lease |-> 0, epoch |-> 0, attempt |-> 0, max |-> r.max,
     token |-> r.token, body |-> body, due |-> now + r.delay,
     ttlAt |-> IF r.ttl > 0 THEN now + r.ttl ELSE 0]

Grown(g, r) ==
    [g EXCEPT !.next = @ + 1, !.total = @ + 1, !.last = now,
              !.delayed = IF r.delay > 0 THEN @ + 1 ELSE @,
              !.ready   = IF r.delay > 0 THEN @ ELSE @ + 1]

\* A write into the Pebble batch, field by field.
Write(b, n, k, M, R, E) ==
    [b EXCEPT !.published = n, !.msgs[k] = M, !.readyAt = R, !.msgExpiry = E]

\* What Write makes of a Pebble batch, field by field.
LEMMA PebbleWrite ==
    ASSUME NEW b \in Pebble, NEW n, NEW k, NEW M, NEW R, NEW E
    PROVE  Write(b, n, k, M, R, E)
             = [msgs |-> [b.msgs EXCEPT ![k] = M], readyAt |-> R, msgExpiry |-> E,
                dedup |-> b.dedup, dedupExpiry |-> b.dedupExpiry,
                published |-> n, promised |-> b.promised]
<1>. DEFINE b1 == [b EXCEPT !.published = n]
            b2 == [b1 EXCEPT !.msgs = [b1.msgs EXCEPT ![k] = M]]
            b3 == [b2 EXCEPT !.readyAt = R]
            b4 == [b3 EXCEPT !.msgExpiry = E]
<1>1. Write(b, n, k, M, R, E) = b4
  BY Zenon DEF Write
<1>2. b1 = [msgs |-> b.msgs, readyAt |-> b.readyAt, msgExpiry |-> b.msgExpiry,
            dedup |-> b.dedup, dedupExpiry |-> b.dedupExpiry,
            published |-> n, promised |-> b.promised]
  BY DEF Pebble
<1>. HIDE DEF b1
<1>3. b2 = [msgs |-> [b.msgs EXCEPT ![k] = M], readyAt |-> b.readyAt,
            msgExpiry |-> b.msgExpiry, dedup |-> b.dedup, dedupExpiry |-> b.dedupExpiry,
            published |-> n, promised |-> b.promised]
  BY <1>2
<1>. HIDE DEF b2
<1>. DEFINE m == [b.msgs EXCEPT ![k] = M]
<1>. HIDE DEF m
<1>4. b3 = [msgs |-> m, readyAt |-> R, msgExpiry |-> b.msgExpiry,
            dedup |-> b.dedup, dedupExpiry |-> b.dedupExpiry,
            published |-> n, promised |-> b.promised]
  BY <1>3 DEF m
<1>. HIDE DEF b3
<1>5. b4 = [msgs |-> m, readyAt |-> R, msgExpiry |-> E,
            dedup |-> b.dedup, dedupExpiry |-> b.dedupExpiry,
            published |-> n, promised |-> b.promised]
  BY <1>4
<1>. QED  BY <1>1, <1>5, Zenon DEF m

\* What publishing an item writes into the batch, field by field.
LEMMA ItemWrites ==
    ASSUME batch \in BatchRow, ItemPublished
    PROVE  LET g == CachedMeta(It.q)
               k == <<It.q, g.next>>
               r == It.r
               exp == now + DedupWindow
           IN  /\ batch'.items = batch.items /\ batch'.atomic = batch.atomic
               /\ batch'.i = batch.i + 1
               /\ batch'.cache = [batch.cache EXCEPT ![It.q] = Grown(g, r)]
               /\ batch'.batchDedup = IF r.dedup = NoKey THEN batch.batchDedup
                                      ELSE batch.batchDedup \cup {Ref}
               /\ batch'.b.msgs = [batch.b.msgs EXCEPT ![k] = RowOf(r, batch.b.published + 1)]
               /\ batch'.b.published = batch.b.published + 1
               /\ batch'.b.readyAt = IF r.delay > 0
                     THEN AddTimer(batch.b.readyAt, now + r.delay, k, 0) ELSE batch.b.readyAt
               /\ batch'.b.msgExpiry = IF r.ttl > 0
                     THEN AddTimer(batch.b.msgExpiry, now + r.ttl, k, 0) ELSE batch.b.msgExpiry
               /\ batch'.b.dedup = IF r.dedup = NoKey THEN batch.b.dedup
                     ELSE [batch.b.dedup EXCEPT ![Ref] = [id |-> g.next, expiry |-> exp]]
               /\ batch'.b.dedupExpiry = IF r.dedup = NoKey THEN batch.b.dedupExpiry
                     ELSE AddTimer(batch.b.dedupExpiry, exp, Ref, 0)
               /\ batch'.b.promised = IF r.dedup = NoKey THEN batch.b.promised
                     ELSE [batch.b.promised EXCEPT ![Ref] = exp]
               /\ batch' = [items |-> batch'.items, atomic |-> batch'.atomic, i |-> batch'.i,
                            b |-> batch'.b, cache |-> batch'.cache,
                            batchDedup |-> batch'.batchDedup]
               /\ batch'.b = [msgs |-> batch'.b.msgs, readyAt |-> batch'.b.readyAt,
                              msgExpiry |-> batch'.b.msgExpiry, dedup |-> batch'.b.dedup,
                              dedupExpiry |-> batch'.b.dedupExpiry,
                              published |-> batch'.b.published,
                              promised |-> batch'.b.promised]
<1>. DEFINE g == CachedMeta(It.q)
            k == <<It.q, g.next>>
            r == It.r
            exp == now + DedupWindow
            old == batch.b
            M == RowOf(r, batch.b.published + 1)
            R == IF r.delay > 0 THEN AddTimer(old.readyAt, now + r.delay, k, 0) ELSE old.readyAt
            E == IF r.ttl > 0 THEN AddTimer(old.msgExpiry, now + r.ttl, k, 0) ELSE old.msgExpiry
            D == [old.dedup EXCEPT ![Ref] = [id |-> g.next, expiry |-> exp]]
            X == AddTimer(old.dedupExpiry, exp, Ref, 0)
            P == [old.promised EXCEPT ![Ref] = exp]
            w == [old EXCEPT !.published = old.published + 1, !.msgs[k] = M,
                             !.readyAt = R, !.msgExpiry = E]
            new == IF r.dedup = NoKey THEN w
                   ELSE [w EXCEPT !.dedup[Ref] = [id |-> g.next, expiry |-> exp],
                                  !.dedupExpiry = X, !.promised[Ref] = exp]
            keys == IF r.dedup = NoKey THEN batch.batchDedup ELSE batch.batchDedup \cup {Ref}
            G == Grown(g, r)
<1>1. old \in Pebble
  BY DEF BatchRow
<1>2. batch' = [batch EXCEPT !.i = @ + 1, !.cache[It.q] = G, !.b = new, !.batchDedup = keys]
  BY DEF ItemPublished, RowOf, Grown
<1>. HIDE DEF M, R, E, G, k, r, exp, g
<1>3. w = [msgs |-> [old.msgs EXCEPT ![k] = M], readyAt |-> R, msgExpiry |-> E,
           dedup |-> old.dedup, dedupExpiry |-> old.dedupExpiry,
           published |-> old.published + 1, promised |-> old.promised]
  <2>. HIDE DEF old
  <2>. DEFINE n == old.published + 1
  <2>. HIDE DEF n, w
  <2>1. w = Write(old, n, k, M, R, E)
    BY DEF n, Write, w
  <2>. QED  BY <1>1, <2>1, PebbleWrite DEF n
<1>. DEFINE D1 == IF r.dedup = NoKey THEN old.dedup ELSE D
            X1 == IF r.dedup = NoKey THEN old.dedupExpiry ELSE X
            P1 == IF r.dedup = NoKey THEN old.promised ELSE P
<1>. HIDE DEF w, X
<1>4. new = [msgs |-> [old.msgs EXCEPT ![k] = M], readyAt |-> R, msgExpiry |-> E,
             dedup |-> D1, dedupExpiry |-> X1,
             published |-> old.published + 1, promised |-> P1]
  BY <1>3
<1>. HIDE DEF new, D1, X1, P1, keys
<1>5. batch' = [items |-> batch.items, atomic |-> batch.atomic, i |-> batch.i + 1,
                b |-> new, cache |-> [batch.cache EXCEPT ![It.q] = G], batchDedup |-> keys]
  BY <1>2 DEF BatchRow
<1>6. /\ batch'.items = batch.items /\ batch'.atomic = batch.atomic
      /\ batch'.i = batch.i + 1
      /\ batch'.cache = [batch.cache EXCEPT ![It.q] = G]
      /\ batch'.batchDedup = keys /\ batch'.b = new
  BY <1>5
<1>7. /\ new.msgs = [old.msgs EXCEPT ![k] = M] /\ new.published = old.published + 1
      /\ new.readyAt = R /\ new.msgExpiry = E
      /\ new.dedup = D1 /\ new.dedupExpiry = X1 /\ new.promised = P1
  BY <1>4
<1>8. /\ batch' = [items |-> batch'.items, atomic |-> batch'.atomic, i |-> batch'.i,
                   b |-> batch'.b, cache |-> batch'.cache,
                   batchDedup |-> batch'.batchDedup]
  BY <1>5, <1>6
<1>9. /\ new = [msgs |-> new.msgs, readyAt |-> new.readyAt,
                msgExpiry |-> new.msgExpiry, dedup |-> new.dedup,
                dedupExpiry |-> new.dedupExpiry, published |-> new.published,
                promised |-> new.promised]
  BY <1>4, <1>7
<1>. QED  BY <1>6, <1>7, <1>8, <1>9 DEF M, R, E, G, k, r, exp, g, D1, X1, P1, keys, X

\* An item of the batch stays inside the room that the batch found.
LEMMA InBound ==
    ASSUME NEW a \in Nat, NEW b \in Nat, NEW i \in Nat, NEW n \in Nat, NEW m \in Nat,
           a <= b + (i - 1), i <= n
    PROVE  (b + n <= m => a < m) /\ (b + n - 1 <= m => a <= m)
OBVIOUS

\* A bound on what the items so far add moves with the next item.
LEMMA OneMore ==
    ASSUME NEW a \in Nat, NEW b \in Nat, NEW i \in Nat, a <= b + (i - 1)
    PROVE  a <= b + ((i + 1) - 1) /\ a + 1 <= b + ((i + 1) - 1)
OBVIOUS

\* A publish counts one message more.
LEMMA GrownTyped ==
    ASSUME NEW g \in GroupMeta, NEW r, now \in Nat
    PROVE  Grown(g, r) \in GroupMeta /\ Grown(g, r).next = g.next + 1 /\ Grown(g, r).exists
<1>1. /\ g.next \in Nat /\ g.total \in Nat /\ g.ready \in Nat /\ g.delayed \in Nat
  BY DEF GroupMeta
<1>. DEFINE d == IF r.delay > 0 THEN g.delayed + 1 ELSE g.delayed
            e == IF r.delay > 0 THEN g.ready ELSE g.ready + 1
<1>2. d \in Nat /\ e \in Nat
  BY <1>1
<1>. HIDE DEF d, e
<1>3. Grown(g, r) = [g EXCEPT !.next = g.next + 1, !.total = g.total + 1, !.last = now,
                              !.delayed = d, !.ready = e]
  BY DEF Grown, d, e, GroupMeta
<1>4. Grown(g, r) = [exists |-> TRUE, next |-> g.next + 1, ready |-> e,
                     inflight |-> g.inflight, delayed |-> d, total |-> g.total + 1,
                     paused |-> g.paused, last |-> now]
  BY <1>3 DEF GroupMeta
<1>5. g.inflight \in Nat /\ g.paused \in BOOLEAN
  BY DEF GroupMeta
<1>. QED  BY <1>1, <1>2, <1>4, <1>5 DEF GroupMeta

\* What LoadGroupMeta returns is a metadata row.
LEMMA LoadTyped ==
    ASSUME TypeOK, NEW q \in Queues
    PROVE  LoadGroupMeta(q) \in GroupMeta /\ LoadGroupMeta(q).next \in Nat
<1>1. meta[q] \in GroupMeta \cup {NoMeta}
  BY DEF TypeOK
<1>2. FreshMeta \in GroupMeta
  BY DEF FreshMeta, GroupMeta
<1>3. LoadGroupMeta(q) \in GroupMeta
  BY <1>1, <1>2 DEF LoadGroupMeta, NoMeta
<1>. QED  BY <1>3 DEF GroupMeta

\* So is what the cache holds of it.
LEMMA CacheTyped ==
    ASSUME TypeOK, batch \in BatchRow, NEW q \in Queues
    PROVE  CachedMeta(q) \in GroupMeta /\ CachedMeta(q).next \in Nat
<1>1. batch.cache[q] \in GroupMeta \cup {NoMeta}
  BY DEF BatchRow
<1>2. CachedMeta(q) \in GroupMeta
  BY <1>1, LoadTyped DEF CachedMeta, NoMeta
<1>. QED  BY <1>2 DEF GroupMeta

\* While a batch is applied, its rows and its cache are the broker.
LEMMA InFlight ==
    ASSUME batch \in BatchRow
    PROVE  /\ B = batch.b
           /\ BMeta = [q \in Queues |->
                         IF batch.cache[q].exists THEN batch.cache[q] ELSE meta[q]]
           /\ \A q \in Queues : CachedMeta(q) = Applied!LoadGroupMeta(q)
<1>1. batch # NoBatch
  BY RealBatch
<1>2. B = batch.b
  BY <1>1 DEF B
<1>3. BMeta = [q \in Queues |->
                 IF batch.cache[q].exists THEN batch.cache[q] ELSE meta[q]]
  BY <1>1 DEF BMeta
<1>4. ASSUME NEW q \in Queues
      PROVE  CachedMeta(q) = Applied!LoadGroupMeta(q)
  BY <1>3, SameRows DEF CachedMeta, LoadGroupMeta, Applied!LoadGroupMeta
<1>. QED  BY <1>2, <1>3, <1>4

\* Publishing an item into the batch publishes its message into the broker that
\* the batch will commit: applyPublish and the loop's body do the same.
LEMMA ItemApplies ==
    ASSUME LoopInv, batch # NoBatch, TypeOK, Applied!TypeOK, ItemPublished
    PROVE  /\ It.q \in Queues /\ It.r \in PublishReq
           /\ Applied!Publish(It.q, It.r)
           /\ B' = batch'.b /\ batch' # NoBatch
<1>. DEFINE q == It.q
            r == It.r
            g == CachedMeta(q)
            k == <<q, g.next>>
            ref == <<q[1], r.dedup>>
            exp == now + DedupWindow
<1>1. /\ batch \in BatchRow /\ batch.i \in 1..(Len(batch.items) + 1)
      /\ Room(batch.items) /\ batch.b.published <= published + (batch.i - 1)
      /\ CachedMeta(q).next <= LoadGroupMeta(q).next + (batch.i - 1) \/ q \notin Queues
      /\ \A x \in DedupRefs :
            batch.b.dedup[x].expiry > now <=> dedup[x].expiry > now \/ x \in batch.batchDedup
  BY DEF LoopInv
<1>2. batch.i <= Len(batch.items) /\ ~IsDuplicate(It.q, It.r) /\ ~InBatch
      /\ UNCHANGED <<vars, crashes>>
  BY DEF ItemPublished
<1>3. /\ q \in Queues /\ r \in PublishReq /\ r.delay \in Nat /\ r.ttl \in Nat
      /\ batch.i \in DOMAIN batch.items /\ Len(batch.items) \in Nat
      /\ r.dedup # NoKey => ref \in DedupRefs
  BY <1>1, <1>2, ItTyped DEF Ref
<1>4. B = batch.b /\ g = Applied!LoadGroupMeta(q)
      /\ BMeta = [x \in Queues |->
                     IF batch.cache[x].exists THEN batch.cache[x] ELSE meta[x]]
  BY <1>1, <1>3, InFlight
<1>5. g \in GroupMeta /\ g.exists /\ g.next \in Nat
  <2>1. BMeta[q] \in GroupMeta \cup {NoMeta}
    BY <1>3, SameSets, SameRows DEF Applied!TypeOK
  <2>2. FreshMeta \in GroupMeta
    BY DEF FreshMeta, GroupMeta
  <2>3. g = IF BMeta[q].exists THEN BMeta[q] ELSE FreshMeta
    BY <1>4, SameRows DEF Applied!LoadGroupMeta
  <2>4. g \in GroupMeta
    BY <2>1, <2>2, <2>3 DEF NoMeta
  <2>. QED  BY <2>4 DEF GroupMeta
<1>6. /\ batch'.items = batch.items
      /\ batch'.cache = [batch.cache EXCEPT ![q] = Grown(g, r)]
      /\ batch'.b.msgs = [batch.b.msgs EXCEPT ![k] = RowOf(r, batch.b.published + 1)]
      /\ batch'.b.published = batch.b.published + 1
      /\ batch'.b.readyAt = IF r.delay > 0
            THEN AddTimer(batch.b.readyAt, now + r.delay, k, 0) ELSE batch.b.readyAt
      /\ batch'.b.msgExpiry = IF r.ttl > 0
            THEN AddTimer(batch.b.msgExpiry, now + r.ttl, k, 0) ELSE batch.b.msgExpiry
      /\ batch'.b.dedup = IF r.dedup = NoKey THEN batch.b.dedup
            ELSE [batch.b.dedup EXCEPT ![ref] = [id |-> g.next, expiry |-> exp]]
      /\ batch'.b.dedupExpiry = IF r.dedup = NoKey THEN batch.b.dedupExpiry
            ELSE AddTimer(batch.b.dedupExpiry, exp, ref, 0)
      /\ batch'.b.promised = IF r.dedup = NoKey THEN batch.b.promised
            ELSE [batch.b.promised EXCEPT ![ref] = exp]
  BY <1>1, ItemWrites DEF Ref
<1>7. batch' # NoBatch
  <2>1. batch.items # << >>
    BY <1>1, ItemsOf DEF BatchRow
  <2>. QED  BY <1>6, <2>1 DEF NoBatch
<1>8. B' = batch'.b
  BY <1>7 DEF B
<1>9. BMeta' = [BMeta EXCEPT ![q] = Grown(g, r)]
  <2>1. BMeta' = [x \in Queues |->
                    IF batch'.cache[x].exists THEN batch'.cache[x] ELSE meta[x]]
    BY <1>2, <1>7 DEF BMeta, vars, store
  <2>2. Grown(g, r).exists
    BY <1>5 DEF Grown, GroupMeta
  <2>3. batch.cache \in [Queues -> GroupMeta \cup {NoMeta}]
    BY <1>1 DEF BatchRow
  <2>. HIDE DEF g, r, q
  <2>. QED  BY <1>3, <1>4, <1>6, <2>1, <2>2, <2>3
<1>10. /\ \A S, d, x : Applied!AddTimer(S, d, x, 0) = AddTimer(S, d, x, 0)
       /\ MsgIds = Applied!MsgIds
  BY SameSets DEF AddTimer, Applied!AddTimer, DelTimer, Applied!DelTimer
<1>11. /\ g.next \in MsgIds /\ batch.b.published < MaxPublish
       /\ now + r.delay <= Horizon /\ now + r.ttl <= Horizon
       /\ r.dedup # NoKey => exp <= Horizon
  <2>1. /\ published + Len(batch.items) <= MaxPublish
        /\ LoadGroupMeta(q).next + Len(batch.items) - 1 <= MaxMsgId
        /\ now + r.delay <= Horizon /\ now + r.ttl <= Horizon
        /\ r.dedup # NoKey => exp <= Horizon
    BY <1>1, <1>3 DEF Room, It
  <2>2. LoadGroupMeta(q).next \in Nat
    BY <1>3, LoadTyped
  <2>3. batch.b.published \in Nat /\ published \in Nat /\ batch.i \in Nat
        /\ MaxMsgId \in Nat /\ MaxPublish \in Nat
    BY <1>1, BrokerAssumption DEF BatchRow, Pebble, TypeOK
  <2>. HIDE DEF g, r, q, exp
  <2>4. batch.b.published < MaxPublish
    BY <1>1, <1>2, <1>3, <2>1, <2>3, InBound
  <2>5. g.next <= MaxMsgId
    BY <1>1, <1>2, <1>3, <2>1, <2>2, <2>3, <1>5, InBound DEF g
  <2>. QED  BY <1>5, <2>1, <2>3, <2>4, <2>5 DEF MsgIds
<1>12. ~Applied!IsDuplicate(q, r)
  <2>1. CASE r.dedup = NoKey
    BY <2>1 DEF Applied!IsDuplicate
  <2>2. CASE r.dedup # NoKey
    BY <1>1, <1>2, <1>3, <1>4, <2>2 DEF Applied!IsDuplicate, IsDuplicate, InBatch, Ref
  <2>. QED  BY <2>1, <2>2
<1>13. Applied!PublishOne(q, r, B.published + 1)
  BY <1>4, <1>6, <1>8, <1>9, <1>10, <1>11 DEF Applied!PublishOne, RowOf, Grown
<1>14. /\ B.published < MaxPublish /\ B'.published = B.published + 1
       /\ IF r.dedup = NoKey
          THEN B'.dedup = B.dedup /\ B'.dedupExpiry = B.dedupExpiry /\ B'.promised = B.promised
          ELSE /\ B'.dedup = [B.dedup EXCEPT ![ref] =
                                [id |-> Applied!LoadGroupMeta(q).next, expiry |-> exp]]
               /\ B'.dedupExpiry = Applied!AddTimer(B.dedupExpiry, exp, ref, 0)
               /\ B'.promised = [B.promised EXCEPT ![ref] = exp]
  BY <1>4, <1>6, <1>8, <1>10, <1>11
<1>15. UNCHANGED <<now, leases, nextLease, tokens, dlq, leaseDeadline,
                   leaseMaxLife, picked, reapCmds, acked, dropped>>
  BY <1>2 DEF vars, store, timers, history
<1>. HIDE DEF g, k
<1>16. Applied!Publish(q, r)
  BY <1>11, <1>12, <1>13, <1>14, <1>15 DEF Applied!Publish
<1>. QED  BY <1>3, <1>7, <1>8, <1>16

\* Without a batch everything is committed, and a batch starts from there.
LEMMA NoneSettled == batch = NoBatch => Settled
<1>. SUFFICES ASSUME batch = NoBatch PROVE Settled
  OBVIOUS
<1>1. B = Unwritten /\ BMeta = meta
  BY DEF B, BMeta
<1>. QED  BY <1>1 DEF Settled, Unwritten

\* The same of the next state.
LEMMA NoneSettledNext == batch' = NoBatch => Settled'
<1>1. (batch = NoBatch)' => Settled'
  BY NoneSettled, PTL
<1>. QED  BY <1>1 DEF NoBatch

\* A batch starts with nothing written.
LEMMA Starts ==
    ASSUME TypeOK, NEW items \in Batches, NEW atomic \in BOOLEAN, Room(items),
           batch' = FirstItem(items, atomic), UNCHANGED vars
    PROVE  LoopInv' /\ Settled'
<1>1. /\ UNCHANGED <<now, msgs, meta, readyAt, msgExpiry, dedup, dedupExpiry,
                     published, promised>>
  BY DEF vars, store, timers, history
<1>2. /\ batch'.items = items /\ batch'.atomic = atomic /\ batch'.i = 1
      /\ batch'.b = Unwritten /\ batch'.batchDedup = {}
      /\ batch'.cache = [q \in Queues |-> NoMeta]
  BY DEF FirstItem
<1>3. Unwritten \in Pebble
  BY DEF Unwritten, Pebble, TypeOK
<1>4. batch' \in BatchRow
  BY <1>3 DEF FirstItem, BatchRow
<1>5. batch' # NoBatch
  BY <1>4, RealBatch
<1>6. ~NoMeta.exists
  BY DEF NoMeta
<1>7. Settled'
  <2>1. B' = Unwritten
    BY <1>2, <1>5 DEF B
  <2>2. BMeta' = [q \in Queues |-> meta[q]]
    BY <1>1, <1>2, <1>5, <1>6 DEF BMeta
  <2>3. BMeta' = meta
    BY <2>2 DEF TypeOK
  <2>. QED  BY <1>1, <2>1, <2>3 DEF Settled, Unwritten
<1>8. \A q \in Queues : CachedMeta(q)' = LoadGroupMeta(q) /\ LoadGroupMeta(q)' = LoadGroupMeta(q)
  BY <1>1, <1>2, <1>6 DEF CachedMeta, LoadGroupMeta
<1>9. Len(items) \in Nat
  BY ItemsOf
<1>10. Room(batch.items)'
  <2>1. \A q \in Queues : LoadGroupMeta(q)'.next + Len(items) - 1 <= MaxMsgId
    BY <1>8 DEF Room
  <2>. QED  BY <1>1, <1>2, <2>1 DEF Room
<1>11. /\ batch'.i \in 1..(Len(batch'.items) + 1)
       /\ batch'.b.published <= published' + (batch'.i - 1)
  BY <1>1, <1>2, <1>9 DEF Unwritten, TypeOK
<1>12. ASSUME NEW q \in Queues
       PROVE  CachedMeta(q)'.next <= LoadGroupMeta(q)'.next + (batch'.i - 1)
  BY <1>2, <1>8, LoadTyped
<1>13. \A r \in DedupRefs : batch'.b.dedup[r].expiry > now'
          <=> dedup'[r].expiry > now' \/ r \in batch'.batchDedup
  BY <1>1, <1>2 DEF Unwritten
<1>14. LoopInv'
  BY <1>4, <1>10, <1>11, <1>12, <1>13 DEF LoopInv
<1>. QED  BY <1>7, <1>14

\* Room does not change while a batch is applied.
LEMMA RoomKept ==
    ASSUME Room(batch.items), batch'.items = batch.items, UNCHANGED vars
    PROVE  Room(batch.items)' /\ \A q : LoadGroupMeta(q)' = LoadGroupMeta(q)
<1>1. UNCHANGED <<now, published, meta>>
  BY DEF vars, store, history
<1>2. \A q : LoadGroupMeta(q)' = LoadGroupMeta(q)
  BY <1>1 DEF LoadGroupMeta
<1>. QED  BY <1>1, <1>2 DEF Room

\* A duplicate item writes nothing.
LEMMA DuplicateStays ==
    ASSUME LoopInv, batch # NoBatch, TypeOK, ItemDuplicate
    PROVE  LoopInv' /\ UNCHANGED Applied!vars
<1>1. /\ batch \in BatchRow /\ batch.i \in 1..(Len(batch.items) + 1)
      /\ Room(batch.items) /\ batch.b.published <= published + (batch.i - 1)
      /\ \A q \in Queues : CachedMeta(q).next <= LoadGroupMeta(q).next + (batch.i - 1)
      /\ \A x \in DedupRefs :
            batch.b.dedup[x].expiry > now <=> dedup[x].expiry > now \/ x \in batch.batchDedup
  BY DEF LoopInv
<1>2. batch.i <= Len(batch.items) /\ batch' = [batch EXCEPT !.i = batch.i + 1]
      /\ UNCHANGED vars
  BY DEF ItemDuplicate
<1>3. /\ batch'.items = batch.items /\ batch'.i = batch.i + 1 /\ batch'.b = batch.b
      /\ batch'.cache = batch.cache /\ batch'.batchDedup = batch.batchDedup
  BY <1>1, <1>2 DEF BatchRow
<1>4. batch.i \in Nat /\ Len(batch.items) \in Nat /\ batch.b.published \in Nat
      /\ published \in Nat
  BY <1>1, ItemsOf DEF BatchRow, Pebble, TypeOK
<1>5. batch' \in BatchRow
  <2>1. batch \in BatchRow
    BY <1>1
  <2>2. batch' = [batch EXCEPT !.i = batch.i + 1]
    BY <1>2
  <2>3. batch.i + 1 \in Nat
    BY <1>4
  <2>. QED  BY <2>1, <2>2, <2>3 DEF BatchRow
<1>6. Room(batch.items)' /\ \A q : LoadGroupMeta(q)' = LoadGroupMeta(q)
  BY <1>1, <1>2, <1>3, RoomKept
<1>7. \A q : CachedMeta(q)' = CachedMeta(q)
  BY <1>3, <1>6 DEF CachedMeta
<1>8. /\ batch'.i \in 1..(Len(batch'.items) + 1)
      /\ batch'.b.published <= published + (batch'.i - 1)
  <2>1. batch.i + 1 \in 1..(Len(batch.items) + 1)
    BY <1>2, <1>4
  <2>2. batch.b.published <= published + ((batch.i + 1) - 1)
    BY <1>1, <1>4, OneMore
  <2>. QED  BY <1>3, <2>1, <2>2
<1>9. ASSUME NEW q \in Queues
      PROVE  CachedMeta(q).next <= LoadGroupMeta(q).next + (batch'.i - 1)
  <2>1. LoadGroupMeta(q).next \in Nat /\ CachedMeta(q).next \in Nat
    BY <1>1, LoadTyped, CacheTyped
  <2>2. CachedMeta(q).next <= LoadGroupMeta(q).next + (batch.i - 1)
    BY <1>1
  <2>. QED  BY <1>3, <1>4, <2>1, <2>2, OneMore
<1>10. UNCHANGED <<now, published, dedup, meta>>
  BY <1>2 DEF vars, store, history
<1>11. \A x \in DedupRefs : batch'.b.dedup[x].expiry > now'
          <=> dedup'[x].expiry > now' \/ x \in batch'.batchDedup
  BY <1>1, <1>3, <1>10
<1>12. LoopInv'
  BY <1>5, <1>6, <1>7, <1>8, <1>9, <1>10, <1>11 DEF LoopInv
<1>13. B' = B /\ BMeta' = BMeta
  <2>1. batch' # NoBatch
    BY <1>5, RealBatch
  <2>. QED  BY <1>3, <1>10, <2>1 DEF B, BMeta
<1>14. UNCHANGED Applied!vars
  BY <1>2, <1>13 DEF Applied!vars, Applied!store, Applied!timers, Applied!history,
     vars, store, timers, history
<1>. QED  BY <1>12, <1>14

\* A published item keeps the loop inside its room and records its key.
LEMMA PublishedStays ==
    ASSUME LoopInv, batch # NoBatch, TypeOK, Applied!TypeOK, ItemPublished
    PROVE  LoopInv' /\ Applied!Next
<1>. DEFINE g == CachedMeta(It.q)
            r == It.r
            exp == now + DedupWindow
<1>1. /\ batch \in BatchRow /\ batch.i \in 1..(Len(batch.items) + 1)
      /\ Room(batch.items) /\ batch.b.published <= published + (batch.i - 1)
      /\ \A q \in Queues : CachedMeta(q).next <= LoadGroupMeta(q).next + (batch.i - 1)
      /\ \A x \in DedupRefs :
            batch.b.dedup[x].expiry > now <=> dedup[x].expiry > now \/ x \in batch.batchDedup
  BY DEF LoopInv
<1>2. batch.i <= Len(batch.items) /\ UNCHANGED vars
  BY DEF ItemPublished
<1>3. /\ It.q \in Queues /\ It.r \in PublishReq /\ Applied!Publish(It.q, It.r)
      /\ B' = batch'.b /\ batch' # NoBatch
  BY ItemApplies
<1>4. Applied!Next
  BY <1>3, SameSets DEF Applied!Next, Applied!ClientNext
<1>5. Applied!TypeOK'
  <2>1. Applied!TypeOK /\ [Applied!Next]_(Applied!vars) => Applied!TypeOK'
    BY Applied!NextType, BrokerAssumption DEF AllAdminOps, Applied!AllAdminOps
  <2>. QED  BY <1>4, <2>1
<1>6. /\ batch'.items = batch.items /\ batch'.atomic = batch.atomic
      /\ batch'.i = batch.i + 1
      /\ batch'.cache = [batch.cache EXCEPT ![It.q] = Grown(g, r)]
      /\ batch'.batchDedup = IF r.dedup = NoKey THEN batch.batchDedup
                             ELSE batch.batchDedup \cup {Ref}
      /\ batch'.b.published = batch.b.published + 1
      /\ batch'.b.dedup = IF r.dedup = NoKey THEN batch.b.dedup
            ELSE [batch.b.dedup EXCEPT ![Ref] = [id |-> g.next, expiry |-> exp]]
      /\ batch' = [items |-> batch'.items, atomic |-> batch'.atomic, i |-> batch'.i,
                   b |-> batch'.b, cache |-> batch'.cache,
                   batchDedup |-> batch'.batchDedup]
      /\ batch'.b = [msgs |-> batch'.b.msgs, readyAt |-> batch'.b.readyAt,
                     msgExpiry |-> batch'.b.msgExpiry, dedup |-> batch'.b.dedup,
                     dedupExpiry |-> batch'.b.dedupExpiry,
                     published |-> batch'.b.published,
                     promised |-> batch'.b.promised]
  BY <1>1, ItemWrites
<1>7. batch.i \in Nat /\ Len(batch.items) \in Nat /\ batch.b.published \in Nat
      /\ published \in Nat /\ batch.batchDedup \in SUBSET DedupRefs
      /\ batch.items \in Batches /\ batch.atomic \in BOOLEAN
      /\ batch.cache \in [Queues -> GroupMeta \cup {NoMeta}]
      /\ batch.b.dedup \in [DedupRefs -> [id: Nat, expiry: Nat]]
  BY <1>1, ItemsOf DEF BatchRow, Pebble, TypeOK
<1>8. g \in GroupMeta /\ g.next \in Nat /\ (r.dedup # NoKey => Ref \in DedupRefs)
  BY <1>1, <1>2, <1>3, CacheTyped, ItTyped
<1>. HIDE DEF g, r
<1>9. Grown(g, r) \in GroupMeta /\ Grown(g, r).next = g.next + 1 /\ Grown(g, r).exists
  BY <1>8, GrownTyped DEF TypeOK
<1>10. batch' \in BatchRow
  <2>1. batch'.b \in Pebble
    <3>1. /\ B'.msgs \in [Keys -> Message \cup {NoMessage}]
          /\ B'.readyAt \subseteq Timer(Keys) /\ B'.msgExpiry \subseteq Timer(Keys)
          /\ B'.dedup \in [DedupRefs -> [id: Nat, expiry: Nat]]
          /\ B'.dedupExpiry \subseteq Timer(DedupRefs)
          /\ B'.published \in 0..MaxPublish /\ B'.promised \in [DedupRefs -> Nat]
      BY <1>5, SameSets, SameRows DEF Applied!TypeOK
    <3>2. batch'.b = [msgs |-> B'.msgs, readyAt |-> B'.readyAt,
                      msgExpiry |-> B'.msgExpiry, dedup |-> B'.dedup,
                      dedupExpiry |-> B'.dedupExpiry, published |-> B'.published,
                      promised |-> B'.promised]
      BY <1>3, <1>6
    <3>. QED  BY <3>1, <3>2 DEF Pebble
  <2>2. batch'.cache \in [Queues -> GroupMeta \cup {NoMeta}]
    BY <1>3, <1>6, <1>7, <1>9
  <2>3. batch'.batchDedup \in SUBSET DedupRefs
    BY <1>6, <1>7, <1>8
  <2>4. batch'.i \in Nat
    BY <1>6, <1>7
  <2>. QED  BY <1>6, <1>7, <2>1, <2>2, <2>3, <2>4 DEF BatchRow
<1>11. Room(batch.items)' /\ \A q : LoadGroupMeta(q)' = LoadGroupMeta(q)
  BY <1>1, <1>2, <1>6, RoomKept
<1>12. /\ batch'.i \in 1..(Len(batch'.items) + 1)
       /\ batch'.b.published <= published + (batch'.i - 1)
  <2>1. batch.i + 1 \in 1..(Len(batch.items) + 1)
    BY <1>2, <1>7
  <2>2. batch.b.published + 1 <= published + ((batch.i + 1) - 1)
    BY <1>1, <1>7, OneMore
  <2>. QED  BY <1>6, <2>1, <2>2
<1>13. ASSUME NEW q \in Queues
       PROVE  CachedMeta(q)'.next <= LoadGroupMeta(q).next + (batch'.i - 1)
  <2>1. LoadGroupMeta(q).next \in Nat /\ CachedMeta(q).next \in Nat
    BY <1>1, LoadTyped, CacheTyped
  <2>2. CachedMeta(q).next <= LoadGroupMeta(q).next + (batch.i - 1)
    BY <1>1
  <2>3. CachedMeta(q)'.next = CachedMeta(q).next \/ CachedMeta(q)'.next = CachedMeta(q).next + 1
    <3>1. CASE q = It.q
      BY <1>3, <1>6, <1>7, <1>9, <3>1 DEF CachedMeta, g
    <3>2. CASE q # It.q
      <4>1. batch'.cache[q] = batch.cache[q]
        BY <1>6, <1>7, <3>2
      <4>. QED  BY <1>11, <4>1 DEF CachedMeta
    <3>. QED  BY <3>1, <3>2
  <2>. QED  BY <1>6, <1>7, <2>1, <2>2, <2>3, OneMore
<1>14. UNCHANGED <<now, published, dedup>>
  BY <1>2 DEF vars, store, history
<1>15. ASSUME NEW x \in DedupRefs
       PROVE  batch'.b.dedup[x].expiry > now
                <=> dedup[x].expiry > now \/ x \in batch'.batchDedup
  <2>1. exp > now
    BY BrokerAssumption DEF TypeOK
  <2>2. batch'.b.dedup[x] = IF r.dedup # NoKey /\ x = Ref THEN [id |-> g.next, expiry |-> exp]
                            ELSE batch.b.dedup[x]
    BY <1>6, <1>7
  <2>3. x \in batch'.batchDedup <=> x \in batch.batchDedup \/ (r.dedup # NoKey /\ x = Ref)
    BY <1>6
  <2>. QED  BY <1>1, <2>1, <2>2, <2>3
<1>16. LoopInv'
  BY <1>10, <1>11, <1>12, <1>13, <1>14, <1>15 DEF LoopInv
<1>. QED  BY <1>4, <1>16

-----------------------------------------------------------------------------
(* What the broker keeps it keeps with batches.  A step of the whole is a  *)
(* step of the committed broker with nothing left uncommitted, the commit, *)
(* or a step of the broker that the batch builds: an invariant of both     *)
(* brokers is kept by each, as the step lemmas of the broker say.          *)

BatchInv == TypeOK /\ Applied!TypeOK /\ LoopInv

\* The three kinds of step: the committed broker's, the commit's, the batch's own.
LEMMA StepKinds ==
    ASSUME BatchInv, [BatchNext]_batchVars
    PROVE  /\ LoopInv'
           /\ \/ Settled' /\ [Next]_vars
              \/ Settled' /\ UNCHANGED Applied!vars
              \/ [Applied!Next]_(Applied!vars) /\ UNCHANGED vars
<1>. USE DEF BatchInv
<1>1. CASE Alone(Next)
  <2>1. batch' = NoBatch /\ [Next]_vars
    BY <1>1 DEF Alone
  <2>. QED  BY <2>1, NoneSettledNext DEF LoopInv
<1>2. ASSUME NEW items \in Batches, NEW atomic \in BOOLEAN, BatchBegin(items, atomic)
      PROVE  LoopInv' /\ Settled' /\ [Next]_vars
  BY <1>2, Starts DEF BatchBegin
<1>3. CASE BatchCrash
  <2>1. batch # NoBatch /\ batch' = FirstItem(batch.items, batch.atomic) /\ UNCHANGED vars
    BY <1>3 DEF BatchCrash
  <2>2. batch.items \in Batches /\ batch.atomic \in BOOLEAN /\ Room(batch.items)
    BY <2>1 DEF LoopInv, BatchRow
  <2>. QED  BY <2>1, <2>2, Starts
<1>4. CASE batch # NoBatch /\ ItemDuplicate
  <2>1. UNCHANGED vars
    BY <1>4 DEF ItemDuplicate
  <2>. QED  BY <1>4, <2>1, DuplicateStays
<1>5. CASE batch # NoBatch /\ ItemPublished
  <2>1. UNCHANGED vars
    BY <1>5 DEF ItemPublished
  <2>. QED  BY <1>5, <2>1, PublishedStays
<1>6. CASE ItemAborts
  <2>1. batch' = NoBatch /\ UNCHANGED vars
    BY <1>6 DEF ItemAborts
  <2>. QED  BY <2>1, NoneSettledNext DEF LoopInv
<1>7. CASE BatchCommit
  <2>1. batch' = NoBatch /\ Settled'
    BY <1>7, NoneSettledNext DEF BatchCommit
  <2>2. B = batch.b
        /\ BMeta = [q \in Queues |->
                      IF batch.cache[q].exists THEN batch.cache[q] ELSE meta[q]]
    BY <1>7 DEF BatchCommit, B, BMeta
  <2>3. /\ msgs' = B.msgs /\ meta' = BMeta /\ readyAt' = B.readyAt
        /\ msgExpiry' = B.msgExpiry /\ dedup' = B.dedup /\ dedupExpiry' = B.dedupExpiry
        /\ published' = B.published /\ promised' = B.promised
        /\ UNCHANGED <<now, leases, nextLease, tokens, dlq, leaseDeadline,
                       leaseMaxLife, picked, reapCmds, acked, dropped>>
    BY <1>7, <2>2 DEF BatchCommit
  <2>4. UNCHANGED Applied!vars
    BY <2>1, <2>3 DEF Settled, Applied!vars, Applied!store, Applied!timers, Applied!history
  <2>. QED  BY <2>1, <2>4 DEF LoopInv
<1>8. CASE UNCHANGED batchVars
  <2>1. UNCHANGED <<vars, batch>>
    BY <1>8 DEF batchVars
  <2>2. B' = B /\ BMeta' = BMeta
    BY <2>1 DEF B, BMeta, Unwritten, vars, store, timers, history
  <2>3. UNCHANGED Applied!vars
    BY <2>1, <2>2 DEF Applied!vars, Applied!store, Applied!timers, Applied!history,
       vars, store, timers, history
  <2>4. \A q : LoadGroupMeta(q)' = LoadGroupMeta(q) /\ CachedMeta(q)' = CachedMeta(q)
    BY <2>1 DEF CachedMeta, LoadGroupMeta, vars, store
  <2>5. LoopInv'
    BY <2>1, <2>4 DEF LoopInv, Room, vars, store, timers, history
  <2>. QED  BY <2>1, <2>3, <2>5
<1>. QED
  BY <1>1, <1>2, <1>3, <1>4, <1>5, <1>6, <1>7, <1>8 DEF BatchNext, BatchLoop

\* The loop's invariant holds at every item of every batch, after every crash.
THEOREM BatchLoopHeld == BatchSpec => []BatchInv
<1>1. BatchInit => BatchInv
  <2>. SUFFICES ASSUME BatchInit PROVE BatchInv
    OBVIOUS
  <2>1. TypeOK /\ Settled
    BY InitType, NoneSettled DEF BatchInit
  <2>. QED  BY <2>1, SettledType DEF BatchInv, LoopInv, BatchInit
<1>2. BatchInv /\ [BatchNext]_batchVars => BatchInv'
  <2>. SUFFICES ASSUME BatchInv, [BatchNext]_batchVars PROVE BatchInv'
    OBVIOUS
  <2>1. TypeOK /\ [Next]_vars => TypeOK'
    BY NextType
  <2>2. Applied!TypeOK /\ [Applied!Next]_(Applied!vars) => Applied!TypeOK'
    BY Applied!NextType, BrokerAssumption DEF AllAdminOps, Applied!AllAdminOps
  <2>. QED  BY <2>1, <2>2, StepKinds, SettledNext DEF BatchInv
<1>. QED  BY <1>1, <1>2, PTL DEF BatchSpec

\* The rows have their types with batches too.
THEOREM BatchTypeCorrect == BatchSpec => []TypeOK
<1>1. BatchInv => TypeOK
  BY DEF BatchInv
<1>. QED  BY <1>1, BatchLoopHeld, PTL

\* A message in flight is always within reach of the sweep and a delayed one always
\* wakes, also those that a batch brought in: its timer rows commit with its messages.
THEOREM BatchTimersHeld == BatchSpec => [](LeasedReclaimable /\ DelayedWakes)
<1>. DEFINE I == TimersHeld /\ Applied!TimersHeld
<1>1. BatchInit => I
  <2>. SUFFICES ASSUME BatchInit PROVE I
    OBVIOUS
  <2>1. Settled
    BY NoneSettled DEF BatchInit
  <2>2. TimersHeld
    BY DEF BatchInit, Init, TimersHeld, Reclaimable, Wakes, NoMessage
  <2>. QED  BY <2>1, <2>2, SettledTimers
<1>2. BatchInv /\ I /\ [BatchNext]_batchVars => I'
  <2>. SUFFICES ASSUME BatchInv, I, [BatchNext]_batchVars PROVE I'
    OBVIOUS
  <2>1. TypeOK /\ TimersHeld /\ [Next]_vars => TimersHeld'
    BY NextHeld
  <2>2. Applied!TypeOK /\ Applied!TimersHeld /\ [Applied!Next]_(Applied!vars) => Applied!TimersHeld'
    BY Applied!NextHeld, BrokerAssumption
    DEF AllAdminOps, Applied!AllAdminOps
  <2>. QED  BY <2>1, <2>2, StepKinds, SettledNext DEF BatchInv
<1>3. I => (LeasedReclaimable /\ DelayedWakes)
  BY DEF TimersHeld, Reclaimable, Wakes, LeasedReclaimable, DelayedWakes
<1>. QED  BY <1>1, <1>2, <1>3, BatchLoopHeld, PTL DEF BatchSpec

\* No token row outlives its lease, batches or not.
THEOREM BatchTokensNeverDangle == BatchSpec => []TokenNeverDangles
<1>. DEFINE I == TokensHeld /\ Applied!TokensHeld
<1>1. BatchInit => I
  <2>. SUFFICES ASSUME BatchInit PROVE I
    OBVIOUS
  <2>1. Settled
    BY NoneSettled DEF BatchInit
  <2>2. TokensHeld
    BY DEF BatchInit, Init, TokensHeld, TokenNeverDangles, LeasesBelow, NoLease
  <2>. QED  BY <2>1, <2>2, SettledTokens
<1>2. BatchInv /\ I /\ [BatchNext]_batchVars => I'
  <2>. SUFFICES ASSUME BatchInv, I, [BatchNext]_batchVars PROVE I'
    OBVIOUS
  <2>1. TypeOK /\ TokensHeld /\ [Next]_vars => TokensHeld'
    BY NextTokens
  <2>2. Applied!TypeOK /\ Applied!TokensHeld /\ [Applied!Next]_(Applied!vars) => Applied!TokensHeld'
    BY Applied!NextTokens, BrokerAssumption
    DEF AllAdminOps, Applied!AllAdminOps
  <2>. QED  BY <2>1, <2>2, StepKinds, SettledNext DEF BatchInv
<1>3. I => TokenNeverDangles
  BY DEF TokensHeld
<1>. QED  BY <1>1, <1>2, <1>3, BatchLoopHeld, PTL DEF BatchSpec

\* A key is remembered for the window promised, whichever item of whichever batch it
\* came with: the window starts with the commit of its batch, never without it.
THEOREM BatchDedupWindowHeld == BatchSpec => []DedupWindowHeld
<1>. DEFINE I == DedupWindowHeld /\ Applied!DedupWindowHeld
<1>1. BatchInit => I
  <2>. SUFFICES ASSUME BatchInit PROVE I
    OBVIOUS
  <2>1. Settled
    BY NoneSettled DEF BatchInit
  <2>2. DedupWindowHeld
    BY DEF BatchInit, Init, DedupWindowHeld
  <2>. QED  BY <2>1, <2>2, SettledDedup
<1>2. BatchInv /\ I /\ [BatchNext]_batchVars => I'
  <2>. SUFFICES ASSUME BatchInv, I, [BatchNext]_batchVars PROVE I'
    OBVIOUS
  <2>1. TypeOK /\ DedupWindowHeld /\ [Next]_vars => DedupWindowHeld'
    BY NextDedup
  <2>2. Applied!TypeOK /\ Applied!DedupWindowHeld /\ [Applied!Next]_(Applied!vars) => Applied!DedupWindowHeld'
    BY Applied!NextDedup, BrokerAssumption
    DEF AllAdminOps, Applied!AllAdminOps
  <2>. QED  BY <2>1, <2>2, StepKinds, SettledNext DEF BatchInv
<1>3. I => DedupWindowHeld
  OBVIOUS
<1>. QED  BY <1>1, <1>2, <1>3, BatchLoopHeld, PTL DEF BatchSpec

\* The queue's invariant, of both brokers.
LEMMA BatchQueueHeld ==
    ASSUME NoTeardown
    PROVE  BatchSpec => [](QueueInv /\ Applied!QueueInv)
<1>. DEFINE I == QueueInv /\ Applied!QueueInv
<1>1. BatchInit => I
  <2>. SUFFICES ASSUME BatchInit PROVE I
    OBVIOUS
  <2>1. Settled
    BY NoneSettled DEF BatchInit
  <2>2. QueueInv
    BY QueueInit DEF BatchInit
  <2>. QED  BY <2>1, <2>2, SettledQueue
<1>2. BatchInv /\ I /\ [BatchNext]_batchVars => I'
  <2>. SUFFICES ASSUME BatchInv, I, [BatchNext]_batchVars PROVE I'
    OBVIOUS
  <2>1. QueueInv /\ [Next]_vars => QueueInv'
    BY QueueStep
  <2>2. Applied!QueueInv /\ [Applied!Next]_(Applied!vars) => Applied!QueueInv'
    BY Applied!QueueStep, BrokerAssumption
    DEF NoTeardown, Applied!NoTeardown, AllAdminOps, Applied!AllAdminOps
  <2>. QED  BY <2>1, <2>2, StepKinds, SettledNext DEF BatchInv
<1>. QED  BY <1>1, <1>2, BatchLoopHeld, PTL DEF BatchSpec

\* The counters are exact after every batch: items of one group share one evolving
\* metadata row, a crash takes back all that a batch counted, and so does an abort.
THEOREM BatchCountersExact ==
    ASSUME NoTeardown
    PROVE  BatchSpec => []CountersExact
<1>1. QueueInv => CountersExact
  BY ExactCounters DEF QueueInv
<1>. QED  BY <1>1, BatchQueueHeld, PTL

\* A lease names the message it was given for, however batches fill the group.
THEOREM BatchLeasesOwnTheirMessages ==
    ASSUME NoTeardown
    PROVE  BatchSpec => []LeaseOwnsMessage
<1>1. QueueInv => LeaseOwnsMessage
  BY DEF QueueInv
<1>. QED  BY <1>1, BatchQueueHeld, PTL

\* A payload is in one place, in both brokers.
LEMMA BatchForkHeld ==
    ASSUME NoTeardown
    PROVE  BatchSpec => [](ForkInv /\ Applied!ForkInv)
<1>. DEFINE I == ForkInv /\ Applied!ForkInv
<1>1. BatchInit => I
  <2>. SUFFICES ASSUME BatchInit PROVE I
    OBVIOUS
  <2>1. Settled
    BY NoneSettled DEF BatchInit
  <2>2. ForkInv
    BY QueueInit DEF BatchInit, Init, ForkInv, Apart, BodiesKnown, Queued, NoMessage
  <2>. QED  BY <2>1, <2>2, SettledFork
<1>2. BatchInv /\ I /\ [BatchNext]_batchVars => I'
  <2>. SUFFICES ASSUME BatchInv, I, [BatchNext]_batchVars PROVE I'
    OBVIOUS
  <2>1. ForkInv /\ [Next]_vars => ForkInv'
    BY ForkStep
  <2>2. Applied!ForkInv /\ [Applied!Next]_(Applied!vars) => Applied!ForkInv'
    BY Applied!ForkStep, BrokerAssumption
    DEF NoTeardown, Applied!NoTeardown, AllAdminOps, Applied!AllAdminOps
  <2>. QED  BY <2>1, <2>2, StepKinds, SettledNext DEF BatchInv
<1>. QED  BY <1>1, <1>2, BatchLoopHeld, PTL DEF BatchSpec

\* A batch that is applied again after a crash puts no message in twice.
THEOREM BatchNeverForks ==
    ASSUME NoTeardown
    PROVE  BatchSpec => []NoMessageForked
<1>1. ForkInv => NoMessageForked
  BY ApartForked DEF ForkInv
<1>. QED  BY <1>1, BatchForkHeld, PTL

\* Where ids are not used again, rows name the message they were written for.
LEMMA BatchIdHeld ==
    ASSUME NoReuse
    PROVE  BatchSpec => [](IdInv /\ Applied!IdInv)
<1>. DEFINE I == IdInv /\ Applied!IdInv
<1>1. BatchInit => I
  <2>. SUFFICES ASSUME BatchInit PROVE I
    OBVIOUS
  <2>1. Settled
    BY NoneSettled DEF BatchInit
  <2>2. IdInv
    BY IdInit DEF BatchInit
  <2>. QED  BY <2>1, <2>2, SettledId
<1>2. BatchInv /\ I /\ [BatchNext]_batchVars => I'
  <2>. SUFFICES ASSUME BatchInv, I, [BatchNext]_batchVars PROVE I'
    OBVIOUS
  <2>1. IdInv /\ [Next]_vars => IdInv'
    BY IdStep
  <2>2. Applied!IdInv /\ [Applied!Next]_(Applied!vars) => Applied!IdInv'
    BY Applied!IdStep, BrokerAssumption
    DEF NoReuse, Applied!NoReuse, NoTeardown, Applied!NoTeardown, AllAdminOps, Applied!AllAdminOps
  <2>. QED  BY <2>1, <2>2, StepKinds, SettledNext DEF BatchInv
<1>. QED  BY <1>1, <1>2, BatchLoopHeld, PTL DEF BatchSpec

\* Every message of a committed batch is accounted for where ids are not used again.
THEOREM BatchLosesNothing ==
    ASSUME NoReuse
    PROVE  BatchSpec => []NoMessageLost
<1>1. IdInv => NoMessageLost
  BY AccountedLost DEF IdInv
<1>. QED  BY <1>1, BatchIdHeld, PTL

\* A message is dead-lettered for its time-to-live only when that is over, also when
\* the row of MSG_EXPIRY was written by a batch.
THEOREM BatchTtlStaysHonest ==
    ASSUME NoReuse
    PROVE  BatchSpec => []TtlHonest
<1>1. IdInv => TtlHonest
  BY DEF IdInv
<1>. QED  BY <1>1, BatchIdHeld, PTL

\* A batch puts its messages where none is: what it will commit has every message
\* of the committed broker as it stands.
NothingOverwritten == \A k \in Keys : msgs[k] # NoMessage => B.msgs[k] = msgs[k]

\* An item takes the next id of its group, which is free.
LEMMA ItemOverwritesNothing ==
    ASSUME LoopInv, batch # NoBatch, TypeOK, Applied!QueueInv, NothingOverwritten,
           ItemPublished
    PROVE  NothingOverwritten'
<1>. DEFINE k == <<It.q, CachedMeta(It.q).next>>
            m == RowOf(It.r, batch.b.published + 1)
<1>1. batch \in BatchRow /\ Applied!TypeOK
  BY DEF LoopInv, Applied!QueueInv
<1>2. /\ It.q \in Queues /\ Applied!Publish(It.q, It.r) /\ B' = batch'.b /\ msgs' = msgs
      /\ B = batch.b
  BY <1>1, ItemApplies, InFlight DEF ItemPublished, vars, store
<1>3. batch'.b.msgs = [batch.b.msgs EXCEPT ![k] = m]
  BY <1>1, ItemWrites
<1>4. batch.b.msgs \in [Keys -> Message \cup {NoMessage}]
  BY <1>1 DEF BatchRow, Pebble
<1>5. k \in Keys /\ batch.b.msgs[k] = NoMessage
  <2>1. /\ CachedMeta(It.q) = Applied!LoadGroupMeta(It.q)
        /\ CachedMeta(It.q).next \in Nat
    BY <1>1, <1>2, InFlight, CacheTyped
  <2>2. CachedMeta(It.q).next \in MsgIds
    BY <1>2, <2>1, SameSets DEF Applied!Publish, Applied!PublishOne
  <2>3. k \in Keys
    BY <1>2, <2>2 DEF Keys
  <2>4. k[2] >= Applied!LoadGroupMeta(k[1]).next
    BY <2>1
  <2>5. Applied!Fresh
    BY DEF Applied!QueueInv
  <2>6. B.msgs[k] = Applied!NoMessage
    BY <2>3, <2>4, <2>5, SameSets DEF Applied!Fresh
  <2>. QED  BY <1>2, <2>3, <2>6, SameRows
<1>. HIDE DEF k, m
<1>6. ASSUME NEW j \in Keys, msgs[j] # NoMessage PROVE batch'.b.msgs[j] = msgs[j]
  <2>1. batch.b.msgs[j] = msgs[j]
    BY <1>2, <1>6 DEF NothingOverwritten
  <2>2. j # k
    BY <1>5, <1>6, <2>1
  <2>. QED  BY <1>3, <1>4, <1>6, <2>1, <2>2
<1>. QED  BY <1>2, <1>6 DEF NothingOverwritten

\* Every step keeps the messages apart from those the batch brings.
LEMMA OverwriteStep ==
    ASSUME BatchInv, Applied!QueueInv, NothingOverwritten, [BatchNext]_batchVars
    PROVE  NothingOverwritten'
<1>. USE DEF BatchInv
<1>1. Settled' => NothingOverwritten'
  BY DEF Settled, NothingOverwritten
<1>2. CASE batch # NoBatch /\ ItemPublished
  BY <1>2, ItemOverwritesNothing
<1>3. CASE batch # NoBatch /\ ItemDuplicate
  <2>1. batch' = [batch EXCEPT !.i = batch.i + 1] /\ msgs' = msgs /\ batch \in BatchRow
    BY <1>3 DEF ItemDuplicate, vars, store, LoopInv
  <2>2. batch'.b = batch.b /\ batch'.items = batch.items
    BY <2>1 DEF BatchRow
  <2>3. batch' # NoBatch
    <3>1. batch.items # << >>
      BY <2>1, ItemsOf DEF BatchRow
    <3>. QED  BY <2>2, <3>1 DEF NoBatch
  <2>. QED  BY <1>3, <2>1, <2>2, <2>3 DEF NothingOverwritten, B
<1>4. CASE UNCHANGED batchVars
  <2>1. msgs' = msgs /\ B' = B
    BY <1>4 DEF batchVars, vars, store, timers, history, B, Unwritten
  <2>. QED  BY <2>1 DEF NothingOverwritten
<1>5. Alone(Next) \/ BatchCommit \/ ItemAborts => Settled'
  BY NoneSettledNext DEF Alone, BatchCommit, ItemAborts
<1>6. ASSUME NEW items \in Batches, NEW atomic \in BOOLEAN, BatchBegin(items, atomic)
      PROVE  Settled'
  BY <1>6, Starts DEF BatchBegin
<1>7. BatchCrash => Settled'
  <2>. SUFFICES ASSUME BatchCrash PROVE Settled'
    OBVIOUS
  <2>1. batch # NoBatch /\ batch' = FirstItem(batch.items, batch.atomic) /\ UNCHANGED vars
    BY DEF BatchCrash
  <2>2. batch.items \in Batches /\ batch.atomic \in BOOLEAN /\ Room(batch.items)
    BY <2>1 DEF LoopInv, BatchRow
  <2>. QED  BY <2>1, <2>2, Starts
<1>. QED  BY <1>1, <1>2, <1>3, <1>4, <1>5, <1>6, <1>7 DEF BatchNext, BatchLoop

\* No item of a batch is written over a message, neither over one that waits nor over
\* one that an earlier item of the batch brought: publishOne takes its id from the
\* shared metadata row, which is ahead of every id in use.
THEOREM BatchOverwritesNothing ==
    ASSUME NoTeardown
    PROVE  BatchSpec => []NothingOverwritten
<1>1. BatchInit => NothingOverwritten
  BY NoneSettled DEF BatchInit, Settled, NothingOverwritten
<1>2. BatchInv /\ Applied!QueueInv /\ NothingOverwritten /\ [BatchNext]_batchVars
        => NothingOverwritten'
  BY OverwriteStep
<1>. QED  BY <1>1, <1>2, BatchLoopHeld, BatchQueueHeld, PTL DEF BatchSpec

\* A delay is served in full with batches too: the commit of a batch leaves every
\* message that waits as it is.
THEOREM BatchDelaysAreServed ==
    ASSUME NoReuse
    PROVE  BatchSpec => DelayServed
<1>1. NoTeardown
  BY DEF NoReuse
<1>2. ASSUME BatchInv, IdInv, NothingOverwritten, [BatchNext]_batchVars,
             NEW k \in Keys, msgs[k].state = "DELAYED", msgs'[k].state = "READY"
      PROVE  msgs[k].due <= now
  <2>1. CASE [Next]_vars
    BY <1>2, <2>1, DelayStep
  <2>2. CASE Settled' /\ UNCHANGED Applied!vars
    <3>1. msgs' = B.msgs
      BY <2>2 DEF Settled, Applied!vars, Applied!store
    <3>2. msgs[k] # NoMessage
      BY <1>2 DEF NoMessage
    <3>3. msgs'[k] = msgs[k]
      BY <1>2, <3>1, <3>2 DEF NothingOverwritten
    <3>. QED  BY <1>2, <3>3
  <2>3. CASE UNCHANGED vars
    BY <1>2, <2>3 DEF vars, store
  <2>. QED  BY <1>2, <2>1, <2>2, <2>3, StepKinds
<1>3. BatchInv /\ IdInv /\ NothingOverwritten /\ [BatchNext]_batchVars =>
        [\A k \in Keys :
            msgs[k].state = "DELAYED" /\ msgs'[k].state = "READY"
            /\ msgs'[k].body = msgs[k].body => msgs[k].due <= now]_vars
  BY <1>2
<1>4. BatchSpec => []NothingOverwritten
  BY <1>1, BatchOverwritesNothing
<1>. QED
  BY <1>3, <1>4, BatchLoopHeld, BatchIdHeld, PTL DEF BatchSpec, DelayServed

-----------------------------------------------------------------------------
(* The producer's view.  AcceptInv says what the batch holds after some of *)
(* its items in the words of Intake: the messages that Intake numbers, in  *)
(* their place behind those that wait, and the keys that Intake remembers. *)
(* A redrive brings an old message back behind newer ones, which Intake    *)
(* does not promise; it is left out.                                       *)

InUse(M, q) == {i \in MsgIds : M[<<q, i>>].state # "NONE"}
OrderOf(M, q) ==
    {<<M[<<q, p[1]>>].body, M[<<q, p[2]>>].body>> :
        p \in {x \in InUse(M, q) \X InUse(M, q) : x[1] <= x[2]}}

Call       == [i \in DOMAIN batch.items |-> AbstractItem(batch.items[i])]
Remembered == {r \in DedupRefs : dedup[r].expiry > now}

\* The items before the next that were published, and the messages they became.
Done     == {j \in Producer!Fresh(Call) : j < batch.i}
NewIn(q) == {Producer!Number(Call, j) : j \in {x \in Done : Call[x].q = q}}

\* New messages N behind a queue.
Followed(Q, N) == Q \cup ({p[1] : p \in Q} \X N) \cup {p \in N \X N : p[1] <= p[2]}

AcceptInv ==
    batch # NoBatch =>
        /\ batch.b.published = published + Cardinality(Done)
        /\ \A r \in DedupRefs : r \in batch.batchDedup <=>
              r \notin Remembered /\ \E j \in DOMAIN Call : j < batch.i /\ Call[j].ref = r
        /\ \A r \in DedupRefs : r \in batch.batchDedup <=> \E j \in Done : Call[j].ref = r
        /\ \A q \in Queues : OrderOf(batch.b.msgs, q) = Followed(InOrder(q), NewIn(q))

\* Payload p[1] of message i stands before payload p[2] of message j.
Stands(M, q, p, i, j) ==
    /\ i \in InUse(M, q) /\ j \in InUse(M, q) /\ i <= j
    /\ p = <<M[<<q, i>>].body, M[<<q, j>>].body>>

\* The two messages that a pair of the order stands for,
LEMMA OrderOut ==
    ASSUME NEW M, NEW q, NEW p \in OrderOf(M, q)
    PROVE  \E i, j : Stands(M, q, p, i, j)
<1>1. PICK x \in InUse(M, q) \X InUse(M, q) :
         x[1] <= x[2] /\ p = <<M[<<q, x[1]>>].body, M[<<q, x[2]>>].body>>
  BY DEF OrderOf
<1>2. Stands(M, q, p, x[1], x[2])
  BY <1>1 DEF Stands
<1>. QED  BY <1>2

\* and the pair of two messages that stand so.
LEMMA OrderIn ==
    ASSUME NEW M, NEW q, NEW p, NEW i, NEW j, Stands(M, q, p, i, j)
    PROVE  p \in OrderOf(M, q)
<1>. DEFINE x == <<i, j>>
<1>1. x \in {y \in InUse(M, q) \X InUse(M, q) : y[1] <= y[2]}
  BY DEF Stands
<1>2. p = <<M[<<q, x[1]>>].body, M[<<q, x[2]>>].body>>
  BY DEF Stands
<1>. HIDE DEF x
<1>. QED  BY <1>1, <1>2 DEF OrderOf

\* Every message in use stands before itself, so the first parts are the messages.
LEMMA FirstIn ==
    ASSUME NEW M, NEW q, NEW i \in InUse(M, q)
    PROVE  \E p \in OrderOf(M, q) : p[1] = M[<<q, i>>].body
<1>. DEFINE b == M[<<q, i>>].body
<1>1. Stands(M, q, <<b, b>>, i, i)
  BY BrokerAssumption DEF InUse, MsgIds, Stands
<1>. HIDE DEF b
<1>2. <<b, b>> \in OrderOf(M, q)
  BY <1>1, OrderIn
<1>. QED  BY <1>2 DEF b

\* The earlier body of a pair is the body of a row.
LEMMA FirstOut ==
    ASSUME NEW M, NEW q, NEW p \in OrderOf(M, q)
    PROVE  \E i : i \in InUse(M, q) /\ M[<<q, i>>].body = p[1]
<1>1. PICK i, j : Stands(M, q, p, i, j)
  BY OrderOut
<1>2. i \in InUse(M, q) /\ M[<<q, i>>].body = p[1]
  BY <1>1 DEF Stands
<1>. QED  BY <1>2

\* The order of a group depends on its own rows.
LEMMA OrderSame ==
    ASSUME NEW M, NEW W, NEW q, \A i \in MsgIds : W[<<q, i>>] = M[<<q, i>>]
    PROVE  OrderOf(W, q) = OrderOf(M, q)
<1>1. InUse(W, q) = InUse(M, q)
  BY DEF InUse
<1>2. \A i \in InUse(M, q) : W[<<q, i>>] = M[<<q, i>>]
  BY DEF InUse
<1>3. \A p, i, j : Stands(W, q, p, i, j) <=> Stands(M, q, p, i, j)
  BY <1>1, <1>2 DEF Stands
<1>4. \A p : p \in OrderOf(W, q) <=> p \in OrderOf(M, q)
  BY <1>3, OrderOut, OrderIn
<1>. QED  BY <1>4

Put(M, k, m) == [M EXCEPT ![k] = m]

\* A message put in behind all others follows them, and nothing else moves.
LEMMA OrderGrows ==
    ASSUME NEW M \in [Keys -> Message \cup {NoMessage}], NEW q \in Queues, NEW n \in MsgIds,
           M[<<q, n>>] = NoMessage, \A i \in InUse(M, q) : i < n, NEW m \in Message
    PROVE  /\ OrderOf(Put(M, <<q, n>>, m), q) = Followed(OrderOf(M, q), {m.body})
           /\ \A x \in Queues : x # q => OrderOf(Put(M, <<q, n>>, m), x) = OrderOf(M, x)
<1>. DEFINE Q == OrderOf(M, q)
            b == m.body
            W == Put(M, <<q, n>>, m)
<1>1. \A x \in Queues : \A i \in MsgIds : <<x, i>> \in Keys
  BY DEF Keys
<1>2. \A x \in Queues : \A i \in MsgIds :
         W[<<x, i>>] = IF x = q /\ i = n THEN m ELSE M[<<x, i>>]
  BY <1>1, Zenon DEF Put
<1>3. m.state # "NONE" /\ NoMessage.state = "NONE"
  BY DEF Message, NoMessage
<1>. HIDE DEF W, b
<1>4. InUse(W, q) = InUse(M, q) \cup {n} /\ n \notin InUse(M, q)
  <2>1. \A i : i \in InUse(W, q) <=> i \in InUse(M, q) \/ i = n
    BY <1>2, <1>3 DEF InUse
  <2>2. n \notin InUse(M, q)
    BY <1>3 DEF InUse
  <2>. QED  BY <2>1, <2>2
<1>5. \A i \in InUse(M, q) : i < n /\ W[<<q, i>>] = M[<<q, i>>] /\ i \in Nat
  BY <1>2, <1>4, BrokerAssumption DEF InUse, MsgIds
<1>6. W[<<q, n>>].body = b /\ n \in Nat /\ n <= n
  BY <1>2, BrokerAssumption DEF b, MsgIds
<1>7. ASSUME NEW p \in OrderOf(W, q) PROVE p \in Followed(Q, {b})
  <2>1. PICK i, j : Stands(W, q, p, i, j)
    BY OrderOut
  <2>2. CASE j # n
    <3>1. Stands(M, q, p, i, j)
      BY <1>4, <1>5, <1>6, <2>1, <2>2 DEF Stands
    <3>2. p \in Q
      BY <3>1, OrderIn
    <3>. QED  BY <3>2 DEF Followed
  <2>3. CASE j = n /\ i # n
    <3>1. i \in InUse(M, q) /\ p = <<M[<<q, i>>].body, b>>
      BY <1>4, <1>5, <1>6, <2>1, <2>3 DEF Stands
    <3>2. PICK x \in Q : x[1] = M[<<q, i>>].body
      BY <3>1, FirstIn
    <3>3. p \in {y[1] : y \in Q} \X {b}
      BY <3>1, <3>2
    <3>. QED  BY <3>3 DEF Followed
  <2>4. CASE j = n /\ i = n
    <3>1. p = <<b, b>> /\ b \in Nat
      BY <1>6, <2>1, <2>4 DEF b, Message, Bodies, Stands
    <3>2. p \in {y \in {b} \X {b} : y[1] <= y[2]}
      BY <3>1
    <3>. QED  BY <3>2 DEF Followed
  <2>. QED  BY <2>2, <2>3, <2>4
<1>8. ASSUME NEW p \in Followed(Q, {b}) PROVE p \in OrderOf(W, q)
  <2>1. CASE p \in Q
    <3>1. PICK i, j : Stands(M, q, p, i, j)
      BY <2>1, OrderOut
    <3>2. Stands(W, q, p, i, j)
      BY <1>4, <1>5, <3>1 DEF Stands
    <3>. QED  BY <3>2, OrderIn
  <2>2. CASE p \in {y[1] : y \in Q} \X {b}
    <3>1. PICK x \in Q : p = <<x[1], b>>
      BY <2>2
    <3>2. PICK i : i \in InUse(M, q) /\ M[<<q, i>>].body = x[1]
      BY FirstOut
    <3>3. Stands(W, q, p, i, n)
      BY <1>4, <1>5, <1>6, <3>1, <3>2 DEF Stands
    <3>. QED  BY <3>3, OrderIn
  <2>3. CASE p \in {y \in {b} \X {b} : y[1] <= y[2]}
    <3>1. p = <<b, b>>
      BY <2>3
    <3>2. Stands(W, q, p, n, n)
      BY <1>4, <1>6, <3>1 DEF Stands
    <3>. QED  BY <3>2, OrderIn
  <2>. QED  BY <2>1, <2>2, <2>3 DEF Followed
<1>9. OrderOf(W, q) = Followed(Q, {b})
  BY <1>7, <1>8
<1>10. ASSUME NEW x \in Queues, x # q PROVE OrderOf(W, x) = OrderOf(M, x)
  <2>1. \A i \in MsgIds : W[<<x, i>>] = M[<<x, i>>]
    BY <1>2, <1>10
  <2>. QED  BY <2>1, OrderSame
<1>. QED  BY <1>9, <1>10 DEF W, b

\* New messages one after the other stand as new messages at once.
LEMMA FollowedTwice ==
    ASSUME NEW Q, NEW N \in SUBSET Nat, NEW b \in Nat, \A n \in N : n < b
    PROVE  Followed(Followed(Q, N), {b}) = Followed(Q, N \cup {b})
<1>. DEFINE A == {p[1] : p \in Q}
            L == {p \in N \X N : p[1] <= p[2]}
            R == Followed(Q, N)
            Z == {p[1] : p \in R}
<1>1. R = Q \cup (A \X N) \cup L
  BY DEF Followed
<1>. HIDE DEF A, L, R
<1>2. Z = A \cup N
  <2>1. ASSUME NEW z \in Z PROVE z \in A \cup N
    <3>1. PICK p \in R : z = p[1]
      OBVIOUS
    <3>2. CASE p \in Q
      BY <3>1, <3>2 DEF A
    <3>3. CASE p \in A \X N
      BY <3>1, <3>3
    <3>4. CASE p \in L
      BY <3>1, <3>4 DEF L
    <3>. QED  BY <1>1, <3>2, <3>3, <3>4
  <2>2. ASSUME NEW z \in A PROVE z \in Z
    <3>1. PICK p \in Q : z = p[1]
      BY DEF A
    <3>. QED  BY <1>1, <3>1
  <2>3. ASSUME NEW z \in N PROVE z \in Z
    <3>1. <<z, z>> \in L
      BY DEF L
    <3>2. <<z, z>> \in R
      BY <1>1, <3>1
    <3>3. z = <<z, z>>[1]
      OBVIOUS
    <3>. QED  BY <3>2, <3>3
  <2>. QED  BY <2>1, <2>2, <2>3
<1>3. Followed(R, {b}) = R \cup ((A \cup N) \X {b}) \cup {p \in {b} \X {b} : p[1] <= p[2]}
  BY <1>2 DEF Followed
<1>4. Followed(Q, N \cup {b})
        = Q \cup (A \X (N \cup {b})) \cup {p \in (N \cup {b}) \X (N \cup {b}) : p[1] <= p[2]}
  BY DEF Followed, A
<1>5. {p \in (N \cup {b}) \X (N \cup {b}) : p[1] <= p[2]}
        = L \cup (N \X {b}) \cup {p \in {b} \X {b} : p[1] <= p[2]}
  <2>1. \A n \in N : n <= b /\ ~(b <= n)
    OBVIOUS
  <2>. QED  BY <2>1 DEF L
<1>6. A \X (N \cup {b}) = (A \X N) \cup (A \X {b})
  OBVIOUS
<1>7. (A \cup N) \X {b} = (A \X {b}) \cup (N \X {b})
  OBVIOUS
<1>8. Followed(R, {b}) = Followed(Q, N \cup {b})
  <2>. DEFINE c1 == A \X N
              c2 == A \X {b}
              c3 == N \X {b}
              c4 == {p \in {b} \X {b} : p[1] <= p[2]}
  <2>1. Followed(R, {b}) = (Q \cup c1 \cup L) \cup (c2 \cup c3) \cup c4
    BY <1>1, <1>3, <1>7
  <2>2. Followed(Q, N \cup {b}) = Q \cup (c1 \cup c2) \cup (L \cup c3 \cup c4)
    BY <1>4, <1>5, <1>6
  <2>. HIDE DEF c1, c2, c3, c4
  <2>. QED  BY <2>1, <2>2
<1>. QED  BY <1>8 DEF R

\* Intake counts as the batch does.
LEMMA SameCard == \A S : Producer!Cardinality(S) = Cardinality(S)
BY Zenon DEF Cardinality, Producer!Cardinality, IsFiniteSet, Producer!IsFiniteSet

\* The items that Intake takes for new, spelled out for the broker.
LEMMA FreshIs ==
    \A c, i : i \in Producer!Fresh(c) <=>
        /\ i \in DOMAIN c
        /\ \/ c[i].ref = NoKey
           \/ c[i].ref \notin Remembered /\ \A j \in 1..(i - 1) : c[j].ref # c[i].ref
BY DEF Producer!Fresh, Remembered

\* The call that Intake sees, item by item.
LEMMA CallItems ==
    ASSUME batch \in BatchRow
    PROVE  /\ Len(batch.items) \in Nat /\ DOMAIN Call = 1..Len(batch.items)
           /\ \A j \in 1..Len(batch.items) :
                 /\ Call[j].q = batch.items[j].q /\ Call[j].q \in Queues
                 /\ Call[j].ref = IF batch.items[j].r.dedup = NoKey THEN NoKey
                                  ELSE <<batch.items[j].q[1], batch.items[j].r.dedup>>
                 /\ Call[j].ref \in DedupRefs \cup {NoKey}
                 /\ Call[j].ref = NoKey <=> batch.items[j].r.dedup = NoKey
                 /\ Call[j] \in [q: Queues, ref: DedupRefs \cup {NoKey}]
<1>1. batch.items \in Batches
  BY DEF BatchRow
<1>2. /\ Len(batch.items) \in Nat /\ DOMAIN batch.items = 1..Len(batch.items)
      /\ \A j \in 1..Len(batch.items) : batch.items[j] \in Item
  BY <1>1, ItemsOf
<1>3. DOMAIN Call = 1..Len(batch.items)
      /\ \A j \in 1..Len(batch.items) : Call[j] = AbstractItem(batch.items[j])
  BY <1>2 DEF Call
<1>4. ASSUME NEW it \in Item
      PROVE  /\ AbstractItem(it).q = it.q /\ it.q \in Queues
             /\ AbstractItem(it).ref = IF it.r.dedup = NoKey THEN NoKey
                                       ELSE <<it.q[1], it.r.dedup>>
             /\ AbstractItem(it).ref \in DedupRefs \cup {NoKey}
             /\ AbstractItem(it).ref = NoKey <=> it.r.dedup = NoKey
             /\ AbstractItem(it) \in [q: Queues, ref: DedupRefs \cup {NoKey}]
  <2>1. it.q \in Queues /\ it.r \in PublishReq
    BY DEF Item
  <2>2. it.q[1] \in Lanes /\ it.r.dedup \in DedupKeys \cup {NoKey}
    BY <2>1 DEF Queues, PublishReq
  <2>3. it.r.dedup # NoKey => <<it.q[1], it.r.dedup>> \in DedupRefs
    BY <2>2 DEF DedupRefs
  <2>. QED  BY <2>1, <2>3, KeyAssumption DEF AbstractItem
<1>. QED  BY <1>2, <1>3, <1>4

\* An item is published if and only if Intake calls its message new.
LEMMA ItemFresh ==
    ASSUME LoopInv, AcceptInv, batch # NoBatch, batch.i <= Len(batch.items)
    PROVE  batch.i \in Producer!Fresh(Call) <=> ~IsDuplicate(It.q, It.r) /\ ~InBatch
<1>. DEFINE i == batch.i
<1>1. /\ batch \in BatchRow /\ i \in 1..(Len(batch.items) + 1)
      /\ \A r \in DedupRefs : r \in batch.batchDedup <=>
            r \notin Remembered /\ \E j \in DOMAIN Call : j < batch.i /\ Call[j].ref = r
  BY DEF LoopInv, AcceptInv
<1>2. /\ Len(batch.items) \in Nat /\ DOMAIN Call = 1..Len(batch.items) /\ i \in Nat
      /\ i \in 1..Len(batch.items)
      /\ Call[i].ref = IF It.r.dedup = NoKey THEN NoKey ELSE Ref
      /\ Call[i].ref \in DedupRefs \cup {NoKey}
      /\ Call[i].ref = NoKey <=> It.r.dedup = NoKey
  <2>1. Len(batch.items) \in Nat /\ i \in Nat
    BY <1>1, CallItems DEF BatchRow
  <2>2. i \in 1..Len(batch.items)
    BY <1>1, <2>1
  <2>. QED  BY <1>1, <2>1, <2>2, CallItems DEF It, Ref
<1>3. i \in Producer!Fresh(Call) <=>
        \/ Call[i].ref = NoKey
        \/ Call[i].ref \notin Remembered /\ \A j \in 1..(i - 1) : Call[j].ref # Call[i].ref
  BY <1>2, FreshIs
<1>4. CASE It.r.dedup = NoKey
  BY <1>2, <1>3, <1>4 DEF IsDuplicate, InBatch
<1>5. CASE It.r.dedup # NoKey
  <2>1. Call[i].ref = Ref /\ Ref \in DedupRefs /\ Call[i].ref # NoKey
    BY <1>2, <1>5
  <2>2. IsDuplicate(It.q, It.r) <=> Ref \in Remembered
    BY <1>5, <2>1 DEF IsDuplicate, Remembered, Ref
  <2>3. InBatch <=> Ref \in batch.batchDedup
    BY <1>5 DEF InBatch
  <2>4. (\A j \in 1..(i - 1) : Call[j].ref # Ref)
          <=> ~\E j \in DOMAIN Call : j < batch.i /\ Call[j].ref = Ref
    <3>1. \A j : j \in 1..(i - 1) <=> j \in DOMAIN Call /\ j < batch.i
      BY <1>2
    <3>. QED  BY <3>1
  <2>5. Ref \in batch.batchDedup <=>
          Ref \notin Remembered /\ \E j \in DOMAIN Call : j < batch.i /\ Call[j].ref = Ref
    BY <1>1, <2>1
  <2>6. i \in Producer!Fresh(Call) <=>
          Ref \notin Remembered /\ \A j \in 1..(i - 1) : Call[j].ref # Ref
    BY <1>3, <2>1
  <2>. QED  BY <2>2, <2>3, <2>4, <2>5, <2>6
<1>. QED  BY <1>4, <1>5

\* The items done grow by the one whose turn it is, if it is new.
LEMMA DoneGrows ==
    ASSUME batch \in BatchRow, NEW i \in Nat
    PROVE  LET F == Producer!Fresh(Call)
               D(n) == {j \in F : j < n}
           IN  /\ IsFiniteSet(F) /\ F \subseteq Nat
               /\ IsFiniteSet(D(i)) /\ Cardinality(D(i)) \in Nat
               /\ i \notin F => D(i + 1) = D(i)
               /\ i \in F => /\ D(i + 1) = D(i) \cup {i}
                             /\ Cardinality(D(i + 1)) = Cardinality(D(i)) + 1
                             /\ Producer!Number(Call, i) = published + (Cardinality(D(i)) + 1)
               /\ \A j \in D(i) :
                     /\ Cardinality({x \in F : x <= j}) \in Nat
                     /\ Cardinality({x \in F : x <= j}) <= Cardinality(D(i))
                     /\ Producer!Number(Call, j) = published + Cardinality({x \in F : x <= j})
<1>. DEFINE F == Producer!Fresh(Call)
            D(n) == {j \in F : j < n}
<1>1. F \subseteq 1..Len(batch.items) /\ Len(batch.items) \in Nat
  BY FreshIs, CallItems
<1>2. IsFiniteSet(F) /\ F \subseteq Nat
  <2>1. IsFiniteSet(1..Len(batch.items))
    BY <1>1, FS_Interval
  <2>. QED  BY <1>1, <2>1, FS_Subset
<1>3. \A n : Producer!Number(Call, n) = published + Cardinality({x \in F : x <= n})
  BY SameCard DEF Producer!Number
<1>. HIDE DEF F
<1>4. IsFiniteSet(D(i)) /\ Cardinality(D(i)) \in Nat
  <2>1. D(i) \subseteq F
    OBVIOUS
  <2>. QED  BY <1>2, <2>1, FS_Subset, FS_CardinalityType
<1>5. \A x \in F : (x < i + 1 <=> x < i \/ x = i) /\ (x <= i <=> x < i \/ x = i) /\ ~(i < i)
  <2>. SUFFICES ASSUME NEW x \in F
                PROVE  (x < i + 1 <=> x < i \/ x = i) /\ (x <= i <=> x < i \/ x = i) /\ ~(i < i)
    OBVIOUS
  <2>1. x \in Nat
    BY <1>2
  <2>. QED  BY <2>1
<1>6. ASSUME i \in F
      PROVE  /\ D(i + 1) = D(i) \cup {i}
             /\ Cardinality(D(i + 1)) = Cardinality(D(i)) + 1
             /\ Producer!Number(Call, i) = published + (Cardinality(D(i)) + 1)
  <2>1. D(i + 1) = D(i) \cup {i} /\ i \notin D(i) /\ {x \in F : x <= i} = D(i + 1)
    BY <1>5, <1>6
  <2>2. Cardinality(D(i) \cup {i}) = Cardinality(D(i)) + 1
    BY <1>4, <2>1, FS_AddElement
  <2>. QED  BY <1>3, <2>1, <2>2
<1>7. ASSUME NEW j \in D(i)
      PROVE  /\ Cardinality({x \in F : x <= j}) \in Nat
             /\ Cardinality({x \in F : x <= j}) <= Cardinality(D(i))
  <2>1. ASSUME NEW x \in F, x <= j PROVE x < i
    <3>1. x \in Nat /\ j \in Nat /\ j < i
      BY <1>2
    <3>. QED  BY <2>1, <3>1
  <2>2. {x \in F : x <= j} \subseteq D(i)
    BY <2>1
  <2>. QED  BY <1>4, <2>2, FS_Subset, FS_CardinalityType
<1>8. i \notin F => D(i + 1) = D(i)
  BY <1>5
<1>. QED  BY <1>2, <1>3, <1>4, <1>6, <1>7, <1>8 DEF F

\* A batch starts with nothing accepted.
LEMMA AcceptFirst ==
    /\ batch \in BatchRow /\ batch.i = 1 /\ batch.b = Unwritten /\ batch.batchDedup = {}
    /\ published \in Nat
    => AcceptInv
<1>. SUFFICES ASSUME batch \in BatchRow, batch.i = 1, batch.b = Unwritten,
                     batch.batchDedup = {}, published \in Nat
              PROVE  AcceptInv
  OBVIOUS
<1>1. \A j \in DOMAIN Call : ~(j < 1)
  BY CallItems
<1>2. Done = {}
  BY <1>1, FreshIs DEF Done
<1>3. Cardinality(Done) = 0
  BY <1>2, FS_EmptySet
<1>4. batch.b.published = published /\ batch.b.msgs = msgs
  BY DEF Unwritten
<1>5. ASSUME NEW q \in Queues
      PROVE  OrderOf(batch.b.msgs, q) = Followed(InOrder(q), NewIn(q))
  <2>1. NewIn(q) = {}
    BY <1>2 DEF NewIn
  <2>2. Followed(InOrder(q), {}) = InOrder(q)
    BY DEF Followed
  <2>3. OrderOf(msgs, q) = InOrder(q)
    BY DEF OrderOf, InUse, InOrder, Stored
  <2>. QED  BY <1>4, <2>1, <2>2, <2>3
<1>. QED  BY <1>1, <1>2, <1>3, <1>4, <1>5 DEF AcceptInv

\* The same of the next state.
LEMMA AcceptFirstNext ==
    /\ batch' \in BatchRow /\ batch'.i = 1 /\ batch'.b = Unwritten'
    /\ batch'.batchDedup = {} /\ published' \in Nat
    => AcceptInv'
<1>1. (/\ batch \in BatchRow /\ batch.i = 1 /\ batch.b = Unwritten /\ batch.batchDedup = {}
       /\ published \in Nat)' => AcceptInv'
  BY AcceptFirst, PTL
<1>2. BatchRow' = BatchRow
  OBVIOUS
<1>. QED  BY <1>1, <1>2

\* While a batch is applied Intake stands still.
LEMMA AcceptSame ==
    ASSUME UNCHANGED vars, batch'.items = batch.items
    PROVE  /\ Call' = Call /\ Remembered' = Remembered
           /\ Producer!Fresh(Call)' = Producer!Fresh(Call)
           /\ \A j : Producer!Number(Call, j)' = Producer!Number(Call, j)
           /\ \A q : InOrder(q)' = InOrder(q)
<1>1. UNCHANGED <<now, msgs, dedup, published>>
  BY DEF vars, store, history
<1>2. Call' = Call /\ Remembered' = Remembered /\ \A q : InOrder(q)' = InOrder(q)
  BY <1>1 DEF Call, AbstractItem, Remembered, InOrder, Stored
<1>3. Producer!Fresh(Call)' = Producer!Fresh(Call)
  BY <1>1, <1>2 DEF Producer!Fresh
<1>. QED  BY <1>1, <1>2, <1>3 DEF Producer!Number

\* What an item's turn does to the items done.
LEMMA TurnTaken ==
    ASSUME LoopInv, AcceptInv, batch # NoBatch, batch.i <= Len(batch.items),
           UNCHANGED vars, batch'.items = batch.items, batch'.i = batch.i + 1
    PROVE  /\ batch \in BatchRow /\ batch.i \in DOMAIN Call /\ batch.i \in Nat
           /\ DOMAIN Call \subseteq Nat
           /\ Done' = IF batch.i \in Producer!Fresh(Call) THEN Done \cup {batch.i} ELSE Done
           /\ \A q : NewIn(q)' = {Producer!Number(Call, j) : j \in {x \in Done' : Call[x].q = q}}
           /\ \A j : j \in DOMAIN Call =>
                 (j < batch'.i <=> j < batch.i \/ j = batch.i)
<1>. DEFINE F == Producer!Fresh(Call)
            D(n) == {j \in F : j < n}
            i == batch.i
<1>1. batch \in BatchRow /\ i \in 1..(Len(batch.items) + 1) /\ i \in Nat
  BY DEF LoopInv, BatchRow
<1>2. DOMAIN Call = 1..Len(batch.items) /\ Len(batch.items) \in Nat
  BY <1>1, CallItems
<1>3. i \in DOMAIN Call
  BY <1>1, <1>2
<1>4. /\ i \notin F => D(i + 1) = D(i)
      /\ i \in F => D(i + 1) = D(i) \cup {i}
  BY <1>1, DoneGrows
<1>5. Done = D(i) /\ Done' = D(i + 1)
  BY AcceptSame DEF Done
<1>6. \A q : NewIn(q)' = {Producer!Number(Call, j) : j \in {x \in Done' : Call[x].q = q}}
  BY AcceptSame DEF NewIn
<1>7. ASSUME NEW j, j \in DOMAIN Call PROVE j < batch'.i <=> j < i \/ j = i
  BY <1>1, <1>2, <1>7
<1>. HIDE DEF F, D, i
<1>8. DOMAIN Call \subseteq Nat
  BY <1>2
<1>9. Done' = IF i \in F THEN Done \cup {i} ELSE Done
  BY <1>4, <1>5
<1>. QED  BY <1>1, <1>3, <1>6, <1>7, <1>8, <1>9 DEF F, i

\* A duplicate is no new message of the call.
LEMMA AcceptDuplicate ==
    ASSUME LoopInv, AcceptInv, batch # NoBatch, ItemDuplicate
    PROVE  AcceptInv'
<1>. DEFINE i == batch.i
<1>1. /\ i <= Len(batch.items) /\ batch' = [batch EXCEPT !.i = batch.i + 1]
      /\ IsDuplicate(It.q, It.r) \/ InBatch
      /\ UNCHANGED vars
  BY DEF ItemDuplicate
<1>2. batch \in BatchRow
  BY DEF LoopInv
<1>3. /\ batch'.items = batch.items /\ batch'.i = i + 1 /\ batch'.b = batch.b
      /\ batch'.batchDedup = batch.batchDedup
  BY <1>1, <1>2 DEF BatchRow
<1>4. i \notin Producer!Fresh(Call)
  BY <1>1, ItemFresh
<1>5. /\ i \in DOMAIN Call /\ Done' = Done
      /\ \A q : NewIn(q)' = {Producer!Number(Call, j) : j \in {x \in Done' : Call[x].q = q}}
      /\ \A j : j \in DOMAIN Call => (j < batch'.i <=> j < i \/ j = i)
  BY <1>1, <1>3, <1>4, TurnTaken
<1>6. /\ Call' = Call /\ Remembered' = Remembered /\ \A q : InOrder(q)' = InOrder(q)
      /\ published' = published
  BY <1>1, <1>3, AcceptSame DEF vars, history
<1>7. \A q : NewIn(q)' = NewIn(q)
  BY <1>5 DEF NewIn
<1>8. /\ batch.b.published = published + Cardinality(Done)
      /\ \A r \in DedupRefs : r \in batch.batchDedup <=>
            r \notin Remembered /\ \E j \in DOMAIN Call : j < batch.i /\ Call[j].ref = r
      /\ \A r \in DedupRefs : r \in batch.batchDedup <=> \E j \in Done : Call[j].ref = r
      /\ \A q \in Queues : OrderOf(batch.b.msgs, q) = Followed(InOrder(q), NewIn(q))
  BY DEF AcceptInv
<1>9. Call[i].ref \in DedupRefs => Call[i].ref \in Remembered \/ Call[i].ref \in batch.batchDedup
  <2>1. i \in 1..Len(batch.items)
    BY <1>2, <1>5, CallItems
  <2>2. Call[i].ref = IF It.r.dedup = NoKey THEN NoKey ELSE Ref
    BY <1>2, <2>1, CallItems DEF It, Ref
  <2>3. It.r.dedup # NoKey
    BY <1>1 DEF IsDuplicate, InBatch
  <2>4. Ref \in DedupRefs => Ref \in Remembered \/ Ref \in batch.batchDedup
    BY <1>1, <2>3 DEF IsDuplicate, InBatch, Remembered, Ref
  <2>. QED  BY <2>2, <2>3, <2>4
<1>10. ASSUME NEW r \in DedupRefs
       PROVE  r \in batch.batchDedup <=>
                r \notin Remembered /\ \E j \in DOMAIN Call : j < batch'.i /\ Call[j].ref = r
  BY <1>5, <1>8, <1>9
<1>11. /\ batch'.b.published = published' + Cardinality(Done')
       /\ \A r \in DedupRefs : r \in batch'.batchDedup <=>
             r \notin Remembered' /\ \E j \in DOMAIN Call' : j < batch'.i /\ Call'[j].ref = r
       /\ \A r \in DedupRefs : r \in batch'.batchDedup <=> \E j \in Done' : Call'[j].ref = r
       /\ \A q \in Queues : OrderOf(batch'.b.msgs, q) = Followed(InOrder(q)', NewIn(q)')
  BY <1>3, <1>5, <1>6, <1>7, <1>8, <1>10
<1>. QED  BY <1>11 DEF AcceptInv, OrderOf, InUse

\* A published item is the next new message of the call.
LEMMA AcceptPublished ==
    ASSUME LoopInv, AcceptInv, batch # NoBatch, TypeOK, Applied!QueueInv, ItemPublished
    PROVE  AcceptInv'
<1>. DEFINE i == batch.i
            g == CachedMeta(It.q)
            n == Cardinality(Done)
            body == batch.b.published + 1
            m == RowOf(It.r, body)
<1>1. i <= Len(batch.items) /\ ~IsDuplicate(It.q, It.r) /\ ~InBatch /\ UNCHANGED vars
  BY DEF ItemPublished
<1>2. batch \in BatchRow
  BY DEF LoopInv
<1>3. /\ batch'.items = batch.items /\ batch'.i = i + 1
      /\ batch'.batchDedup = IF It.r.dedup = NoKey THEN batch.batchDedup
                             ELSE batch.batchDedup \cup {Ref}
      /\ batch'.b.msgs = [batch.b.msgs EXCEPT ![<<It.q, g.next>>] = m]
      /\ batch'.b.published = body
  BY <1>2, ItemWrites
<1>4. i \in Producer!Fresh(Call)
  BY <1>1, ItemFresh
<1>5. /\ i \in DOMAIN Call /\ i \in Nat /\ Done' = Done \cup {i}
      /\ \A q : NewIn(q)' = {Producer!Number(Call, j) : j \in {x \in Done' : Call[x].q = q}}
      /\ \A j : j \in DOMAIN Call => (j < batch'.i <=> j < i \/ j = i)
  BY <1>1, <1>3, <1>4, TurnTaken
<1>6. /\ Call' = Call /\ Remembered' = Remembered /\ \A q : InOrder(q)' = InOrder(q)
      /\ published' = published /\ published \in Nat
  BY <1>1, <1>3, AcceptSame DEF vars, history, TypeOK
<1>7. /\ batch.b.published = published + n
      /\ \A r \in DedupRefs : r \in batch.batchDedup <=>
            r \notin Remembered /\ \E j \in DOMAIN Call : j < batch.i /\ Call[j].ref = r
      /\ \A r \in DedupRefs : r \in batch.batchDedup <=> \E j \in Done : Call[j].ref = r
      /\ \A q \in Queues : OrderOf(batch.b.msgs, q) = Followed(InOrder(q), NewIn(q))
  BY DEF AcceptInv
<1>8. /\ n \in Nat /\ Cardinality(Done') = n + 1 /\ Producer!Number(Call, i) = published + (n + 1)
      /\ \A j \in Done : /\ Producer!Number(Call, j) \in Nat
                         /\ Producer!Number(Call, j) <= published + n
  <2>. DEFINE F == Producer!Fresh(Call)
              C(j) == Cardinality({x \in F : x <= j})
  <2>1. /\ n \in Nat /\ Cardinality({j \in F : j < i + 1}) = n + 1
        /\ {j \in F : j < i + 1} = Done \cup {i}
        /\ Producer!Number(Call, i) = published + (n + 1)
        /\ \A j \in Done : C(j) \in Nat /\ C(j) <= n /\ Producer!Number(Call, j) = published + C(j)
    BY <1>2, <1>4, <1>5, DoneGrows DEF Done
  <2>. HIDE DEF n, C, F, i
  <2>2. ASSUME NEW j \in Done
        PROVE  Producer!Number(Call, j) \in Nat /\ Producer!Number(Call, j) <= published + n
    BY <1>6, <2>1
  <2>. QED  BY <1>5, <2>1, <2>2 DEF F, i, n
<1>9. /\ i \in 1..Len(batch.items) /\ Call[i].q = It.q /\ It.q \in Queues
      /\ Call[i].ref = IF It.r.dedup = NoKey THEN NoKey ELSE Ref
      /\ It.r.dedup # NoKey => Ref \in DedupRefs /\ Ref \notin Remembered
      /\ NoKey \notin DedupRefs
  <2>1. i \in 1..Len(batch.items)
    BY <1>2, <1>5, CallItems
  <2>2. /\ Call[i].q = It.q /\ It.q \in Queues
        /\ Call[i].ref = IF It.r.dedup = NoKey THEN NoKey ELSE Ref
        /\ It.r.dedup # NoKey => Ref \in DedupRefs
    BY <1>2, <2>1, CallItems DEF It, Ref
  <2>3. It.r.dedup # NoKey => Ref \notin Remembered
    BY <1>1 DEF IsDuplicate, Remembered, Ref
  <2>. QED  BY <2>1, <2>2, <2>3, KeyAssumption
<1>10. ASSUME NEW r \in DedupRefs
       PROVE  r \in batch'.batchDedup <=>
                r \notin Remembered /\ \E j \in DOMAIN Call : j < batch'.i /\ Call[j].ref = r
  <2>1. r \in batch'.batchDedup <=> r \in batch.batchDedup \/ (It.r.dedup # NoKey /\ r = Ref)
    BY <1>3
  <2>2. Call[i].ref = r <=> (It.r.dedup # NoKey /\ r = Ref)
    BY <1>9
  <2>3. (\E j \in DOMAIN Call : j < batch'.i /\ Call[j].ref = r)
          <=> (\E j \in DOMAIN Call : j < i /\ Call[j].ref = r) \/ Call[i].ref = r
    BY <1>5
  <2>. QED  BY <1>7, <1>9, <2>1, <2>2, <2>3
<1>11. ASSUME NEW r \in DedupRefs
       PROVE  r \in batch'.batchDedup <=> \E j \in Done' : Call[j].ref = r
  <2>1. r \in batch'.batchDedup <=> r \in batch.batchDedup \/ (It.r.dedup # NoKey /\ r = Ref)
    BY <1>3
  <2>2. Call[i].ref = r <=> (It.r.dedup # NoKey /\ r = Ref)
    BY <1>9
  <2>. QED  BY <1>5, <1>7, <2>1, <2>2
<1>12. /\ batch.b.msgs \in [Keys -> Message \cup {NoMessage}]
       /\ g.next \in MsgIds /\ m \in Message /\ m.body = body
       /\ batch.b.msgs[<<It.q, g.next>>] = NoMessage
       /\ \A x \in InUse(batch.b.msgs, It.q) : x < g.next
  <2>1. /\ Applied!Publish(It.q, It.r) /\ Applied!TypeOK
        /\ B = batch.b /\ g = Applied!LoadGroupMeta(It.q) /\ g.next \in Nat
    BY <1>2, <1>9, ItemApplies, InFlight, CacheTyped DEF Applied!QueueInv
  <2>2. g.next \in MsgIds
    BY <2>1, SameSets DEF Applied!Publish, Applied!PublishOne
  <2>3. batch.b.msgs \in [Keys -> Message \cup {NoMessage}]
    BY <1>2 DEF BatchRow, Pebble
  <2>4. batch'.b.msgs \in [Keys -> Message \cup {NoMessage}]
    <3>1. LoopInv' /\ batch' # NoBatch
      BY <2>1, PublishedStays, ItemApplies
    <3>2. batch' \in BatchRow
      BY <3>1 DEF LoopInv
    <3>. QED  BY <3>2 DEF BatchRow, Pebble
  <2>5. <<It.q, g.next>> \in Keys
    BY <1>9, <2>2 DEF Keys
  <2>6. m \in Message \cup {NoMessage}
    <3>. HIDE DEF m, g
    <3>1. batch'.b.msgs[<<It.q, g.next>>] = m
      BY <1>3, <2>3, <2>5
    <3>. QED  BY <2>4, <2>5, <3>1
  <2>7. m.state # "NONE" /\ m.body = body
    BY DEF RowOf
  <2>8. m \in Message
    <3>. HIDE DEF m
    <3>. QED  BY <2>6, <2>7 DEF NoMessage
  <2>9. ASSUME NEW x \in MsgIds, x >= g.next PROVE batch.b.msgs[<<It.q, x>>] = NoMessage
    <3>. DEFINE k == <<It.q, x>>
    <3>1. k \in Keys /\ k[1] = It.q /\ k[2] = x
      BY <1>9 DEF Keys
    <3>. HIDE DEF k, g
    <3>2. k[2] >= Applied!LoadGroupMeta(k[1]).next
      BY <2>1, <2>9, <3>1
    <3>3. B.msgs[k] = NoMessage
      BY <3>1, <3>2, SameSets, SameRows DEF Applied!QueueInv, Applied!Fresh
    <3>. QED  BY <2>1, <3>3 DEF k
  <2>10. ASSUME NEW x \in InUse(batch.b.msgs, It.q) PROVE x < g.next
    <3>1. x \in MsgIds /\ x \in Nat /\ batch.b.msgs[<<It.q, x>>].state # "NONE"
      BY BrokerAssumption DEF InUse, MsgIds
    <3>2. ~(x >= g.next)
      BY <2>9, <3>1 DEF NoMessage
    <3>. HIDE DEF g
    <3>. QED  BY <2>1, <3>1, <3>2
  <2>11. g.next >= g.next
    BY <2>1
  <2>. QED  BY <2>2, <2>3, <2>7, <2>8, <2>9, <2>10, <2>11
<1>13. ASSUME NEW q \in Queues
       PROVE  OrderOf(batch'.b.msgs, q) = Followed(InOrder(q), NewIn(q)')
  <2>. HIDE DEF m, g, body
  <2>1. NewIn(q)' = {Producer!Number(Call, j) : j \in {x \in Done \cup {i} : Call[x].q = q}}
    BY <1>5
  <2>0. /\ OrderOf(batch'.b.msgs, It.q) = Followed(OrderOf(batch.b.msgs, It.q), {body})
        /\ \A x \in Queues : x # It.q => OrderOf(batch'.b.msgs, x) = OrderOf(batch.b.msgs, x)
    <3>1. batch'.b.msgs = Put(batch.b.msgs, <<It.q, g.next>>, m)
      BY <1>3 DEF Put
    <3>. QED  BY <1>9, <1>12, <3>1, OrderGrows
  <2>2. CASE q # It.q
    <3>1. NewIn(q)' = NewIn(q)
      BY <1>9, <2>1, <2>2 DEF NewIn
    <3>2. OrderOf(batch'.b.msgs, q) = OrderOf(batch.b.msgs, q)
      BY <2>0, <2>2
    <3>. QED  BY <1>7, <3>1, <3>2
  <2>3. CASE q = It.q
    <3>1. OrderOf(batch'.b.msgs, q) = Followed(OrderOf(batch.b.msgs, q), {body})
      BY <2>0, <2>3
    <3>2. Producer!Number(Call, i) = body
      BY <1>6, <1>7, <1>8 DEF body
    <3>3. NewIn(q)' = NewIn(q) \cup {body}
      BY <1>9, <2>1, <2>3, <3>2 DEF NewIn
    <3>4. NewIn(q) \in SUBSET Nat /\ body \in Nat /\ \A x \in NewIn(q) : x < body
      <4>1. body = published + n + 1 /\ body \in Nat
        BY <1>6, <1>7, <1>8 DEF body
      <4>2. ASSUME NEW x \in NewIn(q) PROVE x \in Nat /\ x < body
        <5>1. x \in Nat /\ x <= published + n
          BY <1>8 DEF NewIn
        <5>. HIDE DEF n
        <5>. QED  BY <1>6, <1>8, <4>1, <5>1
      <4>. QED  BY <4>1, <4>2
    <3>5. Followed(Followed(InOrder(q), NewIn(q)), {body}) = Followed(InOrder(q), NewIn(q) \cup {body})
      BY <3>4, FollowedTwice
    <3>. QED  BY <1>7, <3>1, <3>3, <3>5
  <2>. QED  BY <2>2, <2>3
<1>14. batch'.b.published = published + Cardinality(Done')
  BY <1>3, <1>6, <1>7, <1>8
<1>15. /\ batch'.b.published = published' + Cardinality(Done')
       /\ \A r \in DedupRefs : r \in batch'.batchDedup <=>
             r \notin Remembered' /\ \E j \in DOMAIN Call' : j < batch'.i /\ Call'[j].ref = r
       /\ \A r \in DedupRefs : r \in batch'.batchDedup <=> \E j \in Done' : Call'[j].ref = r
       /\ \A q \in Queues : OrderOf(batch'.b.msgs, q) = Followed(InOrder(q)', NewIn(q)')
  BY <1>6, <1>10, <1>11, <1>13, <1>14
<1>. QED  BY <1>15 DEF AcceptInv, OrderOf, InUse

-----------------------------------------------------------------------------
(* The steps of Intake                                                     *)

\* Only a publish accepts, and only time and the sweep forget a key.
LEMMA StepClock ==
    ASSUME NoTeardown, "redrive" \notin AdminOps, [Next]_vars
    PROVE  \/ \E q \in Queues : \E r \in PublishReq : Publish(q, r)
           \/ Tick
           \/ \E t \in dedupExpiry : FireDedupExpiry(t)
           \/ UNCHANGED <<now, dedup, published>>
<1>1. CASE UNCHANGED vars
  BY <1>1 DEF vars, store, history
<1>2. CASE ClientNext
  <2>1. ASSUME NEW q \in Queues, Pick(q) \/ LeaseEmpty(q)
        PROVE  UNCHANGED <<now, dedup, published>>
    BY <2>1 DEF Pick, LeaseEmpty, store, history
  <2>2. ASSUME NEW q \in Queues, NEW i \in MsgIds, Lease(q, i)
        PROVE  UNCHANGED <<now, dedup, published>>
    BY <2>2 DEF Lease, store, history
  <2>3. ASSUME NEW l \in LeaseIds, IssueToken(l) \/ Ack(l) \/ NackDeadLetter(l)
        PROVE  UNCHANGED <<now, dedup, published>>
    BY <2>3 DEF IssueToken, Ack, AckLease, NackDeadLetter, EndLease, store, history
  <2>4. ASSUME NEW l \in LeaseIds, NEW d \in Delays,
               NackRetry(l, d) \/ NackRequeue(l, d) \/ Extend(l, d)
        PROVE  UNCHANGED <<now, dedup, published>>
    BY <2>4 DEF NackRetry, NackRetryLease, NackRequeue, EndLease, Extend, store, history
  <2>5. ASSUME NEW t \in TokenIds, NEW ok \in BOOLEAN, NEW d \in Delays, Complete(t, ok, d)
        PROVE  UNCHANGED <<now, dedup, published>>
    BY <2>5 DEF Complete, AckLease, NackRetryLease, EndLease, store, history
  <2>. QED  BY <1>2, <2>1, <2>2, <2>3, <2>4, <2>5 DEF ClientNext
<1>3. CASE SweepNext
  <2>1. ASSUME NEW t \in readyAt, FireReadyAt(t) PROVE UNCHANGED <<now, dedup, published>>
    BY <2>1 DEF FireReadyAt, store, history
  <2>2. ASSUME NEW t \in leaseDeadline, FireLeaseDeadline(t)
        PROVE  UNCHANGED <<now, dedup, published>>
    BY <2>2 DEF FireLeaseDeadline, store, history
  <2>3. ASSUME NEW t \in leaseMaxLife, FireLeaseMaxLife(t)
        PROVE  UNCHANGED <<now, dedup, published>>
    BY <2>3 DEF FireLeaseMaxLife, store, history
  <2>4. ASSUME NEW t \in msgExpiry, FireMsgExpiry(t) PROVE UNCHANGED <<now, dedup, published>>
    BY <2>4 DEF FireMsgExpiry, store, history
  <2>. QED  BY <1>3, <2>1, <2>2, <2>3, <2>4 DEF SweepNext
<1>4. CASE ReapNext
  BY <1>4 DEF ReapNext, ReapSweep, ReapGroup, store, history
<1>5. CASE AdminNext
  <2>1. ASSUME NEW q \in Queues, NEW p \in BOOLEAN,
               Purge(q) \/ SetPaused(q, p) \/ GroupConfig(q) \/ ReapNow(q)
        PROVE  UNCHANGED <<now, dedup, published>>
    BY <2>1 DEF Purge, DropLeasable, SetPaused, GroupConfig, ReapNow, store, history
  <2>. QED  BY <1>5, <2>1 DEF AdminNext, NoTeardown
<1>. QED  BY <1>1, <1>2, <1>3, <1>4, <1>5 DEF Next

\* What stays in a group stays where it is.
LEMMA StaysRows ==
    ASSUME QueueInv, Stays
    PROVE  \A j \in Keys : Queued(j)' => Queued(j) /\ msgs'[j].body = msgs[j].body
<1>1. ASSUME NEW k \in Keys, NEW m \in Message, Turns(k, m)
      PROVE  \A j \in Keys : Queued(j)' => Queued(j) /\ msgs'[j].body = msgs[j].body
  BY <1>1 DEF Turns, Queued, QueueInv, TypeOK
<1>2. ASSUME NEW k \in Keys, Leaves(k)
      PROVE  \A j \in Keys : Queued(j)' => Queued(j) /\ msgs'[j].body = msgs[j].body
  BY <1>2 DEF Leaves, Queued, QueueInv, TypeOK, NoMessage
<1>3. ASSUME NEW q \in Queues, Purge(q) \/ Reaps(q)
      PROVE  \A j \in Keys : Queued(j)' => Queued(j) /\ msgs'[j].body = msgs[j].body
  BY <1>3 DEF Purge, DropLeasable, Reaps, Queued, NoMessage
<1>4. CASE Rests
  BY <1>4 DEF Rests, Queued
<1>. QED  BY <1>1, <1>2, <1>3, <1>4 DEF Stays

\* The order of the group, as Intake reads it.
LEMMA OrderIs == \A q : InOrder(q) = OrderOf(msgs, q) /\ Stored(q) = InUse(msgs, q)
BY DEF InOrder, OrderOf, Stored, InUse

\* The same of the next state.
LEMMA OrderIsNext == \A q : InOrder(q)' = OrderOf(msgs', q)
BY DEF InOrder, OrderOf, Stored, InUse

\* Messages that leave take their pairs with them; the others keep their order.
LEMMA Departs ==
    ASSUME ForkInv, Stays, UNCHANGED <<now, dedup, published, batch>>
    PROVE  Producer!Depart
<1>. DEFINE S == {b \in 1..published :
                    \E k \in Keys : Queued(k) /\ msgs[k].body = b /\ ~Queued(k)'}
<1>1. \A j \in Keys : Queued(j)' => Queued(j) /\ msgs'[j].body = msgs[j].body
  BY StaysRows DEF ForkInv
<1>2. ASSUME NEW q \in Queues, NEW i \in InUse(msgs, q)
      PROVE  /\ <<q, i>> \in Keys /\ Queued(<<q, i>>)
             /\ msgs[<<q, i>>].body \in 1..published
  <2>. DEFINE k == <<q, i>>
  <2>1. k \in Keys /\ Queued(k)
    BY DEF InUse, Keys, Queued
  <2>. HIDE DEF k
  <2>2. msgs[k] \in Message
    BY <2>1 DEF ForkInv, QueueInv, TypeOK, Queued, NoMessage
  <2>3. msgs[k].body \in 1..MaxPublish /\ msgs[k].body <= published /\ published \in Nat
    BY <2>1, <2>2 DEF Message, Bodies, ForkInv, BodiesKnown, QueueInv, TypeOK
  <2>4. msgs[k].body \in 1..published
    BY <2>3, BrokerAssumption
  <2>. QED  BY <2>1, <2>4 DEF k
<1>3. ASSUME NEW q \in Queues, NEW i \in InUse(msgs, q)
      PROVE  msgs[<<q, i>>].body \in S <=> i \notin InUse(msgs', q)
  <2>. DEFINE k == <<q, i>>
  <2>1. k \in Keys /\ Queued(k) /\ msgs[k].body \in 1..published
    BY <1>2
  <2>2. i \in InUse(msgs', q) <=> Queued(k)'
    BY DEF InUse, Queued
  <2>. HIDE DEF k
  <2>3. ASSUME NEW j \in Keys, Queued(j), msgs[j].body = msgs[k].body PROVE j = k
    BY <2>1, <2>3 DEF ForkInv, Apart
  <2>4. msgs[k].body \in S <=> ~Queued(k)'
    BY <2>1, <2>3
  <2>. QED  BY <2>2, <2>4 DEF k
<1>4. ASSUME NEW q \in Queues, NEW i \in InUse(msgs', q)
      PROVE  i \in InUse(msgs, q) /\ msgs'[<<q, i>>].body = msgs[<<q, i>>].body
  <2>. DEFINE k == <<q, i>>
  <2>1. i \in MsgIds /\ k \in Keys /\ Queued(k)'
    BY DEF InUse, Keys, Queued
  <2>. HIDE DEF k
  <2>2. Queued(k) /\ msgs'[k].body = msgs[k].body
    BY <1>1, <2>1
  <2>. QED  BY <2>1, <2>2 DEF k, InUse, Queued
<1>. HIDE DEF S
<1>5. ASSUME NEW q \in Queues
      PROVE  OrderOf(msgs', q) = {p \in OrderOf(msgs, q) : p[1] \notin S /\ p[2] \notin S}
  <2>1. ASSUME NEW p \in OrderOf(msgs', q)
        PROVE  p \in OrderOf(msgs, q) /\ p[1] \notin S /\ p[2] \notin S
    <3>1. PICK i, j : Stands(msgs', q, p, i, j)
      BY OrderOut
    <3>2. i \in InUse(msgs', q) /\ j \in InUse(msgs', q)
      BY <3>1 DEF Stands
    <3>3. /\ i \in InUse(msgs, q) /\ msgs'[<<q, i>>].body = msgs[<<q, i>>].body
          /\ j \in InUse(msgs, q) /\ msgs'[<<q, j>>].body = msgs[<<q, j>>].body
      BY <1>4, <3>2
    <3>4. Stands(msgs, q, p, i, j) /\ p[1] = msgs[<<q, i>>].body /\ p[2] = msgs[<<q, j>>].body
      BY <3>1, <3>3 DEF Stands
    <3>5. p \in OrderOf(msgs, q)
      BY <3>4, OrderIn
    <3>. QED  BY <1>3, <3>2, <3>3, <3>4, <3>5
  <2>2. ASSUME NEW p \in OrderOf(msgs, q), p[1] \notin S, p[2] \notin S
        PROVE  p \in OrderOf(msgs', q)
    <3>1. PICK i, j : Stands(msgs, q, p, i, j)
      BY OrderOut
    <3>2. i \in InUse(msgs, q) /\ j \in InUse(msgs, q)
          /\ p[1] = msgs[<<q, i>>].body /\ p[2] = msgs[<<q, j>>].body
      BY <3>1 DEF Stands
    <3>3. i \in InUse(msgs', q) /\ j \in InUse(msgs', q)
      BY <1>3, <2>2, <3>2
    <3>4. Stands(msgs', q, p, i, j)
      BY <1>4, <3>1, <3>3 DEF Stands
    <3>. QED  BY <3>4, OrderIn
  <2>. QED  BY <2>1, <2>2
<1>6. S \in SUBSET (1..published)
  BY DEF S
<1>7. [q \in Queues |-> InOrder(q)]'
        = [q \in Queues |-> {p \in [x \in Queues |-> InOrder(x)][q] : p[1] \notin S /\ p[2] \notin S}]
  <2>1. \A q \in Queues : InOrder(q)' = {p \in InOrder(q) : p[1] \notin S /\ p[2] \notin S}
    BY <1>5, OrderIs, OrderIsNext
  <2>. QED  BY <2>1
<1>. QED  BY <1>6, <1>7 DEF Producer!Depart, AbstractItem

\* Windows end as the clock moves and the sweep deletes their rows.
LEMMA Forgets ==
    ASSUME TypeOK, UNCHANGED batch, Tick \/ \E t \in dedupExpiry : FireDedupExpiry(t)
    PROVE  Producer!Forget
<1>1. /\ UNCHANGED <<msgs, published>>
      /\ \A r \in DedupRefs : dedup'[r].expiry > now' => dedup[r].expiry > now
  <2>1. \A r \in DedupRefs : dedup[r].expiry \in Nat
    BY DEF TypeOK
  <2>2. CASE Tick
    <3>1. UNCHANGED <<msgs, published, dedup>> /\ now' = now + 1 /\ now \in Nat
      BY <2>2 DEF Tick, store, history, TypeOK
    <3>. QED  BY <2>1, <3>1
  <2>3. ASSUME NEW t \in dedupExpiry, FireDedupExpiry(t)
        PROVE  /\ UNCHANGED <<msgs, published>>
               /\ \A r \in DedupRefs : dedup'[r].expiry > now' => dedup[r].expiry > now
    <3>1. /\ UNCHANGED <<msgs, published, now>> /\ t.ref \in DedupRefs
          /\ dedup' = dedup \/ dedup' = [dedup EXCEPT ![t.ref] = NoDedup]
      BY <2>3 DEF FireDedupExpiry, history, TypeOK, Timer
    <3>2. ASSUME NEW r \in DedupRefs, dedup'[r].expiry > now PROVE dedup[r].expiry > now
      <4>1. dedup'[r] = dedup[r] \/ dedup'[r] = NoDedup
        BY <3>1 DEF TypeOK
      <4>2. ~(NoDedup.expiry > now)
        BY DEF NoDedup, TypeOK
      <4>. QED  BY <3>2, <4>1, <4>2
    <3>. QED  BY <3>1, <3>2
  <2>. QED  BY <2>2, <2>3
<1>2. {r \in DedupRefs : dedup[r].expiry > now}' \in SUBSET {r \in DedupRefs : dedup[r].expiry > now}
  BY <1>1
<1>3. \A q : InOrder(q)' = InOrder(q)
  BY <1>1 DEF InOrder, Stored
<1>4. UNCHANGED <<[i \in DOMAIN batch.items |-> AbstractItem(batch.items[i])],
                  [q \in Queues |-> InOrder(q)], published>>
  BY <1>1, <1>3 DEF AbstractItem
<1>. QED  BY <1>2, <1>4 DEF Producer!Forget

\* Intake serves no call while there is no batch.
LEMMA NoCall == batch = NoBatch => [i \in DOMAIN batch.items |-> AbstractItem(batch.items[i])] = << >>
BY DEF NoBatch

\* A publish is a call of one message.
LEMMA AcceptsOne ==
    ASSUME QueueInv, batch = NoBatch, UNCHANGED batch,
           NEW q \in Queues, NEW r \in PublishReq, Publish(q, r)
    PROVE  Producer!AcceptOne
<1>. DEFINE it == AbstractItem([q |-> q, r |-> r])
            c == <<it>>
            g == LoadGroupMeta(q)
            body == published + 1
            m == RowOf(r, body)
            ref == <<q[1], r.dedup>>
            exp == now + DedupWindow
<1>1. /\ ~IsDuplicate(q, r) /\ published' = published + 1 /\ g.next \in MsgIds
      /\ msgs' = [msgs EXCEPT ![<<q, g.next>>] = m] /\ now' = now
      /\ IF r.dedup = NoKey THEN dedup' = dedup
         ELSE dedup' = [dedup EXCEPT ![ref] = [id |-> g.next, expiry |-> exp]]
  BY DEF Publish, PublishOne, RowOf
<1>2. /\ it.q = q /\ it.ref = IF r.dedup = NoKey THEN NoKey ELSE ref
      /\ it \in [q: Queues, ref: DedupRefs \cup {NoKey}]
      /\ r.dedup # NoKey => ref \in DedupRefs
  <2>1. q[1] \in Lanes /\ r.dedup \in DedupKeys \cup {NoKey}
    BY DEF Queues, PublishReq
  <2>. QED  BY <2>1 DEF AbstractItem, DedupRefs
<1>3. TypeOK /\ published \in Nat /\ now \in Nat /\ dedup \in [DedupRefs -> [id: Nat, expiry: Nat]]
  BY DEF QueueInv, TypeOK
<1>. HIDE DEF it, g, m
<1>4. Producer!Fresh(c) = {1}
  <2>1. DOMAIN c = {1} /\ c[1] = it
    OBVIOUS
  <2>2. it.ref = NoKey \/ it.ref \notin Remembered
    BY <1>1, <1>2 DEF IsDuplicate, Remembered
  <2>3. \A j \in 1..(1 - 1) : c[j].ref # c[1].ref
    OBVIOUS
  <2>4. 1 \in Producer!Fresh(c)
    BY <2>1, <2>2, <2>3, FreshIs
  <2>. HIDE DEF c
  <2>5. \A x : x \in Producer!Fresh(c) => x = 1
    BY <2>1, FreshIs
  <2>. QED  BY <2>4, <2>5
<1>5. /\ \A x : Producer!New(c, x) = IF x = q THEN {body} ELSE {}
      /\ Cardinality(Producer!Fresh(c)) = 1
  <2>1. {j \in Producer!Fresh(c) : j <= 1} = {1}
    BY <1>4
  <2>2. Cardinality({1}) = 1
    BY FS_Singleton
  <2>3. Producer!Number(c, 1) = body
    BY <2>1, <2>2, SameCard DEF Producer!Number
  <2>4. c[1].q = q
    BY <1>2
  <2>. HIDE DEF c, body
  <2>5. \A x : {j \in Producer!Fresh(c) : c[j].q = x} = IF x = q THEN {1} ELSE {}
    BY <1>4, <2>4
  <2>6. \A x : Producer!New(c, x) = IF x = q THEN {body} ELSE {}
    BY <2>3, <2>5 DEF Producer!New
  <2>. QED  BY <1>4, <2>2, <2>6
<1>6. /\ msgs \in [Keys -> Message \cup {NoMessage}] /\ m \in Message /\ m.body = body
      /\ msgs[<<q, g.next>>] = NoMessage
      /\ \A x \in InUse(msgs, q) : x < g.next
  <2>1. msgs \in [Keys -> Message \cup {NoMessage}] /\ g.next \in Nat
    BY <1>3, LoadTyped DEF TypeOK, g
  <2>2. msgs' \in [Keys -> Message \cup {NoMessage}]
    <3>1. Next
      BY DEF Next, ClientNext
    <3>2. TypeOK'
      BY <1>3, <3>1, NextType
    <3>. QED  BY <3>2 DEF TypeOK
  <2>3. <<q, g.next>> \in Keys
    BY <1>1 DEF Keys
  <2>4. msgs'[<<q, g.next>>] = m
    BY <1>1, <2>1, <2>3
  <2>5. m.state # "NONE" /\ m.body = body
    BY DEF RowOf, m
  <2>6. m \in Message
    BY <2>2, <2>3, <2>4, <2>5 DEF NoMessage
  <2>7. ASSUME NEW x \in MsgIds, x >= g.next PROVE msgs[<<q, x>>] = NoMessage
    <3>. DEFINE k == <<q, x>>
    <3>1. k \in Keys /\ k[1] = q /\ k[2] = x
      BY DEF Keys
    <3>. HIDE DEF k
    <3>2. msgs[k] = NoMessage
      BY <2>7, <3>1 DEF QueueInv, Fresh, g
    <3>. QED  BY <3>2 DEF k
  <2>8. ASSUME NEW x \in InUse(msgs, q) PROVE x < g.next
    <3>1. x \in MsgIds /\ x \in Nat /\ msgs[<<q, x>>].state # "NONE"
      BY BrokerAssumption DEF InUse, MsgIds
    <3>2. ~(x >= g.next)
      BY <2>7, <3>1 DEF NoMessage
    <3>. QED  BY <2>1, <3>1, <3>2
  <2>9. g.next >= g.next
    BY <2>1
  <2>. QED  BY <1>1, <2>1, <2>5, <2>6, <2>7, <2>8, <2>9
<1>7. ASSUME NEW x \in Queues PROVE InOrder(x)' = Followed(InOrder(x), Producer!New(c, x))
  <2>1. msgs' = Put(msgs, <<q, g.next>>, m) /\ g.next \in MsgIds
    BY <1>1 DEF Put
  <2>2. /\ OrderOf(msgs', q) = Followed(OrderOf(msgs, q), {body})
        /\ \A y \in Queues : y # q => OrderOf(msgs', y) = OrderOf(msgs, y)
    <3>. HIDE DEF body
    <3>. QED  BY <1>6, <2>1, OrderGrows
  <2>3. Followed(OrderOf(msgs, x), {}) = OrderOf(msgs, x)
    BY DEF Followed
  <2>. HIDE DEF c, body
  <2>. QED  BY <1>5, <2>2, <2>3, OrderIs, OrderIsNext
<1>8. {z \in DedupRefs : dedup[z].expiry > now}'
        = {z \in DedupRefs : dedup[z].expiry > now} \cup ({c[i].ref : i \in Producer!Fresh(c)} \ {NoKey})
  <2>1. {c[i].ref : i \in Producer!Fresh(c)} = {it.ref}
    BY <1>4
  <2>2. exp > now
    BY <1>3, BrokerAssumption
  <2>3. CASE r.dedup = NoKey
    BY <1>1, <1>2, <2>1, <2>3
  <2>4. CASE r.dedup # NoKey
    <3>1. {it.ref} \ {NoKey} = {ref} /\ ref \in DedupRefs
      BY <1>2, <2>4, KeyAssumption
    <3>2. \A z \in DedupRefs : dedup'[z] = IF z = ref THEN [id |-> g.next, expiry |-> exp] ELSE dedup[z]
      BY <1>1, <1>3, <2>4
    <3>3. \A z \in DedupRefs : dedup'[z].expiry > now' <=> dedup[z].expiry > now \/ z = ref
      BY <1>1, <2>2, <3>2
    <3>. HIDE DEF c, ref
    <3>. QED  BY <2>1, <3>1, <3>3
  <2>. QED  BY <2>3, <2>4
<1>9. Producer!Accept(c)
  <2>1. [x \in Queues |-> InOrder(x)]' = [x \in Queues |-> Followed(InOrder(x), Producer!New(c, x))]
    BY <1>7
  <2>2. \A x \in Queues : Producer!Waiting(x) = {p[1] : p \in InOrder(x)}
    BY DEF Producer!Waiting
  <2>. HIDE DEF c
  <2>. QED  BY <1>1, <1>5, <1>8, <2>1, <2>2, SameCard DEF Producer!Accept, Followed
<1>10. it \in Producer!Items
  BY <1>2 DEF Producer!Items
<1>. QED  BY <1>9, <1>10, NoCall DEF Producer!AcceptOne, NoBatch, AbstractItem

\* A batch that begins is a call that Intake begins to serve.
LEMMA Begins ==
    ASSUME NEW items \in Batches, NEW atomic \in BOOLEAN, BatchBegin(items, atomic)
    PROVE  Producer!BeginCall
<1>1. batch = NoBatch /\ batch' = FirstItem(items, atomic) /\ UNCHANGED vars
  BY DEF BatchBegin
<1>2. batch'.items = items
  BY <1>1 DEF FirstItem
<1>3. PICK n \in 2..MaxBatch : items \in [1..n -> Item]
  BY DEF Batches
<1>4. n \in 1..MaxBatch /\ DOMAIN items = 1..n
  <2>1. n \in Int /\ n >= 2 /\ MaxBatch >= n
    BY <1>3
  <2>. QED  BY <1>3, <2>1
<1>5. \A it \in Item : AbstractItem(it) \in [q: Queues, ref: DedupRefs \cup {NoKey}]
  <2>. SUFFICES ASSUME NEW it \in Item
                PROVE  AbstractItem(it) \in [q: Queues, ref: DedupRefs \cup {NoKey}]
    OBVIOUS
  <2>1. it.q \in Queues /\ it.r \in PublishReq
    BY DEF Item
  <2>2. it.q[1] \in Lanes /\ it.r.dedup \in DedupKeys \cup {NoKey}
    BY <2>1 DEF Queues, PublishReq
  <2>. QED  BY <2>1, <2>2 DEF AbstractItem, DedupRefs
<1>6. [i \in DOMAIN items |-> AbstractItem(items[i])] \in [1..n -> Producer!Items]
  BY <1>3, <1>4, <1>5 DEF Producer!Items
<1>7. [i \in DOMAIN items |-> AbstractItem(items[i])] \in Producer!Calls
  BY <1>4, <1>6 DEF Producer!Calls
<1>8. [i \in DOMAIN batch.items |-> AbstractItem(batch.items[i])]'
        = [i \in DOMAIN items |-> AbstractItem(items[i])]
  BY <1>2 DEF AbstractItem
<1>9. UNCHANGED <<[q \in Queues |-> InOrder(q)], published,
                  {r \in DedupRefs : dedup[r].expiry > now}>>
  <2>1. UNCHANGED <<now, msgs, dedup, published>>
    BY <1>1 DEF vars, store, history
  <2>2. \A q : InOrder(q)' = InOrder(q)
    BY <2>1 DEF InOrder, Stored
  <2>. QED  BY <2>1, <2>2
<1>. QED  BY <1>1, <1>7, <1>8, <1>9, NoCall DEF Producer!BeginCall

\* A batch being applied is a call of at least one message.
LEMMA SomeCall ==
    ASSUME batch \in BatchRow
    PROVE  [i \in DOMAIN batch.items |-> AbstractItem(batch.items[i])] # << >>
<1>1. batch.items \in Batches
  BY DEF BatchRow
<1>2. PICK n \in 2..MaxBatch : batch.items \in [1..n -> Item]
  BY <1>1 DEF Batches
<1>3. 1 \in DOMAIN batch.items
  BY <1>2
<1>4. DOMAIN [i \in DOMAIN batch.items |-> AbstractItem(batch.items[i])] # {}
  BY <1>3
<1>5. DOMAIN << >> = {}
  OBVIOUS
<1>. QED  BY <1>4, <1>5

\* After the last item every new message of the call is in the batch.
LEMMA AllDone ==
    ASSUME batch \in BatchRow, batch.i > Len(batch.items)
    PROVE  Done = Producer!Fresh(Call) /\ \A q : NewIn(q) = Producer!New(Call, q)
<1>1. batch.i \in Nat /\ Len(batch.items) \in Nat /\ DOMAIN Call = 1..Len(batch.items)
  BY CallItems DEF BatchRow
<1>2. ASSUME NEW j \in Producer!Fresh(Call) PROVE j < batch.i
  <2>1. j \in 1..Len(batch.items)
    BY <1>1, FreshIs
  <2>. QED  BY <1>1, <2>1
<1>3. Done = Producer!Fresh(Call)
  BY <1>2 DEF Done
<1>. QED  BY <1>3 DEF NewIn, Producer!New

\* The commit accepts the whole call.
LEMMA Commits ==
    ASSUME LoopInv, AcceptInv, BatchCommit
    PROVE  Producer!EndCall
<1>1. /\ batch # NoBatch /\ batch.i > Len(batch.items) /\ batch' = NoBatch
      /\ msgs' = batch.b.msgs /\ dedup' = batch.b.dedup /\ published' = batch.b.published
      /\ now' = now
  BY DEF BatchCommit
<1>2. /\ batch \in BatchRow
      /\ \A r \in DedupRefs :
            batch.b.dedup[r].expiry > now <=> dedup[r].expiry > now \/ r \in batch.batchDedup
  BY <1>1 DEF LoopInv
<1>3. /\ batch.b.published = published + Cardinality(Done)
      /\ \A r \in DedupRefs : r \in batch.batchDedup <=> \E j \in Done : Call[j].ref = r
      /\ \A q \in Queues : OrderOf(batch.b.msgs, q) = Followed(InOrder(q), NewIn(q))
  BY <1>1 DEF AcceptInv
<1>4. Done = Producer!Fresh(Call) /\ \A q : NewIn(q) = Producer!New(Call, q)
  BY <1>1, <1>2, AllDone
<1>5. {r \in DedupRefs : dedup[r].expiry > now}'
        = {r \in DedupRefs : dedup[r].expiry > now}
            \cup ({Call[j].ref : j \in Producer!Fresh(Call)} \ {NoKey})
  <2>1. ASSUME NEW r
        PROVE  (\E j \in Done : Call[j].ref = r) /\ r # NoKey => r \in DedupRefs
    <3>1. ASSUME NEW j \in Done PROVE Call[j].ref \in DedupRefs \cup {NoKey}
      BY <1>2, <1>4, FreshIs, CallItems
    <3>. QED  BY <3>1
  <2>2. \A r \in DedupRefs : dedup'[r].expiry > now'
          <=> dedup[r].expiry > now \/ \E j \in Done : Call[j].ref = r
    BY <1>1, <1>2, <1>3
  <2>3. NoKey \notin DedupRefs
    BY KeyAssumption
  <2>. QED  BY <1>4, <2>1, <2>2, <2>3
<1>6. Producer!Accept(Call)
  <2>1. \A q \in Queues : InOrder(q)' = Followed(InOrder(q), Producer!New(Call, q))
    BY <1>1, <1>3, <1>4, OrderIsNext
  <2>2. [q \in Queues |-> InOrder(q)]' = [q \in Queues |-> Followed(InOrder(q), Producer!New(Call, q))]
    BY <2>1
  <2>3. \A q \in Queues : Producer!Waiting(q) = {p[1] : p \in InOrder(q)}
    BY DEF Producer!Waiting
  <2>. QED  BY <1>1, <1>3, <1>4, <1>5, <2>2, <2>3, SameCard DEF Producer!Accept, Followed
<1>7. [i \in DOMAIN batch.items |-> AbstractItem(batch.items[i])]' = << >>
  BY <1>1 DEF NoBatch
<1>8. [i \in DOMAIN batch.items |-> AbstractItem(batch.items[i])] # << >>
  BY <1>2, SomeCall
<1>. QED  BY <1>6, <1>7, <1>8 DEF Producer!EndCall, Call

\* Every step keeps what the batch holds in step with Intake.
LEMMA AcceptStep ==
    ASSUME BatchInv, Applied!QueueInv, AcceptInv, [BatchNext]_batchVars
    PROVE  AcceptInv'
<1>. USE DEF BatchInv
<1>1. CASE batch' = NoBatch
  BY <1>1 DEF AcceptInv
<1>2. ASSUME NEW items \in Batches, NEW atomic \in BOOLEAN, Room(items),
             batch' = FirstItem(items, atomic), UNCHANGED vars
      PROVE  AcceptInv'
  <2>1. LoopInv'
    BY <1>2, Starts
  <2>2. /\ batch'.items = items /\ batch'.i = 1 /\ batch'.b = Unwritten /\ batch'.batchDedup = {}
    BY <1>2 DEF FirstItem
  <2>3. batch' # NoBatch
    BY <2>2, ItemsOf DEF NoBatch
  <2>4. batch' \in BatchRow
    BY <2>1, <2>3 DEF LoopInv
  <2>5. Unwritten' = Unwritten /\ published' \in Nat
    BY <1>2 DEF Unwritten, vars, store, timers, history, TypeOK
  <2>. QED  BY <2>2, <2>4, <2>5, AcceptFirstNext
<1>3. CASE BatchCrash
  <2>1. batch # NoBatch /\ batch' = FirstItem(batch.items, batch.atomic) /\ UNCHANGED vars
    BY <1>3 DEF BatchCrash
  <2>2. batch.items \in Batches /\ batch.atomic \in BOOLEAN /\ Room(batch.items)
    BY <2>1 DEF LoopInv, BatchRow
  <2>. QED  BY <1>2, <2>1, <2>2
<1>4. CASE UNCHANGED batchVars
  <2>1. UNCHANGED vars /\ batch' = batch
    BY <1>4 DEF batchVars
  <2>2. /\ Call' = Call /\ Remembered' = Remembered /\ \A q : InOrder(q)' = InOrder(q)
        /\ Producer!Fresh(Call)' = Producer!Fresh(Call)
        /\ \A j : Producer!Number(Call, j)' = Producer!Number(Call, j)
    BY <2>1, AcceptSame
  <2>3. Done' = Done
    BY <2>1, <2>2 DEF Done
  <2>4. \A q : NewIn(q)' = NewIn(q)
    BY <2>2, <2>3 DEF NewIn
  <2>5. published' = published
    BY <2>1 DEF vars, history
  <2>6. CASE batch = NoBatch
    BY <2>1, <2>6 DEF AcceptInv, NoBatch
  <2>7. CASE batch # NoBatch
    <3>1. batch'.b = batch.b /\ batch'.i = batch.i /\ batch'.batchDedup = batch.batchDedup
      BY <2>1
    <3>2. /\ batch.b.published = published + Cardinality(Done)
          /\ \A r \in DedupRefs : r \in batch.batchDedup <=>
                r \notin Remembered /\ \E j \in DOMAIN Call : j < batch.i /\ Call[j].ref = r
          /\ \A r \in DedupRefs : r \in batch.batchDedup <=> \E j \in Done : Call[j].ref = r
          /\ \A q \in Queues : OrderOf(batch.b.msgs, q) = Followed(InOrder(q), NewIn(q))
      BY <2>7 DEF AcceptInv
    <3>3. batch'.b.published = published' + Cardinality(Done')
      BY <2>3, <2>5, <3>1, <3>2
    <3>4. \A r \in DedupRefs : r \in batch'.batchDedup <=>
             r \notin Remembered' /\ \E j \in DOMAIN Call' : j < batch'.i /\ Call'[j].ref = r
      BY <2>2, <3>1, <3>2
    <3>5. \A r \in DedupRefs : r \in batch'.batchDedup <=> \E j \in Done' : Call'[j].ref = r
      BY <2>2, <2>3, <3>1, <3>2
    <3>6. \A q \in Queues : OrderOf(batch'.b.msgs, q) = Followed(InOrder(q)', NewIn(q)')
      BY <2>2, <2>4, <3>1, <3>2
    <3>. QED  BY <3>3, <3>4, <3>5, <3>6 DEF AcceptInv
  <2>. QED  BY <2>6, <2>7
<1>5. CASE batch # NoBatch /\ ItemPublished
  BY <1>5, AcceptPublished
<1>6. CASE batch # NoBatch /\ ItemDuplicate
  BY <1>6, AcceptDuplicate
<1>7. Alone(Next) \/ BatchCommit \/ ItemAborts => batch' = NoBatch
  BY DEF Alone, BatchCommit, ItemAborts
<1>. QED
  BY <1>1, <1>2, <1>3, <1>4, <1>5, <1>6, <1>7 DEF BatchNext, BatchBegin, BatchLoop

\* Every step is one of Intake or leaves it as it is.
LEMMA IntakeStep ==
    ASSUME NoTeardown, "redrive" \notin AdminOps,
           BatchInv, ForkInv, AcceptInv, [BatchNext]_batchVars
    PROVE  [Producer!Next]_(Producer!vars)
<1>. USE DEF BatchInv
<1>1. CASE Alone(Next)
  <2>1. batch = NoBatch /\ UNCHANGED batch /\ [Next]_vars
    BY <1>1 DEF Alone
  <2>2. QueueInv
    BY DEF ForkInv
  <2>3. ASSUME NEW q \in Queues, NEW r \in PublishReq, Publish(q, r) PROVE Producer!AcceptOne
    BY <2>1, <2>2, <2>3, AcceptsOne
  <2>4. CASE Tick \/ \E t \in dedupExpiry : FireDedupExpiry(t)
    <3>1. Producer!Forget
      BY <2>1, <2>4, Forgets
    <3>. QED  BY <3>1 DEF Producer!Next
  <2>5. CASE UNCHANGED <<now, dedup, published>> /\ Stays
    <3>1. Producer!Depart
      BY <2>1, <2>5, Departs
    <3>. QED  BY <3>1 DEF Producer!Next
  <2>6. \/ \E q \in Queues : \E r \in PublishReq : Publish(q, r)
        \/ Stays
    BY <2>1, <2>2, StepSorts
  <2>7. \/ \E q \in Queues : \E r \in PublishReq : Publish(q, r)
        \/ Tick
        \/ \E t \in dedupExpiry : FireDedupExpiry(t)
        \/ UNCHANGED <<now, dedup, published>>
    BY <2>1, StepClock
  <2>. QED  BY <2>3, <2>4, <2>5, <2>6, <2>7 DEF Producer!Next
<1>2. ASSUME NEW items \in Batches, NEW atomic \in BOOLEAN, BatchBegin(items, atomic)
      PROVE  Producer!BeginCall
  BY <1>2, Begins
<1>3. ASSUME UNCHANGED vars, batch'.items = batch.items
      PROVE  UNCHANGED Producer!vars
  <2>1. Call' = Call /\ Remembered' = Remembered /\ \A q : InOrder(q)' = InOrder(q)
    BY <1>3, AcceptSame
  <2>2. published' = published
    BY <1>3 DEF vars, history
  <2>3. UNCHANGED [i \in DOMAIN batch.items |-> AbstractItem(batch.items[i])]
    BY <2>1 DEF Call
  <2>4. UNCHANGED {r \in DedupRefs : dedup[r].expiry > now}
    BY <2>1 DEF Remembered
  <2>5. UNCHANGED [q \in Queues |-> InOrder(q)]
    BY <2>1
  <2>. QED  BY <2>2, <2>3, <2>4, <2>5 DEF Producer!vars
<1>4. CASE BatchLoop
  <2>1. batch # NoBatch /\ batch \in BatchRow
    BY <1>4 DEF BatchLoop, LoopInv
  <2>2. CASE ItemAborts
    <3>1. UNCHANGED vars /\ batch' = NoBatch
      BY <2>2 DEF ItemAborts
    <3>2. UNCHANGED <<now, msgs, dedup, published>>
      BY <3>1 DEF vars, store, history
    <3>3. \A q : InOrder(q)' = InOrder(q)
      BY <3>2 DEF InOrder, Stored
    <3>4. UNCHANGED <<[q \in Queues |-> InOrder(q)], published,
                      {r \in DedupRefs : dedup[r].expiry > now}>>
      BY <3>2, <3>3
    <3>5. [i \in DOMAIN batch.items |-> AbstractItem(batch.items[i])]' = << >>
      BY <3>1 DEF NoBatch
    <3>6. Producer!EndCall
      BY <2>1, <3>4, <3>5, SomeCall DEF Producer!EndCall
    <3>. QED  BY <3>6 DEF Producer!Next
  <2>3. CASE ItemDuplicate \/ ItemPublished
    <3>1. UNCHANGED vars /\ batch'.items = batch.items
      BY <2>1, <2>3, ItemWrites DEF ItemDuplicate, ItemPublished, BatchRow
    <3>. QED  BY <1>3, <3>1
  <2>. QED  BY <1>4, <2>2, <2>3 DEF BatchLoop
<1>5. CASE BatchCommit
  BY <1>5, Commits DEF Producer!Next
<1>6. CASE BatchCrash
  <2>1. UNCHANGED vars /\ batch'.items = batch.items
    BY <1>6 DEF BatchCrash, FirstItem
  <2>. QED  BY <1>3, <2>1
<1>7. CASE UNCHANGED batchVars
  <2>1. UNCHANGED vars /\ batch'.items = batch.items
    BY <1>7 DEF batchVars
  <2>. QED  BY <1>3, <2>1
<1>. QED
  BY <1>1, <1>2, <1>4, <1>5, <1>6, <1>7 DEF BatchNext, Producer!Next

\* The broker with its batches implements the producer's view of it: a batch is
\* accepted as one, in order, each key once, wherever a crash cuts it, and whatever
\* workers, timers, purges and reaps do, what stays in a group keeps its order.
THEOREM BatchesAreAccepted ==
    ASSUME NoTeardown, "redrive" \notin AdminOps
    PROVE  BatchSpec => AcceptsAsOne
<1>1. BatchInit => Producer!Init
  <2>. SUFFICES ASSUME BatchInit PROVE Producer!Init
    OBVIOUS
  <2>1. /\ \A k \in Keys : msgs[k] = NoMessage
        /\ \A r \in DedupRefs : dedup[r] = NoDedup
        /\ published = 0 /\ now = 1 /\ batch = NoBatch
    BY DEF BatchInit, Init
  <2>2. \A q \in Queues : Stored(q) = {}
    BY <2>1 DEF Stored, Keys, NoMessage
  <2>4. \A q \in Queues : InOrder(q) = {}
    BY <2>2 DEF InOrder
  <2>3. {r \in DedupRefs : dedup[r].expiry > now} = {}
    BY <2>1 DEF NoDedup
  <2>. QED  BY <2>1, <2>3, <2>4, NoCall DEF Producer!Init
<1>2. BatchInit => AcceptInv
  BY DEF BatchInit, AcceptInv
<1>3. BatchInv /\ ForkInv /\ Applied!ForkInv /\ AcceptInv /\ [BatchNext]_batchVars
        => AcceptInv' /\ [Producer!Next]_(Producer!vars)
  BY AcceptStep, IntakeStep DEF Applied!ForkInv
<1>. QED
  BY <1>1, <1>2, <1>3, BatchLoopHeld, BatchForkHeld, PTL
  DEF BatchSpec, AcceptsAsOne, Producer!Spec
=============================================================================
