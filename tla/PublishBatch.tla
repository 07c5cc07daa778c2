---------------------------- MODULE PublishBatch ----------------------------
(***************************************************************************)
(* Broker with applyPublishBatch: many publishes in one Raft entry.  The   *)
(* handler walks the items, writes rows into a Pebble batch b and keeps    *)
(* what it needs of its own writes in two maps, because every read it does *)
(* is of committed state: cache, the metadata of the groups touched, and   *)
(* batchDedup, the keys published (with the ids its answer repeats, which  *)
(* nothing else reads).  Nothing is visible before the commit.             *)
(*                                                                         *)
(* No other command is applied between the items of a batch.  A read of    *)
(* the leader that falls between them sees what one before the batch sees, *)
(* so no other step is interleaved; a crash is, and the entry is then      *)
(* applied again from its first item.                                      *)
(*                                                                         *)
(* An item fails only if a row cannot be encoded.  For an atomic batch the *)
(* handler then returns the error and Apply drops the Pebble batch; in a   *)
(* best-effort one it would go on with the counters of the failed item in  *)
(* cache.  The rows are made of strings gRPC has validated, so this is an  *)
(* error path no request is known to reach; the abort is modelled.         *)
(***************************************************************************)
EXTENDS Broker, Sequences

CONSTANTS
    MaxBatch,       \* bound on the items of a batch
    MaxCrashes      \* bound on crashes inside a batch

\* A publish without a key is no key of a lane.
ASSUME KeyAssumption == NoKey \notin DedupRefs

VARIABLES
    batch,          \* the batch being applied, NoBatch if none
    crashes

batchVars == <<vars, batch, crashes>>

NoBatch == [items |-> << >>]
\* PublishBatchCmd.
Item    == [q: Queues, r: PublishReq]
Batches == UNION {[1..n -> Item] : n \in 2..MaxBatch}

\* The Pebble batch: the rows as they will be after the commit.
Unwritten ==
    [msgs |-> msgs, readyAt |-> readyAt, msgExpiry |-> msgExpiry,
     dedup |-> dedup, dedupExpiry |-> dedupExpiry,
     published |-> published, promised |-> promised]

FirstItem(items, atomic) ==
    [items |-> items, atomic |-> atomic, i |-> 1, b |-> Unwritten,
     cache |-> [q \in Queues |-> NoMeta],
     batchDedup |-> {}]

-----------------------------------------------------------------------------
(* The loop                                                                *)

It  == batch.items[batch.i]
Ref == <<It.q[1], It.r.dedup>>

\* Mutant: every item loads the committed metadata.
CachedMeta_Reloaded(q) == LoadGroupMeta(q)

\* Items of one group share one evolving metadata row.
CachedMeta(q) ==
    IF batch.cache[q].exists THEN batch.cache[q] ELSE LoadGroupMeta(q)

\* Mutant: only committed keys are looked up.
InBatch_Unchecked == FALSE

InBatch == It.r.dedup # NoKey /\ Ref \in batch.batchDedup

\* The key is in a committed window or was published by an earlier item.
ItemDuplicate ==
    /\ batch.i <= Len(batch.items)
    /\ IsDuplicate(It.q, It.r) \/ InBatch
    /\ batch' = [batch EXCEPT !.i = @ + 1]
    /\ UNCHANGED <<vars, crashes>>

\* publishOne on the cached metadata, then recordDedup.
ItemPublished ==
    LET g == CachedMeta(It.q)
        k == <<It.q, g.next>>
        r == It.r
        body == batch.b.published + 1
        written == [batch.b EXCEPT
            !.published = body,
            !.msgs[k] =
                [state |-> IF r.delay > 0 THEN "DELAYED" ELSE "READY",
                 lease |-> 0, epoch |-> 0, attempt |-> 0, max |-> r.max,
                 token |-> r.token, body |-> body, due |-> now + r.delay,
                 ttlAt |-> IF r.ttl > 0 THEN now + r.ttl ELSE 0],
            !.readyAt = IF r.delay > 0 THEN AddTimer(@, now + r.delay, k, 0) ELSE @,
            !.msgExpiry = IF r.ttl > 0 THEN AddTimer(@, now + r.ttl, k, 0) ELSE @]
        exp == now + DedupWindow
    IN  /\ batch.i <= Len(batch.items)
        /\ ~IsDuplicate(It.q, It.r) /\ ~InBatch
        /\ batch' = [batch EXCEPT
              !.i = @ + 1,
              !.cache[It.q] =
                [g EXCEPT !.next = @ + 1, !.total = @ + 1, !.last = now,
                          !.delayed = IF r.delay > 0 THEN @ + 1 ELSE @,
                          !.ready   = IF r.delay > 0 THEN @ ELSE @ + 1],
              !.b = IF r.dedup = NoKey THEN written
                    ELSE [written EXCEPT
                        !.dedup[Ref] = [id |-> g.next, expiry |-> exp],
                        !.dedupExpiry = AddTimer(@, exp, Ref, 0),
                        !.promised[Ref] = exp],
              !.batchDedup = IF r.dedup = NoKey THEN @ ELSE @ \cup {Ref}]
        /\ UNCHANGED <<vars, crashes>>

\* The row of an item of an atomic batch cannot be written.
ItemAborts ==
    /\ batch.i <= Len(batch.items) /\ batch.atomic
    /\ batch' = NoBatch
    /\ UNCHANGED <<vars, crashes>>

\* The metadata rows join the batch and it commits.
BatchCommit ==
    /\ batch # NoBatch /\ batch.i > Len(batch.items)
    /\ msgs' = batch.b.msgs
    /\ meta' = [q \in Queues |->
          IF batch.cache[q].exists THEN batch.cache[q] ELSE meta[q]]
    /\ readyAt' = batch.b.readyAt /\ msgExpiry' = batch.b.msgExpiry
    /\ dedup' = batch.b.dedup /\ dedupExpiry' = batch.b.dedupExpiry
    /\ published' = batch.b.published /\ promised' = batch.b.promised
    /\ batch' = NoBatch
    /\ UNCHANGED <<now, leases, nextLease, tokens, dlq, leaseDeadline,
                   leaseMaxLife, picked, reapCmds, acked, dropped, crashes>>

-----------------------------------------------------------------------------
(* Specification                                                           *)

Room(items) ==
    /\ published + Len(items) <= MaxPublish
    /\ \A q \in Queues : LoadGroupMeta(q).next + Len(items) - 1 <= MaxMsgId
    /\ \A i \in DOMAIN items :
          /\ now + items[i].r.delay <= Horizon /\ now + items[i].r.ttl <= Horizon
          /\ items[i].r.dedup # NoKey => now + DedupWindow <= Horizon

\* Node.PublishBatch: the entry reaches the state machine.
BatchBegin(items, atomic) ==
    /\ batch = NoBatch /\ Room(items)
    /\ batch' = FirstItem(items, atomic)
    /\ UNCHANGED <<vars, crashes>>

\* The process dies before the commit and applies the entry again.
BatchCrash ==
    /\ batch # NoBatch /\ crashes < MaxCrashes
    /\ crashes' = crashes + 1
    /\ batch' = FirstItem(batch.items, batch.atomic)
    /\ UNCHANGED vars

BatchLoop == batch # NoBatch /\ (ItemDuplicate \/ ItemPublished \/ ItemAborts)

Alone(A) == batch = NoBatch /\ A /\ UNCHANGED <<batch, crashes>>

BatchInit == Init /\ batch = NoBatch /\ crashes = 0

BatchNext ==
    \/ Alone(Next)
    \/ \E items \in Batches : \E atomic \in BOOLEAN : BatchBegin(items, atomic)
    \/ BatchLoop
    \/ BatchCommit
    \/ BatchCrash

BatchSpec == BatchInit /\ [][BatchNext]_batchVars

\* chronosLoop runs every 25 ms on the leader and proposes every due row, time
\* passes, and the state machine finishes the entry it applies; workers, producers
\* and operators owe nothing.
\* Commands are applied in the order of the log: a fire that is proposed again
\* and again is applied however many batches are.
BatchFairSpec ==
    /\ BatchSpec
    /\ SF_batchVars(Alone(Tick)) /\ SF_batchVars(Alone(SweepNext))
    /\ WF_batchVars(BatchLoop \/ BatchCommit)

-----------------------------------------------------------------------------
(* Properties                                                              *)

\* The messages stored for q, in the order of their ids, each by its payload.
Stored(q) == {i \in MsgIds : msgs[<<q, i>>].state # "NONE"}
InOrder(q) ==
    {<<msgs[<<q, p[1]>>].body, msgs[<<q, p[2]>>].body>> :
        p \in {x \in Stored(q) \X Stored(q) : x[1] <= x[2]}}

AbstractItem(it) ==
    [q |-> it.q, ref |-> IF it.r.dedup = NoKey THEN NoKey ELSE <<it.q[1], it.r.dedup>>]

Producer == INSTANCE Intake WITH
    Refs <- DedupRefs, NoRef <- NoKey, MaxCall <- MaxBatch,
    call  <- [i \in DOMAIN batch.items |-> AbstractItem(batch.items[i])],
    queue <- [q \in Queues |-> InOrder(q)],
    taken <- published,
    known <- {r \in DedupRefs : dedup[r].expiry > now}

\* The broker with its batches implements the producer's view of it: a batch,
\* whatever keys and groups its items repeat and wherever a crash cuts it, is
\* appended as one, in order, each key once, and nothing else reorders a group.
AcceptsAsOne == Producer!Spec

\* Neither a lease nor a delay lasts for ever: a worker that dies cannot pin its
\* message, the sweep wakes what waits, however batches and reaps interleave.
WaitsEnd ==
    /\ \A l \in LeaseIds : leases[l].live ~> ~leases[l].live
    /\ \A k \in Keys : msgs[k].state = "DELAYED" ~> msgs[k].state # "DELAYED"
=============================================================================
