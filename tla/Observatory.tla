---------------------------- MODULE Observatory -----------------------------
(***************************************************************************)
(* The fairness projection of the leader (internal/node/fairness.go): a    *)
(* ring of the last served events, the rolling counts that go with it, and *)
(* the subscribers that are nudged; and the SSE stream of the console that *)
(* turns nudges into frames (internal/httpapi/fairness.go).                *)
(*                                                                         *)
(* record and snapshot run under the projection's lock.  A frame takes two *)
(* snapshots, one for the ribbon and one inside LaneFairness for the       *)
(* shares, and a serve may fall between them.                              *)
(***************************************************************************)
EXTENDS Integers, FiniteSets

CONSTANTS
    Lanes, Tenants,     \* lanes, and the groups served
    Viewers,            \* console connections
    RingCap,            \* ringCap
    MaxRibbon,          \* maxRibbon
    MaxServes           \* bound on served events

ASSUME ObservatoryAssumption ==
    RingCap \in Nat \ {0} /\ MaxRibbon \in Nat \ {0} /\ MaxServes \in Nat

VARIABLES
    ring, head, count, total,   \* fairnessProjection
    served,                     \* rolling counts, 0 where the map has no entry
    viewers                     \* the streams and their subscriptions

obsVars == <<ring, head, count, total, served, viewers>>

Slots    == 0..(RingCap - 1)
\* fairnessEvent.
Served   == [lane: Lanes, group: Tenants]
NoServe  == [lane |-> "none"]
\* Groups in the order of service: an event is known by its number in that order.
Ribbons  == UNION {[S -> Tenants] : S \in SUBSET (1..MaxServes)}
\* ribbonFrame: the ribbon and the total of one snapshot, the counts of another.
Frame    == [ribbon: Ribbons, total: Nat, shares: [Tenants -> Nat]]
NoFrame  == [ribbon |-> [n \in {} |-> NoServe], total |-> 0, shares |-> [t \in Tenants |-> 0]]
NoViewer == [at |-> "off"]
\* fairnessSub with its channel of one nudge, and the stream's own state.
Viewer   == [at: {"connect", "loop", "emit"}, lane: Lanes, nudge: BOOLEAN,
             dirty: BOOLEAN, frame: Frame, shown: Frame]

-----------------------------------------------------------------------------
(* The projection                                                          *)

\* The valid events, oldest first.
Events ==
    LET start == (head - count + RingCap) % RingCap
    IN  [i \in 1..count |-> ring[(start + i - 1) % RingCap]]

\* The counts without the event about to be overwritten.
Evicted ==
    IF count < RingCap THEN served
    ELSE LET old == ring[head]
         IN  [served EXCEPT ![old.lane][old.group] = IF @ > 0 THEN @ - 1 ELSE 0]

\* Mutant: nudges are not kept for a stream that is busy emitting.
Nudged_LoopOnly(l) ==
    [v \in Viewers |->
        IF viewers[v].at = "loop" /\ viewers[v].lane = l
        THEN [viewers[v] EXCEPT !.nudge = TRUE] ELSE viewers[v]]

\* The lane's subscribers; a channel that is full already says so.
Nudged(l) ==
    [v \in Viewers |->
        IF viewers[v] # NoViewer /\ viewers[v].lane = l
        THEN [viewers[v] EXCEPT !.nudge = TRUE] ELSE viewers[v]]

\* record, of a lease of group g.
Record(l, g) ==
    /\ total < MaxServes
    /\ ring' = [ring EXCEPT ![head] = [lane |-> l, group |-> g]]
    /\ head' = (head + 1) % RingCap
    /\ count' = IF count = RingCap THEN count ELSE count + 1
    /\ total' = total + 1
    /\ served' = [Evicted EXCEPT ![l][g] = @ + 1]
    /\ viewers' = Nudged(l)

\* The n-th event ever recorded, for the numbers the ring still holds.
Held == (total - count + 1)..total
Event(n) == Events[n - (total - count)]

\* The lane's events, and the latest of them.
OfLane(l) == {n \in Held : Event(n).lane = l}
Latest(l) == {n \in OfLane(l) : Cardinality({m \in OfLane(l) : m >= n}) <= MaxRibbon}

\* snapshot.
Ribbon(l) == [n \in Latest(l) |-> Event(n).group]

SumOf(f) ==
    LET Upto[S \in SUBSET Tenants] ==
            IF S = {} THEN 0
            ELSE LET t == CHOOSE x \in S : TRUE IN f[t] + Upto[S \ {t}]
    IN  Upto[Tenants]

-----------------------------------------------------------------------------
(* The stream                                                              *)

\* The subscription comes before the first frame.
Connect(v, l) ==
    /\ viewers[v] = NoViewer
    /\ viewers' = [viewers EXCEPT ![v] =
          [at |-> "connect", lane |-> l, nudge |-> FALSE, dirty |-> FALSE,
           frame |-> NoFrame, shown |-> NoFrame]]
    /\ UNCHANGED <<ring, head, count, total, served>>

\* A nudge marks the stream dirty; the frame waits for the next tick.
TakeNudge(v) ==
    /\ viewers[v].at = "loop" /\ viewers[v].nudge
    /\ viewers' = [viewers EXCEPT ![v].nudge = FALSE, ![v].dirty = TRUE]
    /\ UNCHANGED <<ring, head, count, total, served>>

\* emitServed, at once or on a tick: the snapshot of the ribbon.
EmitSnapshot(v) ==
    /\ viewers[v].at = "connect" \/ (viewers[v].at = "loop" /\ viewers[v].dirty)
    /\ viewers' = [viewers EXCEPT
          ![v].at = "emit", ![v].dirty = FALSE,
          ![v].frame.ribbon = Ribbon(viewers[v].lane),
          ![v].frame.total = SumOf(served[viewers[v].lane])]
    /\ UNCHANGED <<ring, head, count, total, served>>

\* What LaneFairness takes from the projection, in a snapshot of its own.
LaneFairness(l) == served[l]

\* The shares join the frame, and it is written.
EmitFrame(v) ==
    /\ viewers[v].at = "emit"
    /\ viewers' = [viewers EXCEPT
          ![v].at = "loop",
          ![v].shown = [viewers[v].frame EXCEPT !.shares = LaneFairness(viewers[v].lane)]]
    /\ UNCHANGED <<ring, head, count, total, served>>

\* The client is gone or a write failed.
Disconnect(v) ==
    /\ viewers[v] # NoViewer
    /\ viewers' = [viewers EXCEPT ![v] = NoViewer]
    /\ UNCHANGED <<ring, head, count, total, served>>

-----------------------------------------------------------------------------
(* Specification                                                           *)

ObsInit ==
    /\ ring = [s \in Slots |-> NoServe] /\ head = 0 /\ count = 0 /\ total = 0
    /\ served = [l \in Lanes |-> [t \in Tenants |-> 0]]
    /\ viewers = [v \in Viewers |-> NoViewer]

ObsNext ==
    \/ \E l \in Lanes : \E g \in Tenants : Record(l, g)
    \/ \E v \in Viewers :
          \/ \E l \in Lanes : Connect(v, l)
          \/ TakeNudge(v) \/ EmitSnapshot(v) \/ EmitFrame(v) \/ Disconnect(v)

ObsSpec == ObsInit /\ [][ObsNext]_obsVars

-----------------------------------------------------------------------------
(* Properties                                                              *)

\* What the projection and the streams keep of types.
ObsTypeOK ==
    /\ ring \in [Slots -> Served \cup {NoServe}]
    /\ head \in Slots /\ count \in 0..RingCap /\ total \in 0..MaxServes
    /\ served \in [Lanes -> [Tenants -> Nat]]
    /\ viewers \in [Viewers -> Viewer \cup {NoViewer}]

\* f lacks an event of the ribbon of l.
Behind(f, l) ==
    \E n \in Latest(l) : n \notin DOMAIN f.ribbon \/ f.ribbon[n] # Event(n).group

\* No wake-up is lost: a stream whose frame lacks an event of the present ribbon
\* has a nudge waiting, is dirty, or has yet to take its snapshot, so it emits
\* again.  Only the decay of old events by another lane's serves goes untold.
ViewerCatchesUp ==
    \A v \in Viewers :
        LET w == viewers[v]
        IN  /\ w.at = "loop" /\ Behind(w.shown, w.lane) => w.nudge \/ w.dirty
            /\ w.at = "emit" /\ Behind(w.frame, w.lane) => w.nudge \/ w.dirty

\* The rolling counts are the ring's: each group's is the number of its events
\* that the ring holds, so the check against going below zero never decides.
CountsMatchRing ==
    \A l \in Lanes, g \in Tenants :
        served[l][g] = Cardinality({n \in Held : Event(n) = [lane |-> l, group |-> g]})
=============================================================================
