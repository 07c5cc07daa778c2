------------------------------ MODULE Replica -------------------------------
(***************************************************************************)
(* One node between the committed Raft log and its Pebble store: Apply,    *)
(* Snapshot and Restore of internal/fsm/fsm.go, the log store of           *)
(* internal/raftpebble, and Open of internal/node/node.go, with a crash    *)
(* between any two of their durable writes.  Consensus is the library's:   *)
(* an entry is here once it is committed, and hashicorp/raft feeds the     *)
(* entries in order, saves and installs snapshots, and calls Restore.      *)
(*                                                                         *)
(* The application keyspace is abstracted to how often the effect of each  *)
(* command is in it; whether a handler rejects a command (it returns an    *)
(* error and writes nothing) depends on the state the log gives and so is  *)
(* part of the log.                                                        *)
(***************************************************************************)
EXTENDS Integers

CONSTANTS
    MaxLog,         \* bound on the length of the log
    Trailing,       \* TrailingLogs: entries kept behind a snapshot
    MaxStops        \* bound on the number of crashes

ASSUME ReplicaAssumption ==
    MaxLog \in Nat \ {0} /\ Trailing \in Nat /\ MaxStops \in Nat

VARIABLES
    log, commit,    \* the entries, and how many are committed
    rows,           \* application keyspace: command -> times its effect is in
    row,            \* meta:applied_index, 0 if the key is absent
    snap,           \* the newest snapshot on disk, index 0 if there is none
    first,          \* entries from here on can still be read
    up,             \* the process runs
    applied,        \* FSM.appliedIndex
    fed,            \* the library's last applied entry
    fsmLast,        \* the last entry or snapshot the library gave to the FSM
    saving,         \* a snapshot taken and not yet on disk, index 0 if none
    restoring, loaded,  \* the phase of Restore, the rows it has committed
    stops           \* crashes so far

disk   == <<rows, row, snap, first>>
memory == <<up, applied, fed, fsmLast, saving, restoring, loaded>>
vars   == <<log, commit, disk, memory, stops>>

Indexes  == 1..MaxLog
Kinds    == {"accepted", "rejected", "other"}   \* other: no-op, configuration
Snapshot == [index: 0..MaxLog, row: 0..MaxLog, rows: [Indexes -> Nat]]

Empty  == [i \in Indexes |-> 0]
NoSnap == [index |-> 0, row |-> 0, rows |-> Empty]

\* Every accepted command up to n is in the keyspace once, and no other.
Exact(n) == [i \in Indexes |-> IF i <= n /\ log[i] = "accepted" THEN 1 ELSE 0]

\* Nothing that changes the keyspace lies after r and up to n.
Quiet(r, n) == \A i \in Indexes : r < i /\ i <= n => log[i] # "accepted"

Serving == up /\ restoring = "no"

-----------------------------------------------------------------------------
(* Apply                                                                   *)

\* Log replay after a restart.
AlreadyApplied(i) == i <= applied

\* The library feeds the next committed entry.
Feed(i) ==
    /\ Serving /\ i = fed + 1 /\ i <= commit /\ first <= i
    /\ fed' = i
    /\ fsmLast' = IF log[i] = "other" THEN fsmLast ELSE i
    /\ UNCHANGED <<log, commit, snap, first, up, saving, restoring, loaded, stops>>

\* The handler's batch and applied_index commit together.
ApplyCommand(i) ==
    /\ log[i] = "accepted" /\ ~AlreadyApplied(i)
    /\ rows' = [rows EXCEPT ![i] = @ + 1]
    /\ row' = i /\ applied' = i

\* A replayed command, one whose handler fails, or no command at all.
ApplyNothing(i) ==
    /\ log[i] # "accepted" \/ AlreadyApplied(i)
    /\ UNCHANGED <<rows, row, applied>>

Apply(i) == Feed(i) /\ (ApplyCommand(i) \/ ApplyNothing(i))

-----------------------------------------------------------------------------
(* Snapshots                                                               *)

\* FSM.Snapshot pins the keyspace, applied_index included.
TakeSnapshot ==
    /\ Serving /\ fsmLast > 0 /\ saving.index = 0
    /\ saving' = [index |-> fsmLast, row |-> row, rows |-> rows]
    /\ UNCHANGED <<log, commit, disk, up, applied, fed, fsmLast, restoring, loaded, stops>>

\* Mutant: the keyspace is read while it is written out.
Persisted_Live == [index |-> saving.index, row |-> saving.row, rows |-> rows]

\* What Persist writes: the pinned keyspace, while Apply goes on.
Persisted == saving

\* The newest snapshot on disk is the one a restart uses.
PersistSnapshot ==
    /\ up /\ saving.index > 0
    /\ snap' = IF saving.index >= snap.index THEN Persisted ELSE snap
    /\ saving' = NoSnap
    /\ UNCHANGED <<log, commit, rows, row, first, up, applied, fed, fsmLast,
                   restoring, loaded, stops>>

\* Persist fails and cancels its sink: nothing is kept of the snapshot.
CancelSnapshot ==
    /\ up /\ saving.index > 0
    /\ saving' = NoSnap
    /\ UNCHANGED <<log, commit, disk, up, applied, fed, fsmLast, restoring, loaded, stops>>

\* DeleteRange over the log, Trailing entries behind the snapshot.
Retained == snap.index + 1 - Trailing

CompactLogs ==
    /\ up /\ snap.index > 0 /\ first < Retained
    /\ first' = Retained
    /\ UNCHANGED <<log, commit, rows, row, snap, memory, stops>>

\* What another node of the cluster may hold as a snapshot.
PeerSnapshots ==
    {s \in [index: 1..commit, row: 1..commit, rows: {Exact(r) : r \in 1..commit}] :
        s.rows = Exact(s.row) /\ Quiet(s.row, s.index) /\ log[s.row] = "accepted"}

\* The leader has dropped entries this node lacks and sends its snapshot.
InstallSnapshot ==
    /\ Serving
    /\ \E s \in PeerSnapshots : s.index > fed /\ snap' = s /\ first' = s.index + 1
    /\ restoring' = "wipe" /\ loaded' = 0
    /\ UNCHANGED <<log, commit, rows, row, up, applied, fed, fsmLast, saving, stops>>

-----------------------------------------------------------------------------
(* Restore                                                                 *)

\* DeleteRange over the application keyspace; the log is outside its bounds.
RestoreWipe ==
    /\ up /\ restoring = "wipe"
    /\ rows' = Empty /\ row' = 0
    /\ restoring' = "load" /\ loaded' = 0
    /\ UNCHANGED <<log, commit, snap, first, up, applied, fed, fsmLast, saving, stops>>

\* One batch of the stream.  applied_index has the lowest key: it comes first.
RestoreBatch ==
    /\ up /\ restoring = "load"
    /\ \E n \in loaded + 1 .. snap.row :
          /\ loaded' = n
          /\ rows' = [i \in Indexes |->
                        IF loaded < i /\ i <= n THEN snap.rows[i] ELSE rows[i]]
    /\ row' = snap.row
    /\ UNCHANGED <<log, commit, snap, first, up, applied, fed, fsmLast, saving,
                   restoring, stops>>

\* Mutant: the index in memory stays ahead of the restored keyspace.
Restored_Stale == applied

\* appliedIndex follows the restored row; without one it stays.
Restored == IF row = 0 THEN applied ELSE row

RestoreDone ==
    /\ up /\ restoring = "load" /\ loaded = snap.row
    /\ applied' = Restored
    /\ fed' = snap.index /\ fsmLast' = snap.index
    /\ restoring' = "no"
    /\ UNCHANGED <<log, commit, disk, up, saving, loaded, stops>>

-----------------------------------------------------------------------------
(* The process and the cluster                                             *)

\* A crash, or Close: memory is lost, committed batches are not.
Stop ==
    /\ up /\ stops < MaxStops
    /\ up' = FALSE /\ stops' = stops + 1
    /\ saving' = NoSnap /\ restoring' = "no" /\ loaded' = 0
    /\ applied' = 0 /\ fed' = 0 /\ fsmLast' = 0
    /\ UNCHANGED <<log, commit, disk>>

\* Mutant: the store is trusted as it is; the library starts behind it.
RestorePhase_Trusted == "no"

\* NewRaft restores the newest snapshot, whatever the store holds.
RestorePhase == IF snap.index > 0 THEN "wipe" ELSE "no"

\* Open: fsm.New reads applied_index, then NewRaft takes over.
Open ==
    /\ ~up
    /\ up' = TRUE /\ applied' = row
    /\ restoring' = RestorePhase
    /\ UNCHANGED <<log, commit, disk, fed, fsmLast, saving, loaded, stops>>

\* The cluster commits an entry.
Commit ==
    /\ commit < MaxLog
    /\ commit' = commit + 1
    /\ UNCHANGED <<log, disk, memory, stops>>

\* A command is accepted before any is rejected, so that no snapshot lacks
\* applied_index: Restore would keep the index in memory (see Restored) and
\* Apply would skip what the restart replays.
SeedAccepted(l) ==
    \A i \in Indexes : l[i] = "rejected" => \E j \in Indexes : j < i /\ l[j] = "accepted"

Init ==
    /\ log \in {l \in [Indexes -> Kinds] : SeedAccepted(l)}
    /\ commit = 0
    /\ rows = Empty /\ row = 0 /\ snap = NoSnap /\ first = 1
    /\ up = TRUE /\ applied = 0 /\ fed = 0 /\ fsmLast = 0
    /\ saving = NoSnap /\ restoring = "no" /\ loaded = 0 /\ stops = 0

RestoreNext == RestoreWipe \/ RestoreBatch \/ RestoreDone

Next ==
    \/ Commit
    \/ \E i \in Indexes : Apply(i)
    \/ TakeSnapshot \/ PersistSnapshot \/ CancelSnapshot
    \/ CompactLogs \/ InstallSnapshot
    \/ RestoreNext
    \/ Stop \/ Open

Spec == Init /\ [][Next]_vars

\* The library keeps feeding, a restore that began goes on, and an operator or
\* supervisor starts the process again; nothing else has to happen.
FairSpec ==
    /\ Spec
    /\ WF_vars(\E i \in Indexes : Apply(i))
    /\ WF_vars(RestoreNext) /\ WF_vars(Open)

-----------------------------------------------------------------------------
(* Properties                                                              *)

\* The state the variables range over.
TypeOK ==
    /\ log \in [Indexes -> Kinds] /\ commit \in 0..MaxLog
    /\ rows \in [Indexes -> Nat] /\ row \in 0..MaxLog
    /\ snap \in Snapshot /\ saving \in Snapshot
    /\ first \in 1..MaxLog + 1
    /\ up \in BOOLEAN /\ stops \in 0..MaxStops
    /\ {applied, fed, fsmLast, loaded} \subseteq 0..MaxLog
    /\ restoring \in {"no", "wipe", "load"}

\* Whenever the node serves, its keyspace holds the effect of every accepted
\* command it was fed exactly once, and of none beyond applied_index: Apply
\* neither repeats nor skips a command, whatever was replayed, restored or
\* cut off by a crash before.
ExactlyOnce ==
    Serving => /\ rows = Exact(applied)
               /\ Quiet(applied, fed)

\* At every moment, the middle of Restore included, the disk can rebuild the
\* keyspace: the newest snapshot is the state at its index and the log reaches
\* back to it, or there is none and the store and the whole log are intact.
Recoverable ==
    \/ /\ snap.index > 0 /\ first <= snap.index + 1
       /\ snap.rows = Exact(snap.row) /\ Quiet(snap.row, snap.index)
    \/ /\ snap.index = 0 /\ first = 1
       /\ rows = Exact(row)

\* A node that is started again whenever it stops catches up with every entry.
CatchesUp ==
    \A n \in Indexes : (commit >= n) ~> (Serving /\ fed >= n)
=============================================================================
