--------------------------- MODULE ReplicaProofs ----------------------------
(***************************************************************************)
(* Proofs about Replica for every log length, every number of trailing     *)
(* entries and every number of crashes.                                    *)
(***************************************************************************)
EXTENDS Replica, TLAPS

\* A snapshot, on disk or in the making, is the state at its index, and it
\* holds applied_index.
Faithful(s) ==
    s.index > 0 => /\ s.row > 0
                   /\ s.rows = Exact(s.row)
                   /\ Quiet(s.row, s.index)

\* The disk: what Recoverable says, with both snapshots faithful.
DiskOK ==
    /\ Faithful(snap) /\ Faithful(saving)
    /\ first <= snap.index + 1
    /\ snap.index = 0 => rows = Exact(row) /\ restoring = "no"

\* A node that serves: the index in memory is the one on disk, and what the
\* library has given it is covered by it.
ServeOK ==
    Serving =>
        /\ rows = Exact(row) /\ applied = row /\ Quiet(row, fed)
        /\ fsmLast <= fed /\ saving.index <= fed
        /\ fsmLast > 0 => row > 0

\* A node in Restore: the batches committed so far, and a snapshot that no
\* older one still in the making replaces.
RestoreOK ==
    restoring # "no" =>
        /\ up /\ saving.index < snap.index /\ loaded <= snap.row
        /\ restoring = "load" =>
              /\ rows = [i \in Indexes |-> IF i <= loaded THEN snap.rows[i] ELSE 0]
              /\ loaded > 0 => row = snap.row

\* A process that does not run has no memory.
DownOK == ~up => /\ restoring = "no" /\ saving = NoSnap
                 /\ fed = 0 /\ fsmLast = 0 /\ loaded = 0

IndInv ==
    /\ TypeOK /\ SeedAccepted(log)
    /\ DiskOK /\ ServeOK /\ RestoreOK /\ DownOK

-----------------------------------------------------------------------------
(* Facts about one command                                                 *)

\* A keyspace that Apply leaves exact is a keyspace.
LEMMA ExactType == \A n : Exact(n) \in [Indexes -> Nat]
BY DEF Exact

\* Applying the accepted command after a quiet stretch keeps the keyspace exact.
LEMMA ExactGrows ==
    ASSUME NEW r \in Nat, NEW n \in Nat, n + 1 \in Indexes, r <= n,
           Quiet(r, n), log[n + 1] = "accepted"
    PROVE  [Exact(r) EXCEPT ![n + 1] = @ + 1] = Exact(n + 1)
<1>1. ASSUME NEW i \in Indexes
      PROVE  [Exact(r) EXCEPT ![n + 1] = @ + 1][i] = Exact(n + 1)[i]
    BY <1>1 DEF Exact, Quiet, Indexes
<1>2. QED
    BY <1>1 DEF Exact

\* The batches of a whole snapshot are the snapshot.
LEMMA AllLoaded ==
    ASSUME NEW n \in Nat
    PROVE  [i \in Indexes |-> IF i <= n THEN Exact(n)[i] ELSE 0] = Exact(n)
BY DEF Exact, Indexes

-----------------------------------------------------------------------------
(* The invariant is inductive                                              *)

\* The inductive invariant holds at the start.
LEMMA InitInv == Init => IndInv
BY ReplicaAssumption
   DEF Init, IndInv, TypeOK, DiskOK, ServeOK, RestoreOK, DownOK, Serving, Faithful,
       Exact, Quiet, Empty, NoSnap, Snapshot, Indexes, Kinds

\* Apply, of a command and of a log entry that changes nothing.
LEMMA ApplyInv ==
    ASSUME IndInv, NEW i \in Indexes, Apply(i)
    PROVE  IndInv'
<1> USE ReplicaAssumption DEF IndInv
<1>1. /\ up /\ restoring = "no" /\ i = fed + 1 /\ i <= commit
      /\ fed' = i /\ fsmLast' \in {fsmLast, i}
      /\ UNCHANGED <<log, commit, snap, first, up, saving, restoring, loaded, stops>>
    BY DEF Apply, Feed, Serving
<1>2. /\ rows = Exact(row) /\ applied = row /\ Quiet(row, fed)
      /\ fsmLast <= fed /\ saving.index <= fed /\ (fsmLast > 0 => row > 0)
    BY <1>1 DEF ServeOK, Serving
<1>3. /\ fed \in Nat /\ row \in 0..MaxLog /\ fsmLast \in 0..MaxLog
      /\ saving.index \in 0..MaxLog /\ i \in 1..MaxLog
    BY DEF TypeOK, Snapshot, Indexes
<1>4. /\ rows' = Exact(row') /\ row' \in 0..MaxLog /\ applied' = row'
      /\ Quiet(row', i) /\ (row > 0 => row' > 0)
    <2>1. CASE ApplyCommand(i)
        <3>1. log[i] = "accepted" /\ row <= fed /\ row' = i /\ applied' = i
              /\ rows' = [rows EXCEPT ![i] = @ + 1]
            BY <1>1, <1>2, <1>3, <2>1 DEF ApplyCommand, AlreadyApplied
        <3>2. rows' = Exact(i)
            <4>1. /\ row \in Nat /\ fed \in Nat /\ fed + 1 \in Indexes
                  /\ log[fed + 1] = "accepted"
                BY <3>1, <1>1, <1>3
            <4>2. [Exact(row) EXCEPT ![fed + 1] = @ + 1] = Exact(fed + 1)
                BY <4>1, <3>1, <1>2, ExactGrows, Zenon
            <4>3. QED
                BY <4>2, <3>1, <1>1, <1>2
        <3>3. QED
            BY <3>1, <3>2, <1>3 DEF Quiet, Indexes
    <2>2. CASE ApplyNothing(i)
        <3>1. /\ log[i] # "accepted" \/ i <= row
              /\ rows' = rows /\ row' = row /\ applied' = applied
            BY <1>2, <2>2 DEF ApplyNothing, AlreadyApplied
        <3>2. Quiet(row, i)
            BY <3>1, <1>1, <1>2, <1>3 DEF Quiet, Indexes
        <3>3. QED
            BY <3>1, <3>2, <1>2, <1>3
    <2>3. QED
        BY <2>1, <2>2 DEF Apply
<1>5. fsmLast' > 0 => row' > 0
    <2>1. CASE fsmLast' = fsmLast
        BY <2>1, <1>2, <1>4
    <2>2. CASE log[i] = "accepted"
        BY <2>2, <1>3, <1>4 DEF Apply, ApplyCommand, ApplyNothing, AlreadyApplied
    <2>3. CASE log[i] = "rejected"
        <3>1. PICK j \in Indexes : j < i /\ log[j] = "accepted"
            BY <2>3 DEF SeedAccepted
        <3>2. j <= row
            BY <3>1, <1>1, <1>2, <1>3 DEF Quiet, Indexes
        <3>3. QED
            BY <3>2, <1>3, <1>4 DEF Indexes
    <2>4. CASE log[i] = "other"
        BY <2>4, <2>1 DEF Apply, Feed
    <2>5. QED
        BY <2>1, <2>2, <2>3, <2>4 DEF TypeOK, Kinds
<1>6. TypeOK'
    BY <1>1, <1>3, <1>4, ExactType DEF TypeOK, Indexes, Exact
<1>7. DiskOK'
    BY <1>1, <1>4 DEF DiskOK, Faithful, Exact, Quiet
<1>8. ServeOK'
    BY <1>1, <1>2, <1>3, <1>4, <1>5 DEF ServeOK, Serving, Exact, Quiet
<1>9. QED
    BY <1>1, <1>6, <1>7, <1>8 DEF RestoreOK, DownOK, SeedAccepted

\* Taking, saving and dropping a snapshot, and cutting the log behind it.
LEMMA SnapshotInv ==
    ASSUME IndInv,
           TakeSnapshot \/ PersistSnapshot \/ CancelSnapshot \/ CompactLogs
    PROVE  IndInv'
<1> USE ReplicaAssumption DEF IndInv
<1>1. CASE TakeSnapshot
    <2>1. Serving /\ fsmLast > 0 /\ saving' = [index |-> fsmLast, row |-> row, rows |-> rows]
          /\ UNCHANGED <<log, commit, rows, row, snap, first, up, applied, fed,
                         fsmLast, restoring, loaded, stops>>
        BY <1>1 DEF TakeSnapshot, disk
    <2>2. row > 0 /\ rows = Exact(row) /\ Quiet(row, fsmLast) /\ fsmLast <= fed
        BY <2>1 DEF ServeOK, Quiet, TypeOK, Indexes
    <2>3. TypeOK'
        BY <2>1 DEF TypeOK, Snapshot
    <2>4. DiskOK'
        BY <2>1, <2>2 DEF DiskOK, Faithful, Exact, Quiet
    <2>5. ServeOK'
        BY <2>1, <2>2 DEF ServeOK, Serving, Exact, Quiet
    <2>6. QED
        BY <2>1, <2>3, <2>4, <2>5 DEF RestoreOK, DownOK, SeedAccepted, Serving
<1>2. CASE PersistSnapshot
    <2>1. /\ up /\ saving.index > 0 /\ saving' = NoSnap
          /\ snap' = IF saving.index >= snap.index THEN saving ELSE snap
          /\ UNCHANGED <<log, commit, rows, row, first, up, applied, fed, fsmLast,
                         restoring, loaded, stops>>
        BY <1>2 DEF PersistSnapshot, Persisted
    <2>2. saving.index \in 0..MaxLog /\ snap.index \in 0..MaxLog /\ first \in Nat
        BY DEF TypeOK, Snapshot
    <2>3. TypeOK'
        BY <2>1 DEF TypeOK, Snapshot, NoSnap, Empty
    <2>4. DiskOK'
        BY <2>1, <2>2 DEF DiskOK, Faithful, Exact, Quiet, NoSnap
    <2>5. ServeOK'
        BY <2>1 DEF ServeOK, Serving, Exact, Quiet, NoSnap, TypeOK
    <2>6. RestoreOK'
        BY <2>1, <2>2 DEF RestoreOK, NoSnap
    <2>7. QED
        BY <2>1, <2>3, <2>4, <2>5, <2>6 DEF DownOK, SeedAccepted
<1>3. CASE CancelSnapshot
    <2>1. /\ up /\ saving' = NoSnap
          /\ UNCHANGED <<log, commit, rows, row, snap, first, up, applied, fed,
                         fsmLast, restoring, loaded, stops>>
        BY <1>3 DEF CancelSnapshot, disk
    <2>2. TypeOK'
        BY <2>1 DEF TypeOK, Snapshot, NoSnap, Empty
    <2>3. DiskOK'
        BY <2>1 DEF DiskOK, Faithful, Exact, Quiet, NoSnap
    <2>4. ServeOK'
        BY <2>1 DEF ServeOK, Serving, Exact, Quiet, NoSnap, TypeOK
    <2>5. RestoreOK'
        BY <2>1 DEF RestoreOK, NoSnap, TypeOK, Snapshot
    <2>6. QED
        BY <2>1, <2>2, <2>3, <2>4, <2>5 DEF DownOK, SeedAccepted
<1>4. CASE CompactLogs
    <2>1. /\ snap.index > 0 /\ first < snap.index + 1 - Trailing
          /\ first' = snap.index + 1 - Trailing
          /\ UNCHANGED <<log, commit, rows, row, snap, up, applied, fed, fsmLast,
                         saving, restoring, loaded, stops>>
        BY <1>4 DEF CompactLogs, Retained, memory
    <2>2. snap.index \in 0..MaxLog /\ first \in 1..MaxLog + 1
        BY DEF TypeOK, Snapshot
    <2>3. first' \in 1..MaxLog + 1 /\ first' <= snap.index + 1
        BY <2>1, <2>2
    <2>4. TypeOK'
        BY <2>1, <2>3 DEF TypeOK
    <2>5. DiskOK'
        BY <2>1, <2>3 DEF DiskOK, Faithful, Exact, Quiet
    <2>6. QED
        BY <2>1, <2>4, <2>5
           DEF ServeOK, Serving, RestoreOK, DownOK, SeedAccepted, Exact, Quiet
<1>5. QED
    BY <1>1, <1>2, <1>3, <1>4

\* A snapshot of another node arrives: it is faithful and newer than all here.
LEMMA InstallInv ==
    ASSUME IndInv, InstallSnapshot
    PROVE  IndInv'
<1> USE ReplicaAssumption DEF IndInv
<1>1. PICK s \in PeerSnapshots : s.index > fed /\ snap' = s /\ first' = s.index + 1
    BY DEF InstallSnapshot
<1>2. /\ up /\ restoring' = "wipe" /\ loaded' = 0
      /\ UNCHANGED <<log, commit, rows, row, up, applied, fed, fsmLast, saving, stops>>
    BY DEF InstallSnapshot, Serving
<1>3. /\ s \in Snapshot /\ s.index \in 1..MaxLog /\ s.row \in 1..MaxLog
      /\ s.rows = Exact(s.row) /\ Quiet(s.row, s.index)
    BY ExactType DEF PeerSnapshots, TypeOK, Snapshot
<1>4. saving.index <= fed /\ fed \in Nat /\ saving.index \in Nat
    BY DEF ServeOK, InstallSnapshot, TypeOK, Snapshot
<1>5. TypeOK'
    BY <1>1, <1>2, <1>3 DEF TypeOK
<1>6. DiskOK'
    BY <1>1, <1>2, <1>3 DEF DiskOK, Faithful, Exact, Quiet
<1>7. RestoreOK'
    BY <1>1, <1>2, <1>3, <1>4 DEF RestoreOK
<1>8. QED
    BY <1>2, <1>5, <1>6, <1>7 DEF ServeOK, Serving, DownOK, SeedAccepted

\* The three steps of Restore.
LEMMA RestoreInv ==
    ASSUME IndInv, RestoreNext
    PROVE  IndInv'
<1> USE ReplicaAssumption DEF IndInv
<1>0. /\ snap.index \in 0..MaxLog /\ snap.row \in 0..MaxLog /\ loaded \in 0..MaxLog
      /\ snap.rows \in [Indexes -> Nat] /\ saving.index \in 0..MaxLog
    BY DEF TypeOK, Snapshot
<1>1. up /\ restoring # "no" /\ snap.index > 0
    BY <1>0 DEF RestoreNext, RestoreWipe, RestoreBatch, RestoreDone, DiskOK
<1>2. CASE RestoreWipe
    <2>1. /\ rows' = Empty /\ row' = 0 /\ restoring' = "load" /\ loaded' = 0
          /\ UNCHANGED <<log, commit, snap, first, up, applied, fed, fsmLast, saving, stops>>
        BY <1>2 DEF RestoreWipe
    <2>2. TypeOK'
        BY <2>1 DEF TypeOK, Empty
    <2>3. rows' = [i \in Indexes |-> IF i <= loaded' THEN snap'.rows[i] ELSE 0]
        BY <2>1 DEF Empty, Indexes
    <2>4. RestoreOK'
        BY <1>0, <1>1, <2>1, <2>3 DEF RestoreOK
    <2>5. QED
        BY <1>1, <2>1, <2>2, <2>4
           DEF DiskOK, Faithful, ServeOK, Serving, DownOK, SeedAccepted, Exact, Quiet
<1>3. CASE RestoreBatch
    <2>1. PICK n \in loaded + 1 .. snap.row :
             /\ loaded' = n
             /\ rows' = [i \in Indexes |->
                           IF loaded < i /\ i <= n THEN snap.rows[i] ELSE rows[i]]
        BY <1>3 DEF RestoreBatch
    <2>2. /\ restoring = "load" /\ row' = snap.row
          /\ UNCHANGED <<log, commit, snap, first, up, applied, fed, fsmLast, saving,
                         restoring, stops>>
        BY <1>3 DEF RestoreBatch
    <2>3. /\ n \in 1..MaxLog /\ n <= snap.row /\ loaded < n
          /\ rows = [i \in Indexes |-> IF i <= loaded THEN snap.rows[i] ELSE 0]
        BY <1>0, <2>1, <2>2 DEF RestoreOK
    <2>4. rows' = [i \in Indexes |-> IF i <= n THEN snap.rows[i] ELSE 0]
        BY <1>0, <2>1, <2>3 DEF Indexes
    <2>5. TypeOK'
        BY <1>0, <2>1, <2>2, <2>3, <2>4 DEF TypeOK, Indexes
    <2>6. RestoreOK'
        BY <1>0, <1>1, <2>1, <2>2, <2>3, <2>4 DEF RestoreOK
    <2>7. QED
        BY <1>1, <2>2, <2>5, <2>6
           DEF DiskOK, Faithful, ServeOK, Serving, DownOK, SeedAccepted, Exact, Quiet
<1>4. CASE RestoreDone
    <2>1. /\ restoring = "load" /\ loaded = snap.row
          /\ applied' = Restored /\ fed' = snap.index /\ fsmLast' = snap.index
          /\ restoring' = "no"
          /\ UNCHANGED <<log, commit, rows, row, snap, first, up, saving, loaded, stops>>
        BY <1>4 DEF RestoreDone, disk
    <2>2. snap.row > 0 /\ snap.rows = Exact(snap.row) /\ Quiet(snap.row, snap.index)
        BY <1>1 DEF DiskOK, Faithful
    <2>3. row = snap.row /\ applied' = snap.row
        BY <2>1, <2>2, <1>0 DEF RestoreOK, Restored
    <2>4. rows = Exact(row)
        <3>1. rows = [i \in Indexes |-> IF i <= snap.row THEN Exact(snap.row)[i] ELSE 0]
            BY <2>1, <2>2 DEF RestoreOK
        <3>2. snap.row \in Nat
            BY <1>0
        <3>3. QED
            BY <3>1, <3>2, <2>3, AllLoaded
    <2>5. TypeOK'
        BY <1>0, <2>1, <2>3 DEF TypeOK
    <2>6. ServeOK'
        <3>1. saving.index <= snap.index
            BY <1>0, <1>1 DEF RestoreOK
        <3>2. QED
            BY <1>0, <2>1, <2>2, <2>3, <2>4, <3>1 DEF ServeOK, Exact, Quiet
    <2>7. QED
        BY <1>1, <2>1, <2>5, <2>6
           DEF DiskOK, Faithful, RestoreOK, DownOK, SeedAccepted, Exact, Quiet
<1>5. QED
    BY <1>2, <1>3, <1>4 DEF RestoreNext

\* A crash, a start, and an entry that the cluster commits.
LEMMA ProcessInv ==
    ASSUME IndInv, Stop \/ Open \/ Commit \/ UNCHANGED vars
    PROVE  IndInv'
<1> USE ReplicaAssumption DEF IndInv
<1>1. CASE Stop
    <2>1. /\ up' = FALSE /\ stops' \in 0..MaxStops /\ saving' = NoSnap
          /\ restoring' = "no" /\ loaded' = 0 /\ applied' = 0 /\ fed' = 0 /\ fsmLast' = 0
          /\ UNCHANGED <<log, commit, rows, row, snap, first>>
        BY <1>1 DEF Stop, disk, TypeOK
    <2>2. TypeOK'
        <3>1. NoSnap \in Snapshot
            BY DEF NoSnap, Empty, Snapshot
        <3>2. up' \in BOOLEAN
            BY <2>1, Zenon
        <3>3. /\ {applied', fed', fsmLast', loaded'} \subseteq 0..MaxLog
              /\ restoring' \in {"no", "wipe", "load"}
            BY <2>1
        <3>4. QED
            BY <2>1, <3>1, <3>2, <3>3 DEF TypeOK
    <2>3. DiskOK'
        BY <2>1 DEF DiskOK, Faithful, NoSnap, Exact, Quiet
    <2>4. QED
        BY <2>1, <2>2, <2>3 DEF ServeOK, Serving, RestoreOK, DownOK, SeedAccepted, NoSnap, Empty
<1>2. CASE Open
    <2>1. /\ ~up /\ up' = TRUE /\ applied' = row
          /\ restoring' = IF snap.index > 0 THEN "wipe" ELSE "no"
          /\ UNCHANGED <<log, commit, rows, row, snap, first, fed, fsmLast, saving, loaded, stops>>
        BY <1>2 DEF Open, RestorePhase, disk
    <2>2. /\ saving = NoSnap /\ fed = 0 /\ fsmLast = 0 /\ restoring = "no"
          /\ snap.index \in 0..MaxLog /\ loaded = 0
        BY <2>1 DEF DownOK, TypeOK, Snapshot
    <2>3. TypeOK'
        BY <2>1 DEF TypeOK
    <2>4. DiskOK'
        BY <2>1, <2>2 DEF DiskOK, Faithful, Exact, Quiet
    <2>5. ServeOK'
        BY <2>1, <2>2 DEF DiskOK, ServeOK, Serving, Exact, Quiet, NoSnap, Indexes
    <2>6. RestoreOK'
        BY <2>1, <2>2 DEF RestoreOK, NoSnap, TypeOK, Snapshot
    <2>7. QED
        BY <2>1, <2>3, <2>4, <2>5, <2>6 DEF DownOK, SeedAccepted
<1>3. CASE Commit
    <2>1. commit' \in 0..MaxLog
          /\ UNCHANGED <<log, rows, row, snap, first, up, applied, fed, fsmLast, saving,
                         restoring, loaded, stops>>
        BY <1>3 DEF Commit, disk, memory, TypeOK
    <2>2. QED
        BY <2>1 DEF TypeOK, DiskOK, Faithful, ServeOK, Serving, RestoreOK, DownOK,
                    SeedAccepted, Exact, Quiet
<1>4. CASE UNCHANGED vars
    BY <1>4 DEF vars, disk, memory, TypeOK, DiskOK, Faithful, ServeOK, Serving,
                RestoreOK, DownOK, SeedAccepted, Exact, Quiet
<1>5. QED
    BY <1>1, <1>2, <1>3, <1>4

\* Every step keeps the inductive invariant.
LEMMA StepInv == IndInv /\ [Next]_vars => IndInv'
BY ApplyInv, SnapshotInv, InstallInv, RestoreInv, ProcessInv DEF Next

\* The inductive invariant holds in every reachable state.
LEMMA Inductive == Spec => []IndInv
BY InitInv, StepInv, PTL DEF Spec

-----------------------------------------------------------------------------
(* Theorems                                                                *)

\* Disk and memory keep their types: no counter leaves the log, and a cut of
\* the log never passes the snapshot by more than the next entry.
THEOREM TypeCorrect == Spec => []TypeOK
BY Inductive, PTL DEF IndInv

\* Apply neither repeats nor skips a command, whatever replay, Restore and
\* crashes came before, in a log in which a command is accepted before any is
\* rejected (SeedAccepted).
THEOREM AppliedExactlyOnce == Spec => []ExactlyOnce
<1>1. IndInv => ExactlyOnce
    BY DEF IndInv, ServeOK, ExactlyOnce
<1>2. QED
    BY <1>1, Inductive, PTL

\* Snapshot, log cut and Restore never leave a disk from which Open could not
\* rebuild the keyspace.
THEOREM AlwaysRecoverable == Spec => []Recoverable
<1>1. IndInv => Recoverable
    <2> SUFFICES ASSUME IndInv PROVE Recoverable
        OBVIOUS
    <2>1. snap.index \in Nat /\ first \in 1..MaxLog + 1
        BY DEF IndInv, TypeOK, Snapshot
    <2>2. QED
        BY <2>1, ReplicaAssumption DEF IndInv, DiskOK, Faithful, Recoverable
<1>2. QED
    BY <1>1, Inductive, PTL
=============================================================================
