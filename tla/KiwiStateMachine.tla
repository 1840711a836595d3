-------------------------- MODULE KiwiStateMachine --------------------------
(***************************************************************************)
(* The Raft state machine of one node (raft/src/state_machine.rs): apply,  *)
(* snapshot build, snapshot install with its durable recovery markers, and *)
(* the restart path, with crashes (power loss) between any two steps.      *)
(*                                                                         *)
(* The Raft log itself is external: Log is the committed log every node    *)
(* agrees on, and a log id is named by its index (a committed index has    *)
(* one term).  An entry writes one key, changes the membership or is       *)
(* blank.  A key stands for everything one RocksDB instance holds, so its  *)
(* content is the index of the last entry written to it.                   *)
(*                                                                         *)
(* Durability.  Every durable object x has a companion xMay: the set of    *)
(* values that a power loss at this moment can leave on disk.  An          *)
(* operation without fsync adds its result to xMay, an fsync (of the file  *)
(* and of its directory) reduces xMay to the current value, and a crash    *)
(* picks any member.                                                       *)
(***************************************************************************)
EXTENDS Integers

CONSTANTS
    Keys,           \* one key per RocksDB instance
    Users,          \* storage-server tasks that execute commands
    LogLen,         \* length of the committed log
    Log,            \* what each entry writes
    Member, Blank,  \* the entries that write no key
    NoFile,         \* a snapshot file that does not exist
    Broken,         \* a database directory that is missing or incomplete
    MaxBuilds,      \* bound on the snapshots built in one process lifetime
    OrderedRenames  \* the file system makes renames durable in their order

ASSUME LogLenNat == LogLen \in Nat
ASSUME MaxBuildsNat == MaxBuilds \in Nat
ASSUME OrderedRenamesType == OrderedRenames \in BOOLEAN
ASSUME LogType == Log \in [1..LogLen -> Keys \union {Member, Blank}]
ASSUME MemberIsNoKey == Member \notin Keys /\ Blank \notin Keys /\ Member # Blank

Index == 0..LogLen

\* What a write that bypasses Raft leaves behind: it is in nobody's log.
Local == LogLen + 1

Content == [Keys -> 0..Local]

ASSUME BrokenIsNoContent == Broken \notin Content

SnapshotData == [idx : Index, data : Content]
SnapshotMeta == [id : Nat, idx : Index, mem : Index]

ASSUME NoFileIsNoSnapshot == NoFile \notin SnapshotData /\ NoFile \notin SnapshotMeta

VARIABLES
    (* durable *)
    db, dbMay,              \* content of db_path
    mark, markMay,          \* which install markers exist beside db_path
    current, currentMay,    \* current_snapshot.tar and current_snapshot_meta.json
    purged,                 \* the Raft log holds the entries after this index
    (* in memory *)
    status,                 \* "up", "down", "blocked" (startup refused)
    worker,                 \* the state machine worker: "idle", "dead" (an error
                            \* was returned to Raft), or the step of install_snapshot
    incoming,               \* the snapshot being installed
    lastApplied,            \* last_applied (0 when None)
    lastMembership,         \* last_membership, by the index of its entry
    slot,                   \* storage_swap: "open" or "placeholder"
    hook,                   \* append_log_fn of the Storage in the slot: "set", "unset"
    gate,                   \* the storage access gate: "open", "closing", "closed"
    user,                   \* what each command task does with its Storage
    stateGate,              \* owner of snapshot_state_gate
    publicationGate,        \* owner of snapshot_publication_gate
    builder,                \* the step of build_snapshot
    built,                  \* what the builder captured
    builderOwns,            \* the Storage the builder holds: "none", "live", "old"
    snapshotIdx,            \* snapshot_idx
    reported                \* the snapshot index Raft has been told of

dbVars       == <<db, dbMay>>
markVars     == <<mark, markMay>>
currentVars  == <<current, currentMay>>
appliedVars  == <<lastApplied, lastMembership>>
storageVars  == <<slot, hook>>
accessVars   == <<gate, user>>
gateVars     == <<stateGate, publicationGate>>
builderVars  == <<builder, built, builderOwns, snapshotIdx>>
raftVars     == <<purged, reported>>

vars == <<dbVars, markVars, currentVars, appliedVars, storageVars, accessVars,
          gateVars, builderVars, raftVars, status, worker, incoming>>

-----------------------------------------------------------------------------
(* What the log says *)

\* w is the last of the first n entries that writes k (0 when none does).
IsLastWrite(k, n, w) ==
    /\ w \in 0..n
    /\ w # 0 => Log[w] = k
    /\ \A i \in 1..n : Log[i] = k => i <= w

\* d holds every write of the first n entries, and what else it holds will be
\* written again by the entries after n: replaying the log from n is exact.
Covers(d, n) ==
    \A k \in Keys :
        \/ IsLastWrite(k, n, d[k])
        \/ d[k] \in (n + 1)..LogLen /\ Log[d[k]] = k

NoSnapshot == [tar |-> NoFile, meta |-> NoFile]

\* load_current_snapshot: Ok(None) unless both files exist.
LoadCurrent(c) ==
    IF c.tar = NoFile \/ c.meta = NoFile
    THEN [id |-> 0, idx |-> 0, mem |-> 0]
    ELSE c.meta

-----------------------------------------------------------------------------
Init ==
    /\ db = [k \in Keys |-> 0] /\ dbMay = {[k \in Keys |-> 0]}
    /\ mark = "none" /\ markMay = {"none"}
    /\ current = NoSnapshot /\ currentMay = {NoSnapshot}
    /\ purged = 0 /\ reported = 0
    /\ status = "down"
    /\ worker = "idle" /\ incoming = NoFile
    /\ lastApplied = 0 /\ lastMembership = 0
    /\ slot = "placeholder" /\ hook = "unset"
    /\ gate = "open" /\ user = [u \in Users |-> "idle"]
    /\ stateGate = "free" /\ publicationGate = "free"
    /\ builder = "idle" /\ built = NoFile /\ builderOwns = "none"
    /\ snapshotIdx = 0

\* Everything that lives in the process is gone.
ForgetMemory ==
    /\ worker' = "idle" /\ incoming' = NoFile
    /\ lastApplied' = 0 /\ lastMembership' = 0
    /\ slot' = "placeholder" /\ hook' = "unset"
    /\ gate' = "open" /\ user' = [u \in Users |-> "idle"]
    /\ stateGate' = "free" /\ publicationGate' = "free"
    /\ builder' = "idle" /\ built' = NoFile /\ builderOwns' = "none"
    /\ snapshotIdx' = 0
    /\ reported' = 0

\* Power loss: the disk keeps one of the states it may be in.
Crash ==
    /\ status = "up"
    /\ status' = "down"
    /\ db' \in dbMay /\ dbMay' = {db'}
    /\ mark' \in markMay /\ markMay' = {mark'}
    /\ current' \in currentMay /\ currentMay' = {current'}
    /\ ForgetMemory
    /\ UNCHANGED purged

\* preflight_snapshot_install refuses to start while either marker exists.
StartBlocked ==
    /\ status = "down"
    /\ mark # "none"
    /\ status' = "blocked"
    /\ UNCHANGED <<dbVars, markVars, currentVars, appliedVars, storageVars,
                   accessVars, gateVars, builderVars, raftVars, worker, incoming>>

\* Startup: preflight, Storage::open, create_raft_node (Raft reads
\* applied_state and get_current_snapshot), the append-log function is set,
\* and only then the gRPC and RESP servers accept work.
Start ==
    /\ status = "down"
    /\ mark = "none"
    /\ status' = "up"
    /\ slot' = "open"
    /\ hook' = "set"
    /\ lastApplied' = LoadCurrent(current).idx
    /\ lastMembership' = LoadCurrent(current).mem
    /\ reported' = LoadCurrent(current).idx
    /\ UNCHANGED <<dbVars, markVars, currentVars, accessVars, gateVars,
                   builderVars, purged, worker, incoming>>

\* The operator rejoins a blocked node with a new ID and clean directories.
Rejoin ==
    /\ status = "blocked"
    /\ status' = "down"
    /\ db' = [k \in Keys |-> 0] /\ dbMay' = {[k \in Keys |-> 0]}
    /\ mark' = "none" /\ markMay' = {"none"}
    /\ current' = NoSnapshot /\ currentMay' = {NoSnapshot}
    /\ purged' = 0
    /\ UNCHANGED <<appliedVars, storageVars, accessVars, gateVars, builderVars,
                   reported, worker, incoming>>

-----------------------------------------------------------------------------
(* RocksDB and the Raft log (external) *)

\* A memtable flush makes an instance's writes durable.
Flush(k) ==
    /\ status = "up"
    /\ slot = "open"
    /\ dbMay' = {[d EXCEPT ![k] = db[k]] : d \in dbMay}
    /\ UNCHANGED <<db, markVars, currentVars, appliedVars, storageVars, accessVars,
                   gateVars, builderVars, raftVars, status, worker, incoming>>

\* Raft purges its log up to a snapshot that it has been told of.
PurgeLog ==
    /\ status = "up"
    /\ worker # "dead"
    /\ purged < reported
    /\ purged' \in (purged + 1)..reported
    /\ UNCHANGED <<dbVars, markVars, currentVars, appliedVars, storageVars,
                   accessVars, gateVars, builderVars, reported, status, worker,
                   incoming>>

\* A RocksDB write without sync: durable sooner or later.
WriteKey(k, v) ==
    /\ db' = [db EXCEPT ![k] = v]
    /\ dbMay' = dbMay \union {[d EXCEPT ![k] = v] : d \in dbMay}

-----------------------------------------------------------------------------
(* apply *)

\* One entry, under the state gate: the mutation is written before
\* last_applied advances.
Apply ==
    LET i == lastApplied + 1 IN
    /\ status = "up"
    /\ worker = "idle"
    /\ stateGate = "free"
    /\ i \in 1..LogLen
    /\ IF Log[i] \in Keys THEN WriteKey(Log[i], i) ELSE UNCHANGED dbVars
    /\ lastMembership' = IF Log[i] = Member THEN i ELSE lastMembership
    /\ lastApplied' = i
    /\ UNCHANGED <<markVars, currentVars, storageVars, accessVars, gateVars,
                   builderVars, raftVars, status, worker, incoming>>

\* A storage error is returned before last_applied moves; Raft stops the
\* state machine worker on it.
ApplyFails ==
    /\ status = "up"
    /\ worker = "idle"
    /\ stateGate = "free"
    /\ lastApplied < LogLen
    /\ Log[lastApplied + 1] \in Keys
    /\ worker' = "dead"
    /\ UNCHANGED <<dbVars, markVars, currentVars, appliedVars, storageVars,
                   accessVars, gateVars, builderVars, raftVars, status, incoming>>

-----------------------------------------------------------------------------
(* Commands: a permit of the access gate covers the use of the Storage *)

UserStep(u, from, to) ==
    /\ status = "up"
    /\ user[u] = from
    /\ user' = [user EXCEPT ![u] = to]

Enter(u) ==
    /\ gate = "open"
    /\ UserStep(u, "idle", "running")
    /\ UNCHANGED <<dbVars, markVars, currentVars, appliedVars, storageVars, gate,
                   gateVars, builderVars, raftVars, status, worker, incoming>>

\* A write: the batch goes to Raft when the Storage has its append-log
\* function (the task then blocks until Raft answers), else straight to disk.
Write(u) ==
    /\ IF hook = "set"
       THEN UserStep(u, "running", "waiting") /\ UNCHANGED dbVars
       ELSE /\ UserStep(u, "running", "idle")
            /\ IF slot = "open" THEN \E k \in Keys : WriteKey(k, Local)
                                ELSE UNCHANGED dbVars
    /\ UNCHANGED <<markVars, currentVars, appliedVars, storageVars, gate,
                   gateVars, builderVars, raftVars, status, worker, incoming>>

\* Raft answers client_write (applied, or rejected after a step-down).
Answered(u) ==
    /\ UserStep(u, "waiting", "running")
    /\ UNCHANGED <<dbVars, markVars, currentVars, appliedVars, storageVars, gate,
                   gateVars, builderVars, raftVars, status, worker, incoming>>

Leave(u) ==
    /\ UserStep(u, "running", "idle")
    /\ UNCHANGED <<dbVars, markVars, currentVars, appliedVars, storageVars, gate,
                   gateVars, builderVars, raftVars, status, worker, incoming>>

-----------------------------------------------------------------------------
(* persist_current_snapshot, shared by build and install *)

\* Without an fsync between them POSIX lets either rename reach the disk
\* alone; a journaling file system keeps their order.
RenameTar(tar) ==
    /\ current' = [current EXCEPT !.tar = tar]
    /\ currentMay' = currentMay \union
           IF OrderedRenames THEN {current'}
                             ELSE {[c EXCEPT !.tar = tar] : c \in currentMay}

RenameMeta(meta) ==
    /\ current' = [current EXCEPT !.meta = meta]
    /\ currentMay' = currentMay \union
           IF OrderedRenames THEN {current'}
                             ELSE {[c EXCEPT !.meta = meta] : c \in currentMay}

SyncWorkDir ==
    /\ current' = current
    /\ currentMay' = {current}

-----------------------------------------------------------------------------
(* get_snapshot_builder and build_snapshot *)

\* The builder takes both gates and captures the applied state and the Storage.
GetSnapshotBuilder ==
    /\ status = "up"
    /\ worker = "idle"
    /\ builder = "idle"
    /\ stateGate = "free" /\ publicationGate = "free"
    /\ snapshotIdx < MaxBuilds
    /\ stateGate' = "builder" /\ publicationGate' = "builder"
    /\ snapshotIdx' = snapshotIdx + 1
    /\ built' = [meta |-> [id |-> snapshotIdx + 1, idx |-> lastApplied,
                           mem |-> lastMembership],
                 tar |-> NoFile]
    /\ builder' = "checkpoint"
    /\ builderOwns' = "live"
    /\ UNCHANGED <<dbVars, markVars, currentVars, appliedVars, storageVars,
                   accessVars, raftVars, status, worker, incoming>>

BuilderStep(from, to) ==
    /\ status = "up"
    /\ builder = from
    /\ builder' = to
    /\ UNCHANGED <<markVars, appliedVars, storageVars, accessVars, raftVars,
                   status, worker, incoming, builderOwns, snapshotIdx>>

\* A RocksDB checkpoint of every instance (it flushes the memtables first),
\* labelled with the captured last_applied; apply may go on afterwards.
CreateCheckpoint ==
    /\ BuilderStep("checkpoint", "tar")
    /\ built' = [built EXCEPT !.tar = [idx |-> built.meta.idx, data |-> db]]
    /\ dbMay' = {db} /\ db' = db
    /\ stateGate' = "free"
    /\ UNCHANGED <<currentVars, publicationGate>>

\* Mutant: the archive is labelled when it is published, not when it is taken.
BuildRenameTarRelabelled ==
    /\ BuilderStep("tar", "meta")
    /\ RenameTar([built.tar EXCEPT !.idx = lastApplied])
    /\ UNCHANGED <<dbVars, gateVars, built>>

BuildRenameTar ==
    /\ BuilderStep("tar", "meta")
    /\ RenameTar(built.tar)
    /\ UNCHANGED <<dbVars, gateVars, built>>

BuildRenameMeta ==
    /\ BuilderStep("meta", "sync")
    /\ RenameMeta(built.meta)
    /\ UNCHANGED <<dbVars, gateVars, built>>

\* Mutant: the publication gate is not released.
BuildSyncKeepsGate ==
    /\ BuilderStep("sync", "returned")
    /\ SyncWorkDir
    /\ UNCHANGED <<dbVars, gateVars, built>>

\* The last fsync; returning from build_snapshot frees the publication gate.
BuildSync ==
    /\ BuilderStep("sync", "returned")
    /\ SyncWorkDir
    /\ publicationGate' = "free"
    /\ UNCHANGED <<dbVars, stateGate, built>>

\* Any step of the build fails: both guards are dropped.
BuildFails ==
    /\ builder \in {"checkpoint", "tar", "meta", "sync"}
    /\ BuilderStep(builder, "failed")
    /\ stateGate' = IF stateGate = "builder" THEN "free" ELSE stateGate
    /\ publicationGate' = "free"
    /\ UNCHANGED <<dbVars, currentVars, built>>

\* Raft learns the result and drops the builder, and with it the Storage.
DropBuilder ==
    /\ status = "up"
    /\ builder \in {"returned", "failed"}
    /\ reported' = IF builder = "returned" /\ built.meta.idx > reported
                   THEN built.meta.idx ELSE reported
    /\ builder' = "idle" /\ built' = NoFile /\ builderOwns' = "none"
    /\ UNCHANGED <<dbVars, markVars, currentVars, appliedVars, storageVars,
                   accessVars, gateVars, snapshotIdx, purged, status, worker,
                   incoming>>

-----------------------------------------------------------------------------
(* install_snapshot *)

\* What a leader running this program can send: its published archive, with
\* metadata that a crash between two renames may have left behind.
OfferedTar == {t \in [idx : Index, data : [Keys -> Index]] : Covers(t.data, t.idx)}

OfferedMeta ==
    {m \in [id : 1..MaxBuilds, idx : Index, mem : Index] :
        IsLastWrite(Member, m.idx, m.mem)}

\* Mutant: the archive is not compared with its metadata.
ArchiveUnchecked(meta, tar) == TRUE

ArchiveMatches(meta, tar) == tar.idx = meta.idx

\* Unpack, compare the archive with its metadata, stage and validate a copy
\* beside db_path (fsync of the parent included).  Nothing live has changed.
\* Raft installs only snapshots that are ahead of what it has applied.
StageSnapshot(meta, tar) ==
    /\ status = "up"
    /\ worker = "idle"
    /\ meta.idx > lastApplied
    /\ ArchiveMatches(meta, tar)
    /\ incoming' = [meta |-> meta, tar |-> tar]
    /\ worker' = "publication"
    /\ markMay' = {mark}
    /\ UNCHANGED <<dbVars, mark, currentVars, appliedVars, storageVars, accessVars,
                   gateVars, builderVars, raftVars, status>>

\* A mismatch or a failed validation is an error before anything is touched.
RejectSnapshot ==
    /\ status = "up"
    /\ worker = "idle"
    /\ lastApplied < LogLen
    /\ worker' = "dead"
    /\ UNCHANGED <<dbVars, markVars, currentVars, appliedVars, storageVars,
                   accessVars, gateVars, builderVars, raftVars, status, incoming>>

InstallStep(from, to) ==
    /\ status = "up"
    /\ worker = from
    /\ worker' = to
    /\ UNCHANGED <<status, incoming, builder, built, snapshotIdx, purged>>

\* Mutant: the installation does not wait for a running build.
LockPublicationIgnored ==
    /\ InstallStep("publication", "pause")
    /\ publicationGate' = "install"
    /\ UNCHANGED <<dbVars, markVars, currentVars, appliedVars, storageVars,
                   accessVars, stateGate, builderOwns, reported>>

LockPublication ==
    /\ InstallStep("publication", "pause")
    /\ publicationGate = "free"
    /\ publicationGate' = "install"
    /\ UNCHANGED <<dbVars, markVars, currentVars, appliedVars, storageVars,
                   accessVars, stateGate, builderOwns, reported>>

\* request_pause, by the contract of the access gate (PauseGate)
RequestPause ==
    /\ InstallStep("pause", "drain")
    /\ gate' = "closing"
    /\ UNCHANGED <<dbVars, markVars, currentVars, appliedVars, storageVars,
                   user, gateVars, builderOwns, reported>>

Drained ==
    /\ InstallStep("drain", "state")
    /\ \A u \in Users : user[u] = "idle"
    /\ gate' = "closed"
    /\ UNCHANGED <<dbVars, markVars, currentVars, appliedVars, storageVars,
                   user, gateVars, builderOwns, reported>>

LockState ==
    /\ InstallStep("state", "marker")
    /\ stateGate = "free"
    /\ stateGate' = "install"
    /\ UNCHANGED <<dbVars, markVars, currentVars, appliedVars, storageVars,
                   accessVars, publicationGate, builderOwns, reported>>

\* Mutant: the marker is written without fsync.
PersistMarkerUnsynced ==
    /\ InstallStep("marker", "swap")
    /\ mark = "none"
    /\ mark' = "primary" /\ markMay' = markMay \union {"primary"}
    /\ UNCHANGED <<dbVars, currentVars, appliedVars, storageVars, accessVars,
                   gateVars, builderOwns, reported>>

\* persist_install_marker: refused when a cleanup marker exists, create_new,
\* fsync of file and parent.  The resume guard is disarmed.
PersistMarker ==
    /\ InstallStep("marker", "swap")
    /\ mark = "none"
    /\ mark' = "primary" /\ markMay' = {"primary"}
    /\ UNCHANGED <<dbVars, currentVars, appliedVars, storageVars, accessVars,
                   gateVars, builderOwns, reported>>

\* The marker could not be made durable: ResumeBeforeMarkerGuard reopens the
\* access gate over the untouched Storage; the file may or may not exist.
PersistMarkerFails ==
    /\ InstallStep("marker", "dead")
    /\ mark' \in {mark, "primary"} /\ markMay' = markMay \union {"primary"}
    /\ gate' = "open"
    /\ stateGate' = "free" /\ publicationGate' = "free"
    /\ UNCHANGED <<dbVars, currentVars, appliedVars, storageVars, user,
                   builderOwns, reported>>

\* The placeholder goes into the slot and the installer drops its own handle.
SwapPlaceholder ==
    /\ InstallStep("swap", "remove")
    /\ slot' = "placeholder" /\ hook' = "unset"
    /\ builderOwns' = IF builderOwns = "live" THEN "old" ELSE builderOwns
    /\ UNCHANGED <<dbVars, markVars, currentVars, appliedVars, accessVars,
                   gateVars, reported>>

\* PreparedCheckpointRestore::commit, first half: remove the target.
RemoveTarget ==
    /\ InstallStep("remove", "rename")
    /\ db' = Broken /\ dbMay' = dbMay \union {Broken}
    /\ UNCHANGED <<markVars, currentVars, appliedVars, storageVars, accessVars,
                   gateVars, builderOwns, reported>>

\* Second half: rename the staged copy into place, fsync it and its parent.
RenameStaged ==
    /\ InstallStep("rename", "open")
    /\ db' = incoming.tar.data /\ dbMay' = {incoming.tar.data}
    /\ UNCHANGED <<markVars, currentVars, appliedVars, storageVars, accessVars,
                   gateVars, builderOwns, reported>>

\* Mutant: the restored Storage is not re-armed.
OpenRestoredUnarmed ==
    /\ InstallStep("open", "tar")
    /\ slot' = "open" /\ hook' = "unset"
    /\ lastApplied' = incoming.meta.idx
    /\ lastMembership' = incoming.meta.mem
    /\ UNCHANGED <<dbVars, markVars, currentVars, accessVars, gateVars,
                   builderOwns, reported>>

\* Mutant: the applied state is read from the snapshot published before.
OpenRestoredStale ==
    /\ InstallStep("open", "tar")
    /\ slot' = "open" /\ hook' = "set"
    /\ lastApplied' = LoadCurrent(current).idx
    /\ lastMembership' = LoadCurrent(current).mem
    /\ UNCHANGED <<dbVars, markVars, currentVars, accessVars, gateVars,
                   builderOwns, reported>>

\* Open the restored Storage, re-arm its append-log function, put it into the
\* slot, rebuild the log-index trackers and take over the applied state.
OpenRestored ==
    /\ InstallStep("open", "tar")
    /\ slot' = "open" /\ hook' = "set"
    /\ lastApplied' = incoming.meta.idx
    /\ lastMembership' = incoming.meta.mem
    /\ UNCHANGED <<dbVars, markVars, currentVars, accessVars, gateVars,
                   builderOwns, reported>>

InstallRenameTar ==
    /\ InstallStep("tar", "meta")
    /\ RenameTar(incoming.tar)
    /\ UNCHANGED <<dbVars, markVars, appliedVars, storageVars, accessVars,
                   gateVars, builderOwns, reported>>

InstallRenameMeta ==
    /\ InstallStep("meta", "sync")
    /\ RenameMeta(incoming.meta)
    /\ UNCHANGED <<dbVars, markVars, appliedVars, storageVars, accessVars,
                   gateVars, builderOwns, reported>>

InstallSync ==
    /\ InstallStep("sync", "cleanup")
    /\ SyncWorkDir
    /\ UNCHANGED <<dbVars, markVars, appliedVars, storageVars, accessVars,
                   gateVars, builderOwns, reported>>

\* remove_install_marker: a durable cleanup marker first, ...
CreateCleanupMarker ==
    /\ InstallStep("cleanup", "removePrimary")
    /\ mark' = "both" /\ markMay' = {"both"}
    /\ UNCHANGED <<dbVars, currentVars, appliedVars, storageVars, accessVars,
                   gateVars, builderOwns, reported>>

\* ... then the primary marker goes, ...
RemovePrimaryMarker ==
    /\ InstallStep("removePrimary", "syncPrimary")
    /\ mark' = "cleanup" /\ markMay' = {"both", "cleanup"}
    /\ UNCHANGED <<dbVars, currentVars, appliedVars, storageVars, accessVars,
                   gateVars, builderOwns, reported>>

SyncPrimaryRemoval ==
    /\ InstallStep("syncPrimary", "removeCleanup")
    /\ markMay' = {mark}
    /\ UNCHANGED <<dbVars, mark, currentVars, appliedVars, storageVars, accessVars,
                   gateVars, builderOwns, reported>>

\* ... then the cleanup marker, ...
RemoveCleanupMarker ==
    /\ InstallStep("removeCleanup", "resume")
    /\ mark' = "none" /\ markMay' = {"cleanup", "none"}
    /\ UNCHANGED <<dbVars, currentVars, appliedVars, storageVars, accessVars,
                   gateVars, builderOwns, reported>>

\* ... whose fsync may fail with a warning only; then resume() and return.
FinishInstall ==
    /\ InstallStep("resume", "idle")
    /\ markMay' \in {markMay, {mark}}
    /\ gate' = "open"
    /\ stateGate' = "free" /\ publicationGate' = "free"
    /\ reported' = incoming.meta.idx
    /\ UNCHANGED <<dbVars, mark, currentVars, appliedVars, storageVars, user,
                   builderOwns>>

\* A step after the durable marker fails, with or without its effect on disk.
\* The guards of the two gates are dropped, the access gate stays closed.
InstallFails ==
    /\ worker \in {"remove", "rename", "open", "tar", "meta", "sync", "cleanup",
                   "removePrimary", "syncPrimary", "removeCleanup"}
    /\ InstallStep(worker, "dead")
    /\ \/ UNCHANGED <<dbVars, markVars, storageVars>>
       \/ /\ worker = "remove"
          /\ db' = Broken /\ dbMay' = dbMay \union {Broken}
          /\ UNCHANGED <<markVars, storageVars>>
       \/ /\ worker = "rename"
          /\ db' = incoming.tar.data /\ dbMay' = dbMay \union {incoming.tar.data}
          /\ UNCHANGED <<markVars, storageVars>>
       \/ /\ worker = "open"
          /\ slot' = "open" /\ hook' = "set"
          /\ UNCHANGED <<dbVars, markVars>>
       \/ /\ worker = "cleanup"
          /\ mark' = "both" /\ markMay' = {"primary", "both"}
          /\ UNCHANGED <<dbVars, storageVars>>
    /\ stateGate' = "free" /\ publicationGate' = "free"
    /\ UNCHANGED <<currentVars, appliedVars, accessVars, builderOwns, reported>>

-----------------------------------------------------------------------------
EnvironmentStep ==
    \/ Crash \/ StartBlocked \/ Start \/ Rejoin
    \/ \E k \in Keys : Flush(k)
    \/ PurgeLog

CommandStep(u) == Enter(u) \/ Write(u) \/ Answered(u) \/ Leave(u)

BuildStep ==
    \/ CreateCheckpoint \/ BuildRenameTar \/ BuildRenameMeta \/ BuildSync
    \/ DropBuilder

InstallProgress ==
    \/ LockPublication \/ RequestPause \/ Drained \/ LockState
    \/ PersistMarker \/ SwapPlaceholder \/ RemoveTarget \/ RenameStaged
    \/ OpenRestored \/ InstallRenameTar \/ InstallRenameMeta \/ InstallSync
    \/ CreateCleanupMarker \/ RemovePrimaryMarker \/ SyncPrimaryRemoval
    \/ RemoveCleanupMarker \/ FinishInstall

Next ==
    \/ EnvironmentStep
    \/ Apply \/ ApplyFails
    \/ \E u \in Users : CommandStep(u)
    \/ GetSnapshotBuilder \/ BuildStep \/ BuildFails
    \/ \E m \in OfferedMeta, t \in OfferedTar : StageSnapshot(m, t)
    \/ RejectSnapshot
    \/ InstallProgress \/ PersistMarkerFails \/ InstallFails

Spec == Init /\ [][Next]_vars

\* The Tokio tasks of an installation, a build and a command keep running.
\* Nothing is assumed about when Raft answers a client_write.
FairSpec ==
    /\ Spec
    /\ WF_vars(InstallProgress)
    /\ WF_vars(BuildStep)
    /\ \A u \in Users : WF_vars(Write(u) \/ Leave(u))

-----------------------------------------------------------------------------
TypeOK ==
    /\ db \in Content \union {Broken}
    /\ dbMay \subseteq Content \union {Broken}
    /\ mark \in {"none", "primary", "both", "cleanup"}
    /\ markMay \subseteq {"none", "primary", "both", "cleanup"}
    /\ current.tar \in SnapshotData \union {NoFile}
    /\ current.meta \in SnapshotMeta \union {NoFile}
    /\ purged \in Index /\ reported \in Index
    /\ status \in {"up", "down", "blocked"}
    /\ lastApplied \in Index /\ lastMembership \in Index
    /\ slot \in {"open", "placeholder"} /\ hook \in {"set", "unset"}
    /\ gate \in {"open", "closing", "closed"}
    /\ user \in [Users -> {"idle", "running", "waiting"}]
    /\ stateGate \in {"free", "builder", "install"}
    /\ publicationGate \in {"free", "builder", "install"}
    /\ builderOwns \in {"none", "live", "old"}
    /\ snapshotIdx \in 0..MaxBuilds

\* A command never runs on the placeholder, on a half-restored database or on
\* a Storage whose writes would bypass Raft: the access gate is open, and a
\* task holds a permit, only over the complete, re-armed live Storage.
CommandsSeeLiveStorage ==
    (status = "up" /\ (gate = "open" \/ \E u \in Users : user[u] # "idle"))
        => slot = "open" /\ hook = "set" /\ db # Broken

\* The opened database holds every write of the entries up to last_applied,
\* and beyond them only writes that the log will repeat: no entry is skipped
\* or lost by apply, install, crash and replay in any order.  The membership
\* is the one of the last membership entry applied.
ReplicaMatchesLog ==
    (status = "up" /\ slot = "open")
        => /\ db # Broken
           /\ Covers(db, lastApplied)
           /\ IsLastWrite(Member, lastApplied, lastMembership)

\* Whatever a power loss leaves on disk: if no marker blocks the restart, the
\* database is whole, covers the persisted snapshot that last_applied is
\* recovered from, and the Raft log still holds every entry after it.
RestartIsSafe ==
    "none" \in markMay =>
        \A d \in dbMay, c \in currentMay :
            /\ d # Broken
            /\ Covers(d, LoadCurrent(c).idx)
            /\ IsLastWrite(Member, LoadCurrent(c).idx, LoadCurrent(c).mem)
            /\ purged <= LoadCurrent(c).idx

\* The archive offered to followers is the state at its index, up to writes
\* that the entries after it repeat, although apply goes on during the build.
ArchiveIsReplayable ==
    current.tar # NoFile => Covers(current.tar.data, current.tar.idx)

\* The snapshot that Raft has been told of, and may purge its log up to, can
\* be read back: no later publication, failure or concurrent build replaces
\* it by an older one.
ReportedIsReadable ==
    status = "up" => reported <= LoadCurrent(current).idx

\* last_applied never moves backwards while the process runs.
AppliedNeverRegresses ==
    [][(status = "up" /\ status' = "up") => lastApplied' >= lastApplied]_vars

\* An installation that has begun ends (it completes, fails or the node goes
\* down), unless a command keeps its permit because Raft has not answered its
\* client_write: append_log has no timeout, and nothing else can block.
InstallEnds ==
    worker = "publication" ~>
        \/ worker \in {"idle", "dead"}
        \/ status # "up"
        \/ worker = "drain" /\ \E u \in Users : user[u] = "waiting"
=============================================================================
