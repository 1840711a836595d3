-------------------------- MODULE RocksdbLogStore --------------------------
(***************************************************************************)
(* The Raft log store of one node, called by OpenRaft.                     *)
(*                                                                         *)
(* A RocksDB database of its own holds the entries (by index), the last    *)
(* purged log id, the vote and the committed log id.  Every operation is   *)
(* one write, without a sync: a process that ends loses nothing, a power   *)
(* loss may take the database back to any state since the last write-back. *)
(*                                                                         *)
(* OpenRaft's calls are external: it appends after its last entry, cuts    *)
(* the log above what is committed, purges what a snapshot covers, and at  *)
(* a start reads everything back.  An index of 0 stands for no log id; the *)
(* leader of a log id stands for OpenRaft's (term, node id), which like    *)
(* votes are totally ordered.                                              *)
(***************************************************************************)
EXTENDS Integers, Sequences

CONSTANTS
    MaxIndex,       \* bound on log indexes
    MaxLeader,      \* bound on leaders and votes
    MayLosePower    \* may unsynced writes be lost?

ASSUME LogStoreAssumption ==
    /\ MaxIndex \in Nat
    /\ MaxLeader \in Nat
    /\ MayLosePower \in BOOLEAN

VARIABLES
    db,         \* the database: logs, purged, vote and committed
    disk,       \* what of it a power loss leaves
    raft,       \* what OpenRaft holds in memory
    applied     \* the applied log id of the state machine, kept elsewhere

vars == <<db, disk, raft, applied>>

Leaders == 1..MaxLeader

LogIds == [index : 0..MaxIndex, leader : 0..MaxLeader]

LogId(i, l) == [index |-> i, leader |-> l]

NoLogId == LogId(0, 0)

\* Log ids are ordered by leader first.
Before(a, b) == a.leader < b.leader \/ (a.leader = b.leader /\ a.index < b.index)

Later(a, b) == IF Before(a, b) THEN b ELSE a

-----------------------------------------------------------------------------
(* Reading. *)

\* The log ids of the entries in the range, which the iterator visits in order.
do_try_get_log_entries(s, from, to) ==
    {LogId(i, s.logs[i]) : i \in {j \in DOMAIN s.logs : from <= j /\ j < to}}

last_log_idOfEntries(s) ==
    IF DOMAIN s.logs = {} THEN NoLogId
    ELSE LET i == CHOOSE top \in DOMAIN s.logs : \A j \in DOMAIN s.logs : j <= top
         IN  LogId(i, s.logs[i])
last_log_id(s) ==
    IF DOMAIN s.logs = {} THEN s.purged
    ELSE LET i == CHOOSE top \in DOMAIN s.logs : \A j \in DOMAIN s.logs : j <= top
         IN  LogId(i, s.logs[i])

-----------------------------------------------------------------------------
(* Writing: the new contents of the database. *)

do_appendUnderVote(s, first, leader, n) ==
    LET new == first..(first + n - 1)
        by == [i \in new |-> IF i = first + n - 1 THEN leader ELSE s.vote]
    IN  [s EXCEPT !.logs = [i \in DOMAIN @ \cup new |-> IF i \in new THEN by[i] ELSE @[i]]]
do_append(s, first, leader, n) ==
    LET new == first..(first + n - 1)
    IN  [s EXCEPT !.logs = [i \in DOMAIN @ \cup new |-> IF i \in new THEN leader ELSE @[i]]]

\* delete_range is open at its end; the truncation deletes the last key too.
DeleteRange(f, from, to) == [i \in {j \in DOMAIN f : ~(from <= j /\ j < to)} |-> f[i]]

do_truncate(s, i) == [s EXCEPT !.logs = DeleteRange(@, i, MaxIndex + 1)]

do_purgeKeepsLast(s, id) == [s EXCEPT !.logs = DeleteRange(@, 0, id.index), !.purged = id]
do_purgeUncommits(s, id) ==
    [s EXCEPT !.logs = DeleteRange(@, 0, id.index + 1), !.purged = id, !.committed = NoLogId]
do_purge(s, id) == [s EXCEPT !.logs = DeleteRange(@, 0, id.index + 1), !.purged = id]

do_save_vote(s, v) == [s EXCEPT !.vote = v]

do_save_committed(s, id) == [s EXCEPT !.committed = id]

\* OpenRaft when it does not run: its memory is gone.
Off(pc) == [pc |-> pc, snap |-> NoLogId, vote |-> 0, committed |-> NoLogId,
            last |-> NoLogId, purged |-> NoLogId]

\* A write succeeds, or it fails and OpenRaft stops; what a failed write left
\* in the database shows after the restart.
Write(new, memory) ==
    /\ \/ db' = new /\ raft' = memory
       \/ db' \in {db, new} /\ raft' = Off("stopped")
    /\ UNCHANGED disk

-----------------------------------------------------------------------------
(* OpenRaft's calls. *)

\* OpenRaft knows the log ids of its log; at its beginning is the purged one.
LogIdAt(i) == IF i \in DOMAIN db.logs THEN LogId(i, db.logs[i]) ELSE raft.purged

append(leader, n) ==
    LET first == raft.last.index + 1
        new == first + n - 1
    IN  /\ raft.pc = "running"
        /\ leader \in raft.last.leader..raft.vote
        /\ new <= MaxIndex
        /\ Write(do_append(db, first, leader, n), [raft EXCEPT !.last = LogId(new, leader)])
        /\ UNCHANGED applied

\* Entries from i on conflict with those of the leader.
truncate(i) ==
    /\ raft.pc = "running"
    /\ i \in (raft.committed.index + 1)..raft.last.index
    /\ Write(do_truncate(db, i), [raft EXCEPT !.last = LogIdAt(i - 1)])
    /\ UNCHANGED applied

\* A vote is saved before it is granted.
save_vote(v) ==
    /\ raft.pc = "running"
    /\ v > raft.vote
    /\ Write(do_save_vote(db, v), [raft EXCEPT !.vote = v])
    /\ UNCHANGED applied

save_committed(i) ==
    /\ raft.pc = "running"
    /\ i \in (raft.committed.index + 1)..raft.last.index
    /\ Write(do_save_committed(db, LogIdAt(i)), [raft EXCEPT !.committed = LogIdAt(i)])
    /\ UNCHANGED applied

apply(i) ==
    /\ raft.pc = "running"
    /\ i \in (applied.index + 1)..raft.committed.index
    /\ i \in DOMAIN db.logs
    /\ applied' = LogIdAt(i)
    /\ UNCHANGED <<db, disk, raft>>

\* After a snapshot was built: it covers what is applied.
purge(i) ==
    /\ raft.pc = "running"
    /\ i \in (raft.purged.index + 1)..applied.index
    /\ i \in DOMAIN db.logs
    /\ Write(do_purge(db, LogIdAt(i)), [raft EXCEPT !.purged = LogIdAt(i)])
    /\ UNCHANGED applied

\* A snapshot of the leader, ahead of what is committed here: it ends with an
\* entry of this log, or with one of a leader not older than the log's last.  A
\* conflicting entry at its index has the uncommitted part of the log cut off.
install_snapshot(id) ==
    /\ raft.pc = "running"
    /\ id.index > raft.committed.index
    /\ id.leader \in Leaders
    /\ id.leader \in raft.committed.leader..raft.vote
    /\ \/ id.leader >= raft.last.leader
       \/ id.index <= raft.last.index /\ id = LogIdAt(id.index)
    /\ LET conflict == id.index <= raft.last.index /\ id # LogIdAt(id.index)
           memory == [raft EXCEPT !.pc = "install", !.snap = id]
       IN  IF conflict
           THEN Write(do_truncate(db, raft.committed.index + 1),
                      [memory EXCEPT !.last = LogIdAt(raft.committed.index)])
           ELSE raft' = memory /\ UNCHANGED <<db, disk>>
    /\ UNCHANGED applied

\* The state machine has installed it.
snapshot_installed ==
    /\ raft.pc = "install"
    /\ applied' = raft.snap
    /\ raft' = [raft EXCEPT !.pc = "purge", !.committed = raft.snap]
    /\ UNCHANGED <<db, disk>>

snapshot_purge ==
    LET id == raft.snap
    IN  /\ raft.pc = "purge"
        /\ Write(do_purge(db, id),
                 [raft EXCEPT !.pc = "running", !.purged = id, !.snap = NoLogId,
                              !.last = IF @.index < id.index THEN id ELSE @])
        /\ UNCHANGED applied

-----------------------------------------------------------------------------
(* Restarts. *)

WriteBack ==
    /\ MayLosePower
    /\ raft.pc # "lost"
    /\ disk # db
    /\ disk' = db
    /\ UNCHANGED <<db, raft, applied>>

\* What OpenRaft makes of what is left is not modelled.
PowerLoss ==
    /\ MayLosePower
    /\ raft.pc # "lost"
    /\ db' = disk
    /\ raft' = Off("lost")
    /\ UNCHANGED <<disk, applied>>

ProcessExit ==
    /\ raft.pc \notin {"stopped", "lost"}
    /\ raft' = Off("stopped")
    /\ UNCHANGED <<db, disk, applied>>

\* OpenRaft reads everything back.  A log that ends before what the state
\* machine has applied is purged up to there.
Restart ==
    LET last == last_log_id(db)
        behind == Before(last, applied)
        memory == [pc |-> "running", snap |-> NoLogId, vote |-> db.vote,
                   committed |-> Later(db.committed, applied),
                   last |-> IF behind THEN applied ELSE last,
                   purged |-> IF behind THEN applied ELSE db.purged]
    IN  /\ raft.pc = "stopped"
        /\ IF behind THEN Write(do_purge(db, applied), memory)
           ELSE raft' = memory /\ UNCHANGED <<db, disk>>
        /\ UNCHANGED applied

-----------------------------------------------------------------------------

EmptyDb == [logs |-> <<>>, purged |-> NoLogId, vote |-> 0, committed |-> NoLogId]

Init ==
    /\ db = EmptyDb
    /\ disk = EmptyDb
    /\ raft = Off("stopped")
    /\ applied = NoLogId

Next ==
    \/ \E leader \in Leaders, n \in 1..2 : append(leader, n)
    \/ \E i \in 1..MaxIndex : truncate(i)
    \/ \E v \in Leaders : save_vote(v)
    \/ \E i \in 1..MaxIndex : save_committed(i) \/ apply(i) \/ purge(i)
    \/ \E id \in LogIds : install_snapshot(id)
    \/ snapshot_installed
    \/ snapshot_purge
    \/ WriteBack
    \/ PowerLoss
    \/ ProcessExit
    \/ Restart

Spec == Init /\ [][Next]_vars

-----------------------------------------------------------------------------
(* Properties. *)

Databases(logIds) ==
    [logs : UNION {[S -> Leaders] : S \in SUBSET (1..MaxIndex)},
     purged : logIds, vote : 0..MaxLeader, committed : logIds]

\* Every variable has the type its declaration states.
TypeOK ==
    /\ db \in Databases(LogIds)
    /\ disk \in Databases(LogIds)
    /\ raft \in [pc : {"stopped", "running", "install", "purge", "lost"}, snap : LogIds,
                 vote : 0..MaxLeader, committed : LogIds, last : LogIds, purged : LogIds]
    /\ applied \in LogIds

\* The stored entries have no gap and start right after the last purged one, at
\* any time and after any power loss: do_purge deletes the entries and records
\* the log id in one write, do_truncate and do_append only touch the end.
LogIsContiguous ==
    \E end \in db.purged.index..MaxIndex : DOMAIN db.logs = (db.purged.index + 1)..end

\* What OpenRaft holds in memory is what a restart would read back with
\* get_log_state, read_vote and try_get_log_entries: no acknowledged write is
\* missing, and nothing that was cut off comes back.
MemoryIsStored ==
    raft.pc = "running" =>
        /\ raft.last = last_log_id(db)
        /\ raft.purged = db.purged
        /\ raft.vote = db.vote
        /\ {id.index : id \in do_try_get_log_entries(db, 0, raft.last.index + 1)}
             = (raft.purged.index + 1)..raft.last.index

\* Along the log leaders only get later, from the purged log id on: the order in
\* which Raft compares logs is the order of their last entries.
LeadersAreOrdered ==
    \A i \in DOMAIN db.logs :
        /\ db.logs[i] >= db.purged.leader
        /\ i + 1 \in DOMAIN db.logs => db.logs[i] <= db.logs[i + 1]

MaxOf(a, b) == IF a < b THEN b ELSE a

Contract == INSTANCE RaftLog WITH
    base <- db.purged.index,
    entries <- [n \in 1..(last_log_id(db).index - db.purged.index)
                    |-> db.logs[db.purged.index + n]],
    floor <- MaxOf(db.committed.index, db.purged.index),
    ballot <- db.vote,
    intact <- raft.pc # "lost"

\* The database is a log as OpenRaft requires it: keys in a column family and
\* ranges of deleted keys implement a sequence cut at its ends, and no restart
\* or failed write takes back an entry, the committed position or a vote; only
\* a power loss may.
ImplementsRaftLog == Contract!LogSpec

=============================================================================
