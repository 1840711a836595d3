----------------------- MODULE RocksdbLogStoreProofs ------------------------
(***************************************************************************)
(* The log store is right for logs of any length and any number of         *)
(* leaders: the inductive invariant, what each operation does to a         *)
(* database whose entries have no gap, and the theorems.                   *)
(*                                                                         *)
(* The log has no gap because OpenRaft appends at what it believes is the  *)
(* end, so the invariant says that its memory agrees with the database.    *)
(* That agreement must survive a restart in which the log is behind the    *)
(* state machine, so the invariant also places the applied and the         *)
(* committed log id in the order of the stored entries.                    *)
(***************************************************************************)
EXTENDS RocksdbLogStore, TLAPS

\* The entries are those from the purged log id, exclusive, to index n.
Spans(s, n) ==
    /\ n \in s.purged.index..MaxIndex
    /\ DOMAIN s.logs = (s.purged.index + 1)..n

\* The leaders of the entries grow, from that of the purged log id on.
Ordered(s) ==
    \A i, j \in DOMAIN s.logs :
        s.purged.leader <= s.logs[i] /\ (i <= j => s.logs[i] <= s.logs[j])

WellFormed(s) == (\E n \in Nat : Spans(s, n)) /\ Ordered(s)

\* Two log ids of one history: the later one has the later leader, and there
\* is one for each index.
Comparable(a, b) ==
    /\ a.index <= b.index => a.leader <= b.leader
    /\ a.index >= b.index => a.leader >= b.leader

\* A log id that has its place in the order of the entries.
Fits(s, id) ==
    /\ Comparable(s.purged, id)
    /\ \A i \in DOMAIN s.logs : /\ i <= id.index => s.logs[i] <= id.leader
                                /\ i >= id.index => s.logs[i] >= id.leader

UpTo(a, b) == a.index <= b.index /\ a.leader <= b.leader

\* OpenRaft can start from this database and this state machine.
Recoverable(s, id) ==
    /\ Fits(s, id)
    /\ Fits(s, s.committed)
    /\ UpTo(s.purged, id)
    /\ UpTo(s.committed, last_log_id(s))
    /\ Comparable(s.committed, id)

\* Memory m agrees with database s and the applied log id.
Agrees(s, m, id) ==
    m.pc \in {"running", "install", "purge"} =>
        /\ m.last = last_log_id(s)
        /\ m.purged = s.purged
        /\ m.vote = s.vote
        /\ Fits(s, m.committed)
        /\ UpTo(id, m.committed)
        /\ UpTo(s.committed, m.committed)
        /\ m.pc # "purge" => UpTo(m.committed, m.last)
        /\ m.pc = "install" => /\ Fits(s, m.snap)
                               /\ UpTo(m.committed, m.snap)
                               /\ m.committed.index < m.snap.index
        /\ m.pc = "purge" => m.snap = id /\ m.committed = id

Memories ==
    [pc : {"stopped", "running", "install", "purge", "lost"}, snap : LogIds,
     vote : 0..MaxLeader, committed : LogIds, last : LogIds, purged : LogIds]

IInv ==
    /\ TypeOK
    /\ WellFormed(db)
    /\ WellFormed(disk)
    /\ raft.pc # "lost" => Recoverable(db, applied)
    /\ Agrees(db, raft, applied)

-----------------------------------------------------------------------------
(* The databases that the operations make. *)

Fields(s) ==
    /\ DOMAIN s.logs \subseteq 1..MaxIndex
    /\ \A i \in DOMAIN s.logs : s.logs[i] \in Leaders
    /\ \A i \in DOMAIN s.logs : i \in Nat /\ s.logs[i] \in Nat
    /\ s.purged \in LogIds /\ s.committed \in LogIds /\ s.vote \in 0..MaxLeader
    /\ s.purged.index \in Nat /\ s.purged.leader \in Nat
    /\ s.committed.index \in Nat /\ s.committed.leader \in Nat

\* What the type of a database says of its fields.
LEMMA StoreFields ==
    ASSUME NEW s \in Databases(LogIds)
    PROVE  Fields(s)
<1>1. PICK S \in SUBSET (1..MaxIndex) : s.logs \in [S -> Leaders]
  BY Zenon DEF Databases
<1>2. DOMAIN s.logs = S
  BY <1>1, Zenon
<1>3. s.purged \in LogIds /\ s.committed \in LogIds /\ s.vote \in 0..MaxLeader
  BY Zenon DEF Databases
<1>4. \A id \in LogIds : id.index \in Nat /\ id.leader \in Nat
  BY LogStoreAssumption DEF LogIds
<1>5. \A i \in S : s.logs[i] \in Leaders
  BY <1>1, Zenon
<1>7. \A i \in S : i \in Nat
  OBVIOUS
<1>6. \A l \in Leaders : l \in Nat
  BY LogStoreAssumption DEF Leaders
<1> QED
  BY <1>2, <1>3, <1>4, <1>5, <1>6, <1>7, Zenon DEF Fields

\* Replacing the entries leaves the other fields.
LEMMA WithLogs ==
    ASSUME NEW s \in Databases(LogIds), NEW S \in SUBSET (1..MaxIndex), NEW f \in [S -> Leaders]
    PROVE  /\ [s EXCEPT !.logs = f] \in Databases(LogIds)
           /\ [s EXCEPT !.logs = f].logs = f
           /\ [s EXCEPT !.logs = f].purged = s.purged
           /\ [s EXCEPT !.logs = f].vote = s.vote
           /\ [s EXCEPT !.logs = f].committed = s.committed
BY Zenon DEF Databases

\* The last log id is that of the last entry, or the purged one.
LEMMA LastLogId ==
    ASSUME NEW s \in Databases(LogIds), NEW n \in Nat, Spans(s, n)
    PROVE  /\ last_log_id(s) = IF n = s.purged.index THEN s.purged ELSE LogId(n, s.logs[n])
           /\ last_log_id(s) \in LogIds
           /\ last_log_id(s).index = n
<1> USE LogStoreAssumption
<1>0. Fields(s)
  BY StoreFields, Zenon
<1>1. CASE n = s.purged.index
  <2>1. DOMAIN s.logs = {}
    BY <1>1, <1>0 DEF Fields, Spans
  <2> QED
    BY <1>1, <2>1, <1>0, Zenon DEF Fields, last_log_id
<1>2. CASE n # s.purged.index
  <2>1. n \in DOMAIN s.logs /\ \A j \in DOMAIN s.logs : j <= n
    BY <1>2, <1>0 DEF Fields, Spans
  <2>2. \A m \in DOMAIN s.logs : (\A j \in DOMAIN s.logs : j <= m) => m = n
    BY <2>1, <1>0 DEF Fields
  <2>3. (CHOOSE top \in DOMAIN s.logs : \A j \in DOMAIN s.logs : j <= top) = n
    BY <2>1, <2>2, Zenon
  <2>4. last_log_id(s) = LogId(n, s.logs[n])
    BY <2>1, <2>3, Zenon DEF last_log_id
  <2>5. n \in 0..MaxIndex /\ s.logs[n] \in 0..MaxLeader
    BY <2>1, <1>0 DEF Fields, Leaders
  <2> QED
    BY <1>2, <2>4, <2>5 DEF LogId, LogIds
<1> QED
  BY <1>1, <1>2, Zenon

\* do_append at the end of the log extends it.
LEMMA AppendSpans ==
    ASSUME NEW s \in Databases(LogIds), NEW n \in Nat, Spans(s, n),
           NEW leader \in Leaders, NEW k \in 1..2, n + k <= MaxIndex
    PROVE  LET t == do_append(s, n + 1, leader, k)
           IN  /\ t \in Databases(LogIds)
               /\ Spans(t, n + k)
               /\ t.purged = s.purged /\ t.vote = s.vote /\ t.committed = s.committed
               /\ \A i \in DOMAIN s.logs : t.logs[i] = s.logs[i]
               /\ \A i \in (n + 1)..(n + k) : t.logs[i] = leader
<1> DEFINE new == (n + 1)..(n + 1 + k - 1)
           S == DOMAIN s.logs \cup new
           f == [i \in S |-> IF i \in new THEN leader ELSE s.logs[i]]
<1> USE LogStoreAssumption
<1>0. Fields(s)
  BY StoreFields, Zenon
<1>1. S \in SUBSET (1..MaxIndex)
  BY <1>0 DEF Fields
<1>2. f \in [S -> Leaders]
  BY <1>0, Zenon DEF Fields
<1>3. do_append(s, n + 1, leader, k) = [s EXCEPT !.logs = f]
  BY Zenon DEF do_append
<1>4. S = (s.purged.index + 1)..(n + k)
  BY <1>0, SMTT(60) DEF Fields, Spans
<1>5. n + k \in s.purged.index..MaxIndex
  BY <1>0 DEF Fields, Spans
<1>6. \A i \in DOMAIN s.logs : i \notin new
  BY <1>0 DEF Fields, Spans
<1> HIDE DEF f
<1>7. [s EXCEPT !.logs = f] \in Databases(LogIds)
      /\ [s EXCEPT !.logs = f].logs = f
      /\ [s EXCEPT !.logs = f].purged = s.purged
      /\ [s EXCEPT !.logs = f].vote = s.vote
      /\ [s EXCEPT !.logs = f].committed = s.committed
  BY <1>1, <1>2, WithLogs
<1>8. DOMAIN f = S /\ \A i \in S : f[i] = IF i \in new THEN leader ELSE s.logs[i]
  BY Zenon DEF f
<1> DEFINE t == do_append(s, n + 1, leader, k)
<1>9. /\ t \in Databases(LogIds) /\ t.logs = f
      /\ t.purged = s.purged /\ t.vote = s.vote /\ t.committed = s.committed
  BY <1>3, <1>7, Zenon
<1> HIDE DEF t
<1>10. Spans(t, n + k)
  BY <1>4, <1>5, <1>8, <1>9, Zenon DEF Spans
<1>11. \A i \in DOMAIN s.logs : t.logs[i] = s.logs[i]
  BY <1>6, <1>8, <1>9, Zenon
<1>12. \A i \in (n + 1)..(n + k) : t.logs[i] = leader
  BY <1>8, <1>9
<1> QED
  BY <1>9, <1>10, <1>11, <1>12, Zenon DEF t

\* The entries that a deleted range leaves.
LEMMA RangeDeleted ==
    ASSUME NEW f, NEW from, NEW to
    PROVE  LET g == DeleteRange(f, from, to)
           IN  /\ DOMAIN g = {j \in DOMAIN f : ~(from <= j /\ j < to)}
               /\ \A i \in DOMAIN g : g[i] = f[i]
BY Zenon DEF DeleteRange

\* do_truncate leaves a prefix.
LEMMA TruncateSpans ==
    ASSUME NEW s \in Databases(LogIds), NEW n \in Nat, Spans(s, n),
           NEW i \in (s.purged.index + 1)..n
    PROVE  LET t == do_truncate(s, i)
           IN  /\ t \in Databases(LogIds)
               /\ Spans(t, i - 1)
               /\ t.purged = s.purged /\ t.vote = s.vote /\ t.committed = s.committed
               /\ \A j \in DOMAIN t.logs : j \in DOMAIN s.logs /\ t.logs[j] = s.logs[j]
<1> DEFINE f == DeleteRange(s.logs, i, MaxIndex + 1)
           t == do_truncate(s, i)
<1> USE LogStoreAssumption
<1>0. Fields(s)
  BY StoreFields, Zenon
<1>1. /\ DOMAIN f = {j \in DOMAIN s.logs : ~(i <= j /\ j < MaxIndex + 1)}
      /\ \A j \in DOMAIN f : f[j] = s.logs[j]
      /\ f = [j \in DOMAIN f |-> f[j]]
  BY RangeDeleted, Zenon DEF DeleteRange
<1>2. t = [s EXCEPT !.logs = f]
  BY Zenon DEF do_truncate
<1> HIDE DEF f, t
<1>3. DOMAIN f = (s.purged.index + 1)..(i - 1)
  BY <1>0, <1>1, SMTT(60) DEF Fields, Spans
<1>4. DOMAIN f \in SUBSET (1..MaxIndex) /\ \A j \in DOMAIN f : f[j] \in Leaders
  BY <1>0, <1>1, Zenon DEF Fields
<1>5. f \in [DOMAIN f -> Leaders]
  BY <1>1, <1>4, Zenon
<1>6. /\ t \in Databases(LogIds) /\ t.logs = f
      /\ t.purged = s.purged /\ t.vote = s.vote /\ t.committed = s.committed
  BY <1>2, <1>4, <1>5, WithLogs
<1>7. i - 1 \in s.purged.index..MaxIndex
  BY <1>0, SMTT(60) DEF Fields, Spans
<1>8. Spans(t, i - 1)
  BY <1>3, <1>6, <1>7, Zenon DEF Spans
<1>9. \A j \in DOMAIN t.logs : j \in DOMAIN s.logs /\ t.logs[j] = s.logs[j]
  BY <1>1, <1>6, Zenon
<1> QED
  BY <1>6, <1>8, <1>9, Zenon DEF t

\* do_purge leaves a suffix, or nothing when the log id is past the end.
LEMMA PurgeSpans ==
    ASSUME NEW s \in Databases(LogIds), NEW n \in Nat, Spans(s, n),
           NEW id \in LogIds, s.purged.index <= id.index
    PROVE  LET t == do_purge(s, id)
           IN  /\ t \in Databases(LogIds)
               /\ Spans(t, MaxOf(n, id.index))
               /\ t.purged = id /\ t.vote = s.vote /\ t.committed = s.committed
               /\ \A j \in DOMAIN t.logs : /\ j \in DOMAIN s.logs /\ t.logs[j] = s.logs[j]
                                            /\ j > id.index
<1> DEFINE f == DeleteRange(s.logs, 0, id.index + 1)
           r == [s EXCEPT !.logs = f]
           t == do_purge(s, id)
<1> USE LogStoreAssumption
<1>0. Fields(s) /\ id.index \in Nat /\ id.index <= MaxIndex
  <2>1. Fields(s)
    BY StoreFields, Zenon
  <2>2. id.index \in 0..MaxIndex
    BY Zenon DEF LogIds
  <2> QED
    BY <2>1, <2>2
<1>1. /\ DOMAIN f = {j \in DOMAIN s.logs : ~(0 <= j /\ j < id.index + 1)}
      /\ \A j \in DOMAIN f : f[j] = s.logs[j]
      /\ f = [j \in DOMAIN f |-> f[j]]
  BY RangeDeleted, Zenon DEF DeleteRange
<1>2. t = [r EXCEPT !.purged = id]
  BY Zenon DEF do_purge
<1> HIDE DEF f, t
<1>3. DOMAIN f = (id.index + 1)..MaxOf(n, id.index)
  BY <1>0, <1>1, SMTT(60) DEF Fields, Spans, MaxOf
<1>4. DOMAIN f \in SUBSET (1..MaxIndex) /\ \A j \in DOMAIN f : f[j] \in Leaders
  BY <1>0, <1>1, Zenon DEF Fields
<1>5. f \in [DOMAIN f -> Leaders]
  BY <1>1, <1>4, Zenon
<1>6. /\ r \in Databases(LogIds) /\ r.logs = f
      /\ r.purged = s.purged /\ r.vote = s.vote /\ r.committed = s.committed
  BY <1>4, <1>5, WithLogs
<1> HIDE DEF r
<1>7. /\ t \in Databases(LogIds) /\ t.logs = f
      /\ t.purged = id /\ t.vote = s.vote /\ t.committed = s.committed
  <2>1. t.logs = f /\ t.purged = id /\ t.vote = s.vote /\ t.committed = s.committed
    BY <1>2, <1>6, Zenon DEF Databases
  <2>2. [r EXCEPT !.purged = id] \in Databases(LogIds)
    BY <1>6, Zenon DEF Databases
  <2> QED
    BY <1>2, <2>1, <2>2, Zenon
<1>8. MaxOf(n, id.index) \in id.index..MaxIndex
  BY <1>0 DEF Fields, Spans, MaxOf
<1>9. Spans(t, MaxOf(n, id.index))
  BY <1>3, <1>7, <1>8, Zenon DEF Spans
<1>10. \A j \in DOMAIN t.logs : /\ j \in DOMAIN s.logs /\ t.logs[j] = s.logs[j]
                                /\ j > id.index
  BY <1>0, <1>1, <1>7 DEF Fields
<1> QED
  BY <1>7, <1>9, <1>10, Zenon DEF t

\* A log id has an index and a leader, both natural numbers.
LEMMA LogIdFields ==
    /\ \A id \in LogIds : id.index \in Nat /\ id.leader \in Nat
    /\ \A i, l : LogId(i, l).index = i /\ LogId(i, l).leader = l
BY LogStoreAssumption DEF LogIds, LogId

\* No entry is of a later leader than the last log id.
LEMMA LastIsLatest ==
    ASSUME NEW s \in Databases(LogIds), NEW n \in Nat, Spans(s, n), Ordered(s)
    PROVE  /\ s.purged.leader <= last_log_id(s).leader
           /\ \A i \in DOMAIN s.logs : s.logs[i] <= last_log_id(s).leader
           /\ last_log_id(s).leader \in Nat
<1>0. Fields(s)
  BY StoreFields, Zenon
<1>1. CASE n = s.purged.index
  <2>1. last_log_id(s) = s.purged /\ DOMAIN s.logs = {}
    BY <1>0, <1>1, LastLogId DEF Spans, Fields
  <2> QED
    BY <1>0, <2>1 DEF Fields
<1>2. CASE n # s.purged.index
  <2>1. last_log_id(s).leader = s.logs[n]
    BY <1>2, LastLogId, LogIdFields
  <2>2. n \in DOMAIN s.logs /\ \A i \in DOMAIN s.logs : i <= n
    BY <1>0, <1>2 DEF Spans, Fields
  <2> QED
    BY <1>0, <2>1, <2>2, Zenon DEF Ordered, Fields
<1> QED
  BY <1>1, <1>2, Zenon

\* Appending entries of a leader that is not earlier than the last log id.
LEMMA AppendKeeps ==
    ASSUME NEW s \in Databases(LogIds), NEW n \in Nat, Spans(s, n), Ordered(s),
           NEW leader \in Leaders, NEW k \in 1..2, n + k <= MaxIndex,
           last_log_id(s).leader <= leader
    PROVE  LET t == do_append(s, n + 1, leader, k)
           IN  /\ Ordered(t)
               /\ last_log_id(t) = LogId(n + k, leader)
               /\ \A id \in LogIds :
                    Fits(s, id) /\ UpTo(id, last_log_id(s)) => Fits(t, id)
<1> DEFINE t == do_append(s, n + 1, leader, k)
<1>1. /\ t \in Databases(LogIds) /\ Spans(t, n + k) /\ t.purged = s.purged
      /\ \A i \in DOMAIN s.logs : t.logs[i] = s.logs[i]
      /\ \A i \in (n + 1)..(n + k) : t.logs[i] = leader
  BY AppendSpans
<1> HIDE DEF t
<1>2. Fields(s) /\ Fields(t) /\ leader \in Nat /\ n + k \in Nat
  BY <1>1, StoreFields, LogStoreAssumption DEF Leaders
<1>3. /\ last_log_id(s).index = n /\ last_log_id(s).leader \in Nat
      /\ s.purged.leader <= last_log_id(s).leader
      /\ \A i \in DOMAIN s.logs : s.logs[i] <= last_log_id(s).leader
  BY LastLogId, LastIsLatest, Zenon
<1>4. \A i \in DOMAIN t.logs : i \in DOMAIN s.logs \/ i \in (n + 1)..(n + k)
  BY <1>1, <1>2 DEF Spans, Fields
<1>5. \A i \in DOMAIN s.logs : i <= n
  BY <1>2 DEF Spans, Fields
<1>6. \A i \in DOMAIN t.logs :
        /\ i \in Nat /\ t.logs[i] \in Nat
        /\ \/ i \in DOMAIN s.logs /\ i <= n /\ t.logs[i] = s.logs[i]
           \/ i > n /\ t.logs[i] = leader
  <2> TAKE i \in DOMAIN t.logs
  <2>1. i \in Nat /\ t.logs[i] \in Nat
    BY <1>2, Zenon DEF Fields
  <2>2. CASE i \in DOMAIN s.logs
    BY <1>1, <1>5, <2>1, <2>2, Zenon
  <2>3. CASE i \in (n + 1)..(n + k)
    BY <1>1, <2>1, <2>3
  <2> QED
    BY <1>4, <2>2, <2>3, Zenon
<1>7. Ordered(t)
  BY <1>1, <1>2, <1>3, <1>6 DEF Ordered, Fields
<1>8. n + k # t.purged.index
  BY <1>1, <1>2, SMTT(60) DEF Spans, Fields
<1>9. last_log_id(t) = LogId(n + k, leader)
  BY <1>1, <1>2, <1>8, LastLogId
<1>10. ASSUME NEW id \in LogIds, Fits(s, id), UpTo(id, last_log_id(s))
       PROVE  Fits(t, id)
  <2>1. id.index \in Nat /\ id.leader \in Nat /\ id.index <= n /\ id.leader <= leader
    BY <1>2, <1>3, <1>10, LogIdFields DEF UpTo
  <2> QED
    BY <1>1, <1>6, <1>10, <2>1 DEF Fits
<1> QED
  BY <1>7, <1>9, <1>10, Zenon DEF t

\* Cutting the end off: what fits the log still does, and is not after the new
\* end if it was below the cut.
LEMMA TruncateKeeps ==
    ASSUME NEW s \in Databases(LogIds), NEW n \in Nat, Spans(s, n), Ordered(s),
           NEW i \in (s.purged.index + 1)..n
    PROVE  LET t == do_truncate(s, i)
           IN  /\ Ordered(t)
               /\ last_log_id(t) = IF i - 1 = s.purged.index THEN s.purged
                                   ELSE LogId(i - 1, s.logs[i - 1])
               /\ \A id \in LogIds :
                    Fits(s, id) => /\ Fits(t, id)
                                   /\ id.index < i => UpTo(id, last_log_id(t))
<1> DEFINE t == do_truncate(s, i)
<1>0. Fields(s)
  BY StoreFields, Zenon
<1>1. /\ t \in Databases(LogIds) /\ Spans(t, i - 1) /\ t.purged = s.purged
      /\ \A j \in DOMAIN t.logs : j \in DOMAIN s.logs /\ t.logs[j] = s.logs[j]
  BY TruncateSpans, Zenon
<1> HIDE DEF t
<1>2. Fields(t) /\ i \in Nat /\ i - 1 \in Nat
  BY <1>0, <1>1, StoreFields DEF Fields
<1>3. Ordered(t)
  BY <1>1, Zenon DEF Ordered
<1>4. i - 1 # s.purged.index => i - 1 \in DOMAIN t.logs
  BY <1>0, <1>1, <1>2, SMTT(60) DEF Spans, Fields
<1>5. /\ last_log_id(t) = IF i - 1 = t.purged.index THEN t.purged
                          ELSE LogId(i - 1, t.logs[i - 1])
      /\ last_log_id(t).index = i - 1
  BY <1>1, <1>2, LastLogId, Zenon
<1>6. last_log_id(t) = IF i - 1 = s.purged.index THEN s.purged
                       ELSE LogId(i - 1, s.logs[i - 1])
  BY <1>1, <1>4, <1>5, Zenon
<1>7. ASSUME NEW id \in LogIds, Fits(s, id)
      PROVE  Fits(t, id) /\ (id.index < i => UpTo(id, last_log_id(t)))
  <2>1. Fits(t, id)
    BY <1>1, <1>7, Zenon DEF Fits
  <2>2. id.index \in Nat /\ id.leader \in Nat
    BY LogIdFields, Zenon
  <2>3. ASSUME id.index < i
        PROVE  UpTo(id, last_log_id(t))
    <3>1. id.index <= i - 1
      BY <1>2, <2>2, <2>3
    <3>2. CASE i - 1 = s.purged.index
      BY <1>0, <1>6, <1>7, <2>2, <3>1, <3>2, Zenon DEF Fits, Comparable, UpTo, Fields
    <3>3. CASE i - 1 # s.purged.index
      <4>1. i - 1 \in DOMAIN s.logs /\ last_log_id(t).leader = s.logs[i - 1]
        BY <1>1, <1>4, <1>6, <3>3, LogIdFields
      <4> QED
        BY <1>0, <1>2, <1>5, <1>7, <2>2, <3>1, <4>1, Zenon DEF Fits, UpTo, Fields
    <3> QED
      BY <3>2, <3>3, Zenon
  <2> QED
    BY <2>1, <2>3, Zenon
<1> QED
  BY <1>3, <1>6, <1>7, Zenon DEF t

\* Purging up to a log id that fits the log.
LEMMA PurgeKeeps ==
    ASSUME NEW s \in Databases(LogIds), NEW n \in Nat, Spans(s, n), Ordered(s),
           NEW id \in LogIds, Fits(s, id), s.purged.index <= id.index
    PROVE  LET t == do_purge(s, id)
           IN  /\ Ordered(t)
               /\ last_log_id(t) = IF n <= id.index THEN id ELSE last_log_id(s)
               /\ \A x \in LogIds : Fits(s, x) /\ Comparable(id, x) => Fits(t, x)
               /\ \A x \in LogIds :
                    Comparable(x, id) /\ UpTo(x, last_log_id(s)) => UpTo(x, last_log_id(t))
<1> DEFINE t == do_purge(s, id)
<1>0. Fields(s) /\ id.index \in Nat /\ id.leader \in Nat
  BY StoreFields, LogIdFields, Zenon
<1>1. /\ t \in Databases(LogIds) /\ Spans(t, MaxOf(n, id.index)) /\ t.purged = id
      /\ \A j \in DOMAIN t.logs : /\ j \in DOMAIN s.logs /\ t.logs[j] = s.logs[j]
                                  /\ j > id.index
  BY PurgeSpans, Zenon
<1> HIDE DEF t
<1>2. Ordered(t)
  BY <1>0, <1>1 DEF Ordered, Fits, Fields
<1>3. last_log_id(t) = IF n <= id.index THEN id ELSE last_log_id(s)
  <2>1. CASE n <= id.index
    <3>1. MaxOf(n, id.index) = id.index
      BY <1>0, <2>1 DEF MaxOf
    <3> QED
      BY <1>0, <1>1, <2>1, <3>1, LastLogId
  <2>2. CASE ~(n <= id.index)
    <3>1. MaxOf(n, id.index) = n /\ n # id.index /\ n # s.purged.index
      BY <1>0, <2>2 DEF MaxOf, Fields
    <3>2. n \in DOMAIN t.logs
      BY <1>0, <1>1, <2>2, <3>1 DEF Spans
    <3>3. last_log_id(t) = LogId(n, t.logs[n])
      BY <1>1, <3>1, LastLogId
    <3>4. last_log_id(s) = LogId(n, s.logs[n])
      BY <3>1, LastLogId, Zenon
    <3> QED
      BY <1>1, <2>2, <3>2, <3>3, <3>4, Zenon
  <2> QED
    BY <2>1, <2>2, Zenon
<1>4. \A x \in LogIds : Fits(s, x) /\ Comparable(id, x) => Fits(t, x)
  BY <1>1, Zenon DEF Fits
<1>5. ASSUME NEW x \in LogIds, Comparable(x, id), UpTo(x, last_log_id(s))
      PROVE  UpTo(x, last_log_id(t))
  <2>1. x.index \in Nat /\ x.leader \in Nat /\ last_log_id(s).index = n
    BY LogIdFields, LastLogId, Zenon
  <2> QED
    BY <1>0, <1>3, <1>5, <2>1 DEF UpTo, Comparable
<1> QED
  BY <1>2, <1>3, <1>4, <1>5, Zenon DEF t

\* A log id that fits the log is comparable with its last one.
LEMMA FitsLast ==
    ASSUME NEW s \in Databases(LogIds), WellFormed(s), NEW x \in LogIds, Fits(s, x)
    PROVE  /\ last_log_id(s) \in LogIds
           /\ Comparable(x, last_log_id(s))
<1>0. Fields(s) /\ x.index \in Nat /\ x.leader \in Nat
  BY StoreFields, LogIdFields, Zenon
<1>1. PICK n \in Nat : Spans(s, n)
  BY Zenon DEF WellFormed
<1>2. /\ last_log_id(s) = IF n = s.purged.index THEN s.purged ELSE LogId(n, s.logs[n])
      /\ last_log_id(s) \in LogIds
      /\ last_log_id(s).index = n
  BY <1>1, LastLogId, Zenon
<1>3. CASE n = s.purged.index
  BY <1>0, <1>2, <1>3, Zenon DEF Fits, Comparable, Fields
<1>4. CASE n # s.purged.index
  <2>1. n \in DOMAIN s.logs
    BY <1>0, <1>1, <1>4 DEF Spans, Fields
  <2>2. last_log_id(s).leader = s.logs[n]
    BY <1>2, <1>4, LogIdFields
  <2> QED
    BY <1>0, <1>2, <2>1, <2>2, Zenon DEF Fits, Comparable, Fields
<1> QED
  BY <1>2, <1>3, <1>4, Zenon

\* The log purged up to a log id that is not after the applied one.
LEMMA Purged ==
    ASSUME NEW s \in Databases(LogIds), WellFormed(s),
           NEW a \in LogIds, Recoverable(s, a),
           NEW id \in LogIds, Fits(s, id), UpTo(s.purged, id), UpTo(id, a),
           Comparable(id, a), Comparable(s.committed, id)
    PROVE  LET t == do_purge(s, id)
           IN  /\ t \in Databases(LogIds) /\ WellFormed(t) /\ Recoverable(t, a)
               /\ t.purged = id /\ t.vote = s.vote /\ t.committed = s.committed
               /\ last_log_id(t) = IF last_log_id(s).index <= id.index THEN id
                                   ELSE last_log_id(s)
               /\ \A x \in LogIds : Fits(s, x) /\ Comparable(id, x) => Fits(t, x)
<1> DEFINE t == do_purge(s, id)
<1>0. Fields(s) /\ id.index \in Nat /\ id.leader \in Nat
  BY StoreFields, LogIdFields, Zenon
<1>1. PICK n \in Nat : Spans(s, n)
  BY Zenon DEF WellFormed
<1>2. Ordered(s) /\ s.purged.index <= id.index /\ last_log_id(s).index = n
  BY <1>1, LastLogId, Zenon DEF WellFormed, UpTo
<1>3. /\ t \in Databases(LogIds) /\ Spans(t, MaxOf(n, id.index))
      /\ t.purged = id /\ t.vote = s.vote /\ t.committed = s.committed
  BY <1>1, <1>2, PurgeSpans
<1>4. /\ Ordered(t)
      /\ last_log_id(t) = IF n <= id.index THEN id ELSE last_log_id(s)
      /\ \A x \in LogIds : Fits(s, x) /\ Comparable(id, x) => Fits(t, x)
      /\ \A x \in LogIds :
           Comparable(x, id) /\ UpTo(x, last_log_id(s)) => UpTo(x, last_log_id(t))
  BY <1>1, <1>2, PurgeKeeps, Zenon
<1> HIDE DEF t
<1>5. MaxOf(n, id.index) \in Nat
  BY <1>0, Zenon DEF MaxOf
<1>6. WellFormed(t)
  BY <1>3, <1>4, <1>5, Zenon DEF WellFormed
<1>7. Comparable(id, s.committed) /\ s.committed \in LogIds
  BY <1>0, Zenon DEF Comparable, Fields
<1>8. Recoverable(t, a)
  BY <1>3, <1>4, <1>7, Zenon DEF Recoverable
<1> QED
  BY <1>2, <1>3, <1>4, <1>6, <1>8, Zenon DEF t

\* A change of the vote alone.
LEMMA VoteSaved ==
    ASSUME NEW s \in Databases(LogIds), NEW v \in 0..MaxLeader
    PROVE  LET t == do_save_vote(s, v)
           IN  /\ t \in Databases(LogIds) /\ t.logs = s.logs /\ t.purged = s.purged
               /\ t.committed = s.committed /\ t.vote = v
<1>1. /\ do_save_vote(s, v).logs = s.logs /\ do_save_vote(s, v).purged = s.purged
      /\ do_save_vote(s, v).committed = s.committed /\ do_save_vote(s, v).vote = v
  BY Zenon DEF do_save_vote, Databases
<1>2. do_save_vote(s, v) \in Databases(LogIds)
  BY Zenon DEF do_save_vote, Databases
<1> QED
  BY <1>1, <1>2, Zenon

\* A change of the committed log id alone.
LEMMA CommittedSaved ==
    ASSUME NEW s \in Databases(LogIds), NEW id \in LogIds
    PROVE  LET t == do_save_committed(s, id)
           IN  /\ t \in Databases(LogIds) /\ t.logs = s.logs /\ t.purged = s.purged
               /\ t.committed = id /\ t.vote = s.vote
<1>1. /\ do_save_committed(s, id).logs = s.logs
      /\ do_save_committed(s, id).purged = s.purged
      /\ do_save_committed(s, id).committed = id
      /\ do_save_committed(s, id).vote = s.vote
  BY Zenon DEF do_save_committed, Databases
<1>2. do_save_committed(s, id) \in Databases(LogIds)
  BY Zenon DEF do_save_committed, Databases
<1> QED
  BY <1>1, <1>2, Zenon

-----------------------------------------------------------------------------
(***************************************************************************)
(* IInv is inductive, and it implies the properties.                       *)
(***************************************************************************)

\* Memory that is gone agrees with everything.
LEMMA OffAgrees ==
    ASSUME NEW s, NEW id, NEW pc \in {"stopped", "lost"}
    PROVE  Off(pc) \in Memories /\ Off(pc).pc = pc /\ Agrees(s, Off(pc), id)
<1>1. NoLogId \in LogIds
  BY LogStoreAssumption DEF NoLogId, LogId, LogIds
<1>2. Off(pc).pc = pc
  BY Zenon DEF Off
<1>3. 0 \in 0..MaxLeader
  BY LogStoreAssumption
<1>4. Off(pc) \in Memories
  BY <1>1, <1>3, Zenon DEF Off, Memories
<1> QED
  BY <1>2, <1>4, Zenon DEF Agrees

\* A write of a database that is as good as the one before.
LEMMA WriteKeeps ==
    ASSUME IInv, raft.pc # "lost",
           NEW new \in Databases(LogIds), NEW memory \in Memories,
           WellFormed(new), Recoverable(new, applied), Agrees(new, memory, applied),
           Write(new, memory), applied' = applied
    PROVE  IInv'
<1>1. /\ db \in Databases(LogIds) /\ disk \in Databases(LogIds) /\ applied \in LogIds
      /\ WellFormed(db) /\ WellFormed(disk) /\ Recoverable(db, applied)
  BY Zenon DEF IInv, TypeOK
<1>2. disk' = disk
  BY Zenon DEF Write
<1>3. CASE db' = new /\ raft' = memory
  <2>1. TypeOK'
    BY <1>1, <1>2, <1>3, Zenon DEF TypeOK, Memories
  <2> QED
    BY <1>1, <1>2, <1>3, <2>1, Zenon DEF IInv
<1>4. CASE db' \in {db, new} /\ raft' = Off("stopped")
  <2>1. raft' \in Memories /\ Agrees(db', raft', applied')
    BY <1>4, OffAgrees, Zenon
  <2>2. TypeOK'
    BY <1>1, <1>2, <1>4, <2>1, Zenon DEF TypeOK, Memories
  <2>3. WellFormed(db') /\ WellFormed(disk') /\ Recoverable(db', applied')
    BY <1>1, <1>2, <1>4, Zenon
  <2> QED
    BY <2>1, <2>2, <2>3, Zenon DEF IInv
<1> QED
  BY <1>3, <1>4, Zenon DEF Write

\* What the invariant says while OpenRaft runs.
LEMMA Running ==
    ASSUME IInv, raft.pc \in {"running", "install", "purge"}
    PROVE  /\ db \in Databases(LogIds) /\ raft \in Memories
           /\ Fields(db) /\ Ordered(db)
           /\ \E n \in Nat : Spans(db, n)
           /\ Recoverable(db, applied)
           /\ Agrees(db, raft, applied)
           /\ applied \in LogIds /\ applied.index \in Nat /\ applied.leader \in Nat
           /\ raft.committed \in LogIds
           /\ raft.committed.index \in Nat /\ raft.committed.leader \in Nat
<1>1. db \in Databases(LogIds) /\ applied \in LogIds /\ raft \in Memories
  BY Zenon DEF IInv, TypeOK, Memories
<1>2. raft.committed \in LogIds
  BY <1>1, Zenon DEF Memories
<1>3. WellFormed(db) /\ Recoverable(db, applied) /\ Agrees(db, raft, applied)
  BY Zenon DEF IInv
<1>4. Fields(db)
  BY <1>1, StoreFields, Zenon
<1> QED
  BY <1>1, <1>2, <1>3, <1>4, LogIdFields, Zenon DEF WellFormed

-----------------------------------------------------------------------------
(* One lemma for each kind of step. *)

\* append: OpenRaft writes right after the last log id it holds.
LEMMA AppendStep ==
    ASSUME IInv, NEW leader \in Leaders, NEW k \in 1..2, append(leader, k)
    PROVE  IInv'
<1>0. raft.pc = "running"
  BY Zenon DEF append
<1>1. /\ db \in Databases(LogIds) /\ raft \in Memories /\ Fields(db) /\ Ordered(db)
      /\ \E n \in Nat : Spans(db, n)
      /\ Recoverable(db, applied) /\ Agrees(db, raft, applied)
      /\ applied \in LogIds /\ applied.index \in Nat /\ applied.leader \in Nat
      /\ raft.committed \in LogIds
      /\ raft.committed.index \in Nat /\ raft.committed.leader \in Nat
  BY <1>0, Running, Zenon
<1>2. PICK n \in Nat : Spans(db, n)
  BY <1>1, Zenon
<1>3. raft.last = last_log_id(db) /\ raft.last.index = n /\ raft.last.leader \in Nat
  BY <1>0, <1>1, <1>2, LastLogId, LogIdFields DEF Agrees
<1> DEFINE t == do_append(db, n + 1, leader, k)
           m == [raft EXCEPT !.last = LogId(n + k, leader)]
<1>4. /\ leader \in Nat /\ raft.last.leader <= leader /\ n + k <= MaxIndex
      /\ n + 1 + k - 1 = n + k
  BY <1>1, <1>3, LogStoreAssumption DEF append, Leaders, Memories
<1>5. Write(t, m)
  BY <1>3, <1>4, Zenon DEF append
<1>6. /\ t \in Databases(LogIds) /\ Spans(t, n + k)
      /\ t.purged = db.purged /\ t.vote = db.vote /\ t.committed = db.committed
  BY <1>1, <1>2, <1>4, AppendSpans
<1>7. /\ Ordered(t)
      /\ last_log_id(t) = LogId(n + k, leader)
      /\ \A id \in LogIds : Fits(db, id) /\ UpTo(id, last_log_id(db)) => Fits(t, id)
  BY <1>1, <1>2, <1>3, <1>4, AppendKeeps
<1>8. /\ m.pc = "running" /\ m.last = LogId(n + k, leader) /\ m.purged = raft.purged
      /\ m.vote = raft.vote /\ m.committed = raft.committed
  BY <1>0, <1>1, Zenon DEF Memories
<1>9. LogId(n + k, leader) \in LogIds
  BY <1>2, <1>4, LogStoreAssumption DEF LogId, LogIds, Leaders
<1>10. m \in Memories
  BY <1>1, <1>9, Zenon DEF Memories
<1> HIDE DEF t, m
<1>11. /\ \A id \in LogIds : UpTo(id, raft.last) => UpTo(id, last_log_id(t))
  BY <1>3, <1>4, <1>7, LogIdFields DEF UpTo
<1>12. UpTo(applied, raft.last) /\ UpTo(raft.committed, raft.last)
       /\ UpTo(db.committed, raft.last)
  BY <1>0, <1>1, <1>3 DEF Agrees, UpTo, Fields
<1>13. Recoverable(t, applied)
  BY <1>1, <1>3, <1>6, <1>7, <1>11, <1>12, Zenon DEF Recoverable, Fields
<1>14. Agrees(t, m, applied)
  BY <1>0, <1>1, <1>3, <1>6, <1>7, <1>8, <1>11, <1>12, Zenon DEF Agrees
<1>15. WellFormed(t)
  BY <1>6, <1>7 DEF WellFormed
<1>16. applied' = applied
  BY Zenon DEF append, IInv, TypeOK
<1> QED
  BY <1>0, <1>5, <1>6, <1>10, <1>13, <1>14, <1>15, <1>16, WriteKeeps, Zenon

\* The log without its entries from i on, all above the committed ones.
LEMMA Truncated ==
    ASSUME IInv, raft.pc = "running",
           NEW i \in (raft.committed.index + 1)..raft.last.index
    PROVE  LET t == do_truncate(db, i)
           IN  /\ t \in Databases(LogIds) /\ WellFormed(t) /\ Recoverable(t, applied)
               /\ last_log_id(t) = LogIdAt(i - 1) /\ last_log_id(t) \in LogIds
               /\ last_log_id(t).index = i - 1
               /\ t.purged = db.purged /\ t.vote = db.vote /\ t.committed = db.committed
               /\ DOMAIN t.logs = (db.purged.index + 1)..(i - 1)
               /\ \A j \in DOMAIN t.logs : j \in DOMAIN db.logs /\ t.logs[j] = db.logs[j]
               /\ \A id \in LogIds :
                    Fits(db, id) => /\ Fits(t, id)
                                    /\ id.index < i => UpTo(id, last_log_id(t))
<1>1. /\ db \in Databases(LogIds) /\ raft \in Memories /\ Fields(db) /\ Ordered(db)
      /\ \E n \in Nat : Spans(db, n)
      /\ Recoverable(db, applied) /\ Agrees(db, raft, applied)
      /\ applied \in LogIds /\ applied.index \in Nat /\ applied.leader \in Nat
      /\ raft.committed \in LogIds
      /\ raft.committed.index \in Nat /\ raft.committed.leader \in Nat
  BY Running, Zenon
<1>2. PICK n \in Nat : Spans(db, n)
  BY <1>1, Zenon
<1>3. raft.last = last_log_id(db) /\ raft.last.index = n
  BY <1>1, <1>2, LastLogId DEF Agrees
<1>4. i \in (db.purged.index + 1)..n /\ i - 1 \in Nat
  BY <1>1, <1>3 DEF Agrees, Recoverable, UpTo, Fields
<1> DEFINE t == do_truncate(db, i)
<1>5. /\ t \in Databases(LogIds) /\ Spans(t, i - 1)
      /\ t.purged = db.purged /\ t.vote = db.vote /\ t.committed = db.committed
      /\ \A j \in DOMAIN t.logs : j \in DOMAIN db.logs /\ t.logs[j] = db.logs[j]
  BY <1>1, <1>2, <1>4, TruncateSpans
<1>6. /\ Ordered(t)
      /\ last_log_id(t) = IF i - 1 = db.purged.index THEN db.purged
                          ELSE LogId(i - 1, db.logs[i - 1])
      /\ \A id \in LogIds :
           Fits(db, id) => /\ Fits(t, id)
                           /\ id.index < i => UpTo(id, last_log_id(t))
  BY <1>1, <1>2, <1>4, TruncateKeeps, Zenon
<1> HIDE DEF t
<1>7. IF i - 1 \in DOMAIN db.logs THEN i - 1 # db.purged.index ELSE i - 1 = db.purged.index
  <2>1. DOMAIN db.logs = (db.purged.index + 1)..n /\ db.purged.index \in Nat
    BY <1>1, <1>2, Zenon DEF Spans, Fields
  <2> QED
    BY <1>4, <2>1
<1>8. last_log_id(t) = LogIdAt(i - 1)
  BY <1>1, <1>6, <1>7, Zenon DEF LogIdAt, Agrees
<1>9. last_log_id(t) \in LogIds /\ last_log_id(t).index = i - 1
  BY <1>4, <1>5, LastLogId, Zenon
<1>10. db.committed.index < i
  BY <1>1, <1>4 DEF Agrees, UpTo, Fields
<1>11. Recoverable(t, applied)
  BY <1>1, <1>5, <1>6, <1>10, Zenon DEF Recoverable, Fields
<1>12. WellFormed(t) /\ DOMAIN t.logs = (db.purged.index + 1)..(i - 1)
  BY <1>4, <1>5, <1>6, Zenon DEF WellFormed, Spans
<1> QED
  BY <1>5, <1>6, <1>8, <1>9, <1>11, <1>12, Zenon DEF t

\* truncate: the cut is above what is committed.
LEMMA TruncateStep ==
    ASSUME IInv, NEW i \in 1..MaxIndex, truncate(i)
    PROVE  IInv'
<1> DEFINE t == do_truncate(db, i)
           m == [raft EXCEPT !.last = LogIdAt(i - 1)]
<1>0. raft.pc = "running" /\ Write(t, m) /\ i \in (raft.committed.index + 1)..raft.last.index
  BY Zenon DEF truncate
<1>1. /\ raft \in Memories /\ Agrees(db, raft, applied)
      /\ raft.committed \in LogIds /\ raft.committed.index \in Nat
  BY <1>0, Running, Zenon
<1>2. /\ t \in Databases(LogIds) /\ WellFormed(t) /\ Recoverable(t, applied)
      /\ last_log_id(t) = LogIdAt(i - 1) /\ last_log_id(t) \in LogIds
      /\ t.purged = db.purged /\ t.vote = db.vote /\ t.committed = db.committed
      /\ \A id \in LogIds :
           Fits(db, id) => /\ Fits(t, id)
                           /\ id.index < i => UpTo(id, last_log_id(t))
  BY <1>0, Truncated, Zenon
<1>3. /\ m.pc = "running" /\ m.last = LogIdAt(i - 1) /\ m.purged = raft.purged
      /\ m.vote = raft.vote /\ m.committed = raft.committed
  BY <1>0, <1>1, Zenon DEF Memories
<1>4. m \in Memories
  BY <1>1, <1>2, Zenon DEF Memories
<1> HIDE DEF t, m
<1>5. raft.committed.index < i
  BY <1>0, <1>1
<1>6. Agrees(t, m, applied)
  BY <1>0, <1>1, <1>2, <1>3, <1>5, Zenon DEF Agrees
<1>7. applied' = applied
  BY Zenon DEF truncate, IInv, TypeOK
<1> QED
  BY <1>0, <1>2, <1>4, <1>6, <1>7, WriteKeeps, Zenon

\* save_vote.
LEMMA VoteStep ==
    ASSUME IInv, NEW v \in Leaders, save_vote(v)
    PROVE  IInv'
<1> DEFINE t == do_save_vote(db, v)
           m == [raft EXCEPT !.vote = v]
<1>0. raft.pc = "running" /\ Write(t, m)
  BY Zenon DEF save_vote
<1>1. /\ db \in Databases(LogIds) /\ raft \in Memories /\ WellFormed(db)
      /\ Recoverable(db, applied) /\ Agrees(db, raft, applied)
  BY <1>0, Running, Zenon DEF IInv
<1>2. v \in 0..MaxLeader
  BY LogStoreAssumption DEF Leaders
<1>3. /\ t \in Databases(LogIds) /\ t.logs = db.logs /\ t.purged = db.purged
      /\ t.committed = db.committed /\ t.vote = v
  BY <1>1, <1>2, VoteSaved, Zenon
<1>4. /\ m.pc = "running" /\ m.last = raft.last /\ m.purged = raft.purged
      /\ m.vote = v /\ m.committed = raft.committed
  BY <1>0, <1>1, Zenon DEF Memories
<1>5. m \in Memories
  BY <1>1, <1>2, Zenon DEF Memories
<1> HIDE DEF t, m
<1>6. last_log_id(t) = last_log_id(db)
  BY <1>3 DEF last_log_id
<1>7. WellFormed(t)
  BY <1>1, <1>3, Zenon DEF WellFormed, Spans, Ordered
<1>8. \A id : Fits(db, id) => Fits(t, id)
  BY <1>3, Zenon DEF Fits
<1>9. Recoverable(t, applied)
  BY <1>1, <1>3, <1>6, <1>8, Zenon DEF Recoverable
<1>10. Agrees(t, m, applied)
  BY <1>0, <1>1, <1>3, <1>4, <1>6, <1>8, Zenon DEF Agrees
<1>11. applied' = applied
  BY <1>2, Zenon DEF save_vote, IInv, TypeOK
<1> QED
  BY <1>0, <1>3, <1>5, <1>7, <1>9, <1>10, <1>11, WriteKeeps, Zenon

\* The log id at an index of the log fits the log.
LEMMA EntryFits ==
    ASSUME IInv, raft.pc = "running", NEW i \in DOMAIN db.logs
    PROVE  /\ LogIdAt(i) = LogId(i, db.logs[i]) /\ LogIdAt(i) \in LogIds
           /\ Fits(db, LogIdAt(i))
           /\ UpTo(LogIdAt(i), raft.last)
           /\ \A id \in LogIds : Fits(db, id) => Comparable(LogIdAt(i), id)
<1>1. /\ db \in Databases(LogIds) /\ Fields(db) /\ Ordered(db)
      /\ \E n \in Nat : Spans(db, n)
      /\ Agrees(db, raft, applied)
  BY Running, Zenon
<1>2. PICK n \in Nat : Spans(db, n)
  BY <1>1, Zenon
<1> DEFINE e == LogId(i, db.logs[i])
<1>3. LogIdAt(i) = e
  BY Zenon DEF LogIdAt
<1>4. /\ e.index = i /\ e.leader = db.logs[i] /\ i \in Nat /\ db.logs[i] \in Nat
      /\ i \in 1..MaxIndex /\ db.logs[i] \in Leaders
  BY <1>1, LogIdFields, Zenon DEF Fields
<1>5. e \in LogIds
  BY <1>4, LogStoreAssumption DEF LogIds, LogId, Leaders
<1> HIDE DEF e
<1>6. db.purged.index < i /\ i <= n
  BY <1>1, <1>2, <1>4 DEF Spans, Fields
<1>7. Fits(db, e)
  BY <1>1, <1>4, <1>6 DEF Fits, Comparable, Ordered, Fields
<1>8. UpTo(e, raft.last)
  <2>1. raft.last = last_log_id(db) /\ raft.last.index = n
    BY <1>1, <1>2, LastLogId, Zenon DEF Agrees
  <2>2. db.logs[i] <= last_log_id(db).leader
    BY <1>1, <1>2, LastIsLatest, Zenon
  <2> QED
    BY <1>4, <1>6, <2>1, <2>2, Zenon DEF UpTo
<1>9. \A id \in LogIds : Fits(db, id) => Comparable(e, id)
  BY <1>4, Zenon DEF Fits, Comparable
<1> QED
  BY <1>3, <1>5, <1>7, <1>8, <1>9, Zenon DEF e

\* save_committed: the new committed log id is that of an entry.
LEMMA CommittedStep ==
    ASSUME IInv, NEW i \in 1..MaxIndex, save_committed(i)
    PROVE  IInv'
<1> DEFINE e == LogIdAt(i)
           t == do_save_committed(db, e)
           m == [raft EXCEPT !.committed = e]
<1>0. raft.pc = "running" /\ Write(t, m) /\ i \in (raft.committed.index + 1)..raft.last.index
  BY Zenon DEF save_committed
<1>1. /\ db \in Databases(LogIds) /\ raft \in Memories /\ WellFormed(db) /\ Fields(db)
      /\ Recoverable(db, applied) /\ Agrees(db, raft, applied)
      /\ applied \in LogIds /\ applied.index \in Nat /\ applied.leader \in Nat
      /\ raft.committed \in LogIds
      /\ raft.committed.index \in Nat /\ raft.committed.leader \in Nat
  BY <1>0, Running, Zenon DEF IInv
<1>2. i \in DOMAIN db.logs
  <2>1. PICK n \in Nat : Spans(db, n)
    BY <1>1, Zenon DEF WellFormed
  <2>2. raft.last.index = n
    BY <1>0, <1>1, <2>1, LastLogId DEF Agrees
  <2>3. db.purged.index <= raft.committed.index
    BY <1>0, <1>1 DEF Agrees, Recoverable, UpTo, Fields
  <2> QED
    BY <1>0, <1>1, <2>1, <2>2, <2>3, SMTT(180) DEF Spans, Fields
<1>3. /\ e = LogId(i, db.logs[i]) /\ e \in LogIds /\ Fits(db, e) /\ UpTo(e, raft.last)
      /\ \A id \in LogIds : Fits(db, id) => Comparable(e, id)
  BY <1>0, <1>2, EntryFits, Zenon
<1> HIDE DEF e
<1>4. e.index = i /\ e.index \in Nat /\ e.leader \in Nat
  BY <1>3, LogIdFields, Zenon
<1>5. /\ t \in Databases(LogIds) /\ t.logs = db.logs /\ t.purged = db.purged
      /\ t.committed = e /\ t.vote = db.vote
  BY <1>1, <1>3, CommittedSaved, Zenon
<1>6. /\ m.pc = "running" /\ m.last = raft.last /\ m.purged = raft.purged
      /\ m.vote = raft.vote /\ m.committed = e
  BY <1>0, <1>1, Zenon DEF Memories
<1>7. m \in Memories
  BY <1>1, <1>3, Zenon DEF Memories
<1> HIDE DEF t, m
<1>8. last_log_id(t) = last_log_id(db)
  BY <1>5 DEF last_log_id
<1>9. WellFormed(t)
  BY <1>1, <1>5, Zenon DEF WellFormed, Spans, Ordered
<1>10. \A id : Fits(db, id) => Fits(t, id)
  BY <1>5, Zenon DEF Fits
<1>11. Comparable(e, applied) /\ UpTo(raft.committed, e)
  BY <1>0, <1>1, <1>3, <1>4 DEF Recoverable, Agrees, Comparable, UpTo
<1>12. Recoverable(t, applied)
  BY <1>0, <1>1, <1>3, <1>5, <1>8, <1>10, <1>11, Zenon DEF Recoverable, Agrees
<1>13. UpTo(applied, e) /\ UpTo(e, e)
  BY <1>0, <1>1, <1>4, <1>11 DEF Agrees, UpTo
<1>14. Agrees(t, m, applied)
  BY <1>0, <1>1, <1>3, <1>5, <1>6, <1>8, <1>10, <1>13, Zenon DEF Agrees
<1>15. applied' = applied
  BY Zenon DEF save_committed, IInv, TypeOK
<1> QED
  BY <1>0, <1>5, <1>7, <1>9, <1>12, <1>14, <1>15, WriteKeeps, Zenon DEF e

\* The state machine applies an entry, up to the committed one.
LEMMA ApplyStep ==
    ASSUME IInv, NEW i \in 1..MaxIndex, apply(i)
    PROVE  IInv'
<1>0. /\ raft.pc = "running" /\ i \in DOMAIN db.logs /\ applied' = LogIdAt(i)
      /\ i \in (applied.index + 1)..raft.committed.index
      /\ db' = db /\ disk' = disk /\ raft' = raft
  BY Zenon DEF apply
<1>1. /\ Fields(db) /\ Recoverable(db, applied) /\ Agrees(db, raft, applied)
      /\ applied \in LogIds /\ applied.index \in Nat /\ applied.leader \in Nat
      /\ raft.committed \in LogIds
      /\ raft.committed.index \in Nat /\ raft.committed.leader \in Nat
  BY <1>0, Running, Zenon
<1>2. /\ applied' = LogId(i, db.logs[i]) /\ applied' \in LogIds /\ Fits(db, applied')
      /\ \A id \in LogIds : Fits(db, id) => Comparable(applied', id)
  BY <1>0, EntryFits, Zenon
<1>3. applied'.index = i /\ applied'.leader \in Nat
  BY <1>2, LogIdFields, Zenon
<1>4. UpTo(applied', raft.committed)
  BY <1>0, <1>1, <1>2, <1>3 DEF Agrees, Comparable, UpTo
<1>5. UpTo(db.purged, applied')
  <2>1. db.purged.index \in Nat /\ db.purged.leader \in Nat
    BY <1>1, Zenon DEF Fields
  <2>2. db.purged.index <= applied.index
    BY <1>1, Zenon DEF Recoverable, UpTo
  <2>3. db.purged.index <= i
    BY <1>0, <1>1, <2>1, <2>2
  <2>4. Comparable(db.purged, applied')
    BY <1>2, Zenon DEF Fits
  <2> QED
    BY <1>3, <2>3, <2>4, Zenon DEF Comparable, UpTo
<1>6. Comparable(db.committed, applied')
  BY <1>1, <1>2, <1>3, Zenon DEF Recoverable, Comparable, Fields
<1>7. Recoverable(db, applied')
  BY <1>1, <1>2, <1>5, <1>6, Zenon DEF Recoverable
<1>8. Agrees(db, raft, applied')
  BY <1>0, <1>1, <1>4, Zenon DEF Agrees
<1>9. TypeOK'
  BY <1>0, <1>2, Zenon DEF IInv, TypeOK
<1> QED
  BY <1>0, <1>7, <1>8, <1>9, Zenon DEF IInv

\* purge, after a snapshot was built.
LEMMA PurgeStep ==
    ASSUME IInv, NEW i \in 1..MaxIndex, purge(i)
    PROVE  IInv'
<1> DEFINE e == LogIdAt(i)
           t == do_purge(db, e)
           m == [raft EXCEPT !.purged = e]
<1>0. /\ raft.pc = "running" /\ Write(t, m) /\ i \in DOMAIN db.logs
      /\ i \in (raft.purged.index + 1)..applied.index
  BY Zenon DEF purge
<1>1. /\ db \in Databases(LogIds) /\ raft \in Memories /\ WellFormed(db) /\ Fields(db)
      /\ Recoverable(db, applied) /\ Agrees(db, raft, applied)
      /\ applied \in LogIds /\ applied.index \in Nat /\ applied.leader \in Nat
      /\ raft.committed \in LogIds
      /\ raft.committed.index \in Nat /\ raft.committed.leader \in Nat
  BY <1>0, Running, Zenon DEF IInv
<1>2. /\ e = LogId(i, db.logs[i]) /\ e \in LogIds /\ Fits(db, e) /\ UpTo(e, raft.last)
      /\ \A id \in LogIds : Fits(db, id) => Comparable(e, id)
  BY <1>0, EntryFits, Zenon
<1> HIDE DEF e
<1>3. e.index = i /\ e.index \in Nat /\ e.leader \in Nat
  BY <1>2, LogIdFields, Zenon
<1>4. Comparable(e, applied) /\ Comparable(db.committed, e) /\ Comparable(e, raft.committed)
  BY <1>0, <1>1, <1>2, <1>3, Zenon DEF Recoverable, Agrees, Comparable, Fields
<1>5. UpTo(e, applied)
  BY <1>0, <1>1, <1>3, <1>4 DEF Comparable, UpTo
<1>6. UpTo(db.purged, e)
  BY <1>0, <1>1, <1>2, <1>3 DEF Agrees, Fits, Comparable, UpTo, Fields
<1>7. /\ t \in Databases(LogIds) /\ WellFormed(t) /\ Recoverable(t, applied)
      /\ t.purged = e /\ t.vote = db.vote /\ t.committed = db.committed
      /\ last_log_id(t) = IF last_log_id(db).index <= e.index THEN e ELSE last_log_id(db)
      /\ \A x \in LogIds : Fits(db, x) /\ Comparable(e, x) => Fits(t, x)
  <2>1. /\ db \in Databases(LogIds) /\ WellFormed(db)
        /\ applied \in LogIds /\ Recoverable(db, applied)
        /\ e \in LogIds /\ Fits(db, e) /\ UpTo(db.purged, e) /\ UpTo(e, applied)
        /\ Comparable(e, applied) /\ Comparable(db.committed, e)
    BY <1>1, <1>2, <1>4, <1>5, <1>6, Zenon
  <2> QED
    BY <2>1, Purged, Zenon
<1>8. last_log_id(t) = raft.last
  <2>1. raft.last = last_log_id(db) /\ e.index <= raft.last.index
    BY <1>0, <1>1, <1>2, Zenon DEF Agrees, UpTo
  <2>2. PICK n \in Nat : Spans(db, n)
    BY <1>1, Zenon DEF WellFormed
  <2>3. raft.last = (IF n = db.purged.index THEN db.purged ELSE LogId(n, db.logs[n]))
        /\ raft.last.index = n
    BY <1>1, <2>1, <2>2, LastLogId, Zenon
  <2>4. db.purged.index < i
    BY <1>0, <1>1 DEF Agrees, Fields
  <2>5. i = n => raft.last = e
    BY <1>1, <1>2, <2>3, <2>4 DEF Fields
  <2>6. last_log_id(t) = IF last_log_id(db).index <= e.index THEN e ELSE last_log_id(db)
    BY <1>7, Zenon
  <2> HIDE DEF t
  <2>7. i \in Nat /\ i <= n
    BY <1>3, <2>1, <2>3, Zenon
  <2>8. raft.last.index <= e.index => i = n
    BY <1>3, <2>3, <2>7
  <2> QED
    BY <2>1, <2>5, <2>6, <2>8, Zenon
<1>9. /\ m.pc = "running" /\ m.last = raft.last /\ m.purged = e
      /\ m.vote = raft.vote /\ m.committed = raft.committed
  BY <1>0, <1>1, Zenon DEF Memories
<1>10. m \in Memories
  BY <1>1, <1>2, Zenon DEF Memories
<1> HIDE DEF t, m
<1>11. Agrees(t, m, applied)
  BY <1>0, <1>1, <1>4, <1>7, <1>8, <1>9, Zenon DEF Agrees
<1>12. applied' = applied
  BY Zenon DEF purge, IInv, TypeOK
<1> QED
  BY <1>0, <1>7, <1>10, <1>11, <1>12, WriteKeeps, Zenon DEF e

\* The state machine has taken over the snapshot of the leader.
LEMMA SnapshotInstalledStep ==
    ASSUME IInv, snapshot_installed
    PROVE  IInv'
<1>0. /\ raft.pc = "install" /\ applied' = raft.snap
      /\ raft' = [raft EXCEPT !.pc = "purge", !.committed = raft.snap]
      /\ db' = db /\ disk' = disk
  BY Zenon DEF snapshot_installed
<1>1. /\ raft \in Memories /\ Fields(db) /\ Recoverable(db, applied)
      /\ Agrees(db, raft, applied)
      /\ applied.index \in Nat /\ applied.leader \in Nat
      /\ raft.committed.index \in Nat /\ raft.committed.leader \in Nat
  BY <1>0, Running, Zenon
<1>2. raft.snap \in LogIds /\ raft.snap.index \in Nat /\ raft.snap.leader \in Nat
  BY <1>1, LogIdFields, Zenon DEF Memories
<1>3. /\ raft'.pc = "purge" /\ raft'.last = raft.last /\ raft'.purged = raft.purged
      /\ raft'.vote = raft.vote /\ raft'.committed = raft.snap /\ raft'.snap = raft.snap
  BY <1>0, <1>1, Zenon DEF Memories
<1>4. raft' \in Memories
  BY <1>0, <1>1, <1>2, Zenon DEF Memories
<1>5. UpTo(db.committed, raft.snap) /\ UpTo(db.purged, raft.snap)
  BY <1>0, <1>1, <1>2 DEF Agrees, Recoverable, UpTo, Fields
<1>6. Comparable(db.committed, raft.snap)
  BY <1>0, <1>1, <1>2 DEF Agrees, Comparable, UpTo, Fields
<1>7. Fits(db, raft.snap) /\ UpTo(raft.snap, raft.snap)
  BY <1>0, <1>1, <1>2 DEF Agrees, UpTo
<1>8. Recoverable(db, raft.snap)
  BY <1>1, <1>5, <1>6, <1>7, Zenon DEF Recoverable
<1>9. Agrees(db, raft', raft.snap)
  BY <1>0, <1>1, <1>3, <1>5, <1>7, Zenon DEF Agrees
<1>10. TypeOK'
  BY <1>0, <1>2, <1>4, Zenon DEF IInv, TypeOK, Memories
<1> QED
  BY <1>0, <1>8, <1>9, <1>10, Zenon DEF IInv

\* purge, after a snapshot was installed: it may cover the whole log.
LEMMA SnapshotPurgeStep ==
    ASSUME IInv, snapshot_purge
    PROVE  IInv'
<1> DEFINE id == applied
           t == do_purge(db, id)
           m == [raft EXCEPT !.pc = "running", !.purged = id, !.snap = NoLogId,
                             !.last = IF @.index < id.index THEN id ELSE @]
<1>0. raft.pc = "purge"
  BY Zenon DEF snapshot_purge
<1>1. /\ db \in Databases(LogIds) /\ raft \in Memories /\ WellFormed(db) /\ Fields(db)
      /\ Recoverable(db, applied) /\ Agrees(db, raft, applied)
      /\ applied \in LogIds /\ applied.index \in Nat /\ applied.leader \in Nat
  BY <1>0, Running, Zenon DEF IInv
<1>2. raft.snap = applied /\ raft.committed = applied
  BY <1>0, <1>1, Zenon DEF Agrees
<1>3. Write(t, m)
  BY <1>2, Zenon DEF snapshot_purge
<1>4. Fits(db, id) /\ UpTo(db.purged, id) /\ UpTo(id, id) /\ Comparable(id, id)
      /\ Comparable(db.committed, id)
  BY <1>1 DEF Recoverable, UpTo, Comparable
<1>5. /\ t \in Databases(LogIds) /\ WellFormed(t) /\ Recoverable(t, applied)
      /\ t.purged = id /\ t.vote = db.vote /\ t.committed = db.committed
      /\ last_log_id(t) = IF last_log_id(db).index <= id.index THEN id ELSE last_log_id(db)
      /\ \A x \in LogIds : Fits(db, x) /\ Comparable(id, x) => Fits(t, x)
  BY <1>1, <1>4, Purged, Zenon
<1>6. /\ raft.last = last_log_id(db) /\ raft.last \in LogIds
      /\ Comparable(id, raft.last)
      /\ raft.last.index \in Nat /\ raft.last.leader \in Nat
  BY <1>0, <1>1, <1>4, FitsLast, LogIdFields, Zenon DEF Agrees
<1>7. raft.last.index = id.index => raft.last = id
  BY <1>1, <1>6 DEF Comparable, LogIds
<1>8. /\ m.pc = "running" /\ m.purged = id /\ m.vote = raft.vote
      /\ m.committed = raft.committed
      /\ m.last = IF raft.last.index < id.index THEN id ELSE raft.last
  BY <1>1, Zenon DEF Memories
<1>9. m \in Memories
  <2>1. NoLogId \in LogIds
    BY LogStoreAssumption DEF NoLogId, LogId, LogIds
  <2> QED
    BY <1>1, <1>6, <2>1, Zenon DEF Memories
<1> HIDE DEF t, m
<1>10. m.last = last_log_id(t)
  BY <1>1, <1>5, <1>6, <1>7, <1>8, SMTT(180)
<1>11. UpTo(id, m.last)
  BY <1>1, <1>6, <1>8 DEF UpTo, Comparable
<1>12. Agrees(t, m, applied)
  BY <1>0, <1>1, <1>2, <1>4, <1>5, <1>8, <1>10, <1>11, Zenon DEF Agrees
<1>13. applied' = applied
  BY Zenon DEF snapshot_purge, IInv, TypeOK
<1> QED
  BY <1>0, <1>3, <1>5, <1>9, <1>12, <1>13, WriteKeeps, Zenon

\* A snapshot arrives: the log is cut if it conflicts.
LEMMA InstallStep ==
    ASSUME IInv, NEW id \in LogIds, install_snapshot(id)
    PROVE  IInv'
<1> DEFINE c == raft.committed.index + 1
           conflict == id.index <= raft.last.index /\ id # LogIdAt(id.index)
           memory == [raft EXCEPT !.pc = "install", !.snap = id]
<1>0. /\ raft.pc = "running" /\ id.index > raft.committed.index
      /\ id.leader \in raft.committed.leader..raft.vote
      /\ \/ id.leader >= raft.last.leader
         \/ id.index <= raft.last.index /\ id = LogIdAt(id.index)
      /\ applied' = applied
  BY Zenon DEF install_snapshot
<1>1. /\ db \in Databases(LogIds) /\ raft \in Memories /\ WellFormed(db) /\ Fields(db)
      /\ Recoverable(db, applied) /\ Agrees(db, raft, applied)
      /\ applied \in LogIds /\ applied.index \in Nat /\ applied.leader \in Nat
      /\ raft.committed \in LogIds
      /\ raft.committed.index \in Nat /\ raft.committed.leader \in Nat
  BY <1>0, Running, Zenon DEF IInv
<1>2. id.index \in Nat /\ id.leader \in Nat /\ UpTo(raft.committed, id)
  BY <1>0, <1>1, LogIdFields DEF UpTo
<1>3. PICK n \in Nat : Spans(db, n) /\ Ordered(db)
  BY <1>1, Zenon DEF WellFormed
<1>4. /\ raft.last = last_log_id(db) /\ raft.last.index = n /\ raft.last.leader \in Nat
      /\ db.purged.leader <= raft.last.leader
      /\ \A i \in DOMAIN db.logs : db.logs[i] <= raft.last.leader
  <2>1. raft.last = last_log_id(db)
    BY <1>0, <1>1, Zenon DEF Agrees
  <2>2. last_log_id(db).index = n
    BY <1>1, <1>3, LastLogId, Zenon
  <2>3. /\ db.purged.leader <= last_log_id(db).leader /\ last_log_id(db).leader \in Nat
        /\ \A i \in DOMAIN db.logs : db.logs[i] <= last_log_id(db).leader
    BY <1>1, <1>3, LastIsLatest, Zenon
  <2> QED
    BY <2>1, <2>2, <2>3, Zenon
<1>5. UpTo(db.purged, raft.committed)
  BY <1>0, <1>1 DEF Agrees, Recoverable, UpTo, Fields
<1>7. /\ db.purged.index \in Nat /\ db.purged.leader \in Nat
      /\ db.purged.index < id.index /\ db.purged.leader <= id.leader
  <2>1. db.purged.index \in Nat /\ db.purged.leader \in Nat
    BY <1>1, Zenon DEF Fields
  <2>2. raft.committed.leader <= id.leader /\ raft.committed.index < id.index
    BY <1>0, <1>2, Zenon DEF UpTo
  <2>3. db.purged.index <= raft.committed.index /\ db.purged.leader <= raft.committed.leader
    BY <1>5, Zenon DEF UpTo
  <2>4. raft.committed.index \in Nat /\ raft.committed.leader \in Nat
    BY <1>1, Zenon
  <2> QED
    BY <1>2, <2>1, <2>2, <2>3, <2>4
<1>8. CASE conflict
  <2> DEFINE t == do_truncate(db, c)
             m == [memory EXCEPT !.last = LogIdAt(raft.committed.index)]
  <2>1. Write(t, m)
    BY <1>8, Zenon DEF install_snapshot
  <2>2. c \in (raft.committed.index + 1)..raft.last.index /\ c - 1 = raft.committed.index
    <3>1. raft.committed.index \in Nat
      BY <1>1, Zenon
    <3>2. raft.committed.index < id.index
      BY <1>0, <1>2, <3>1, Zenon
    <3>3. id.index <= raft.last.index /\ raft.last.index \in Nat
      BY <1>4, <1>8, Zenon
    <3> QED
      BY <1>2, <3>1, <3>2, <3>3
  <2>3. /\ t \in Databases(LogIds) /\ WellFormed(t) /\ Recoverable(t, applied)
        /\ last_log_id(t) = LogIdAt(c - 1) /\ last_log_id(t) \in LogIds
        /\ t.purged = db.purged /\ t.vote = db.vote /\ t.committed = db.committed
        /\ DOMAIN t.logs = (db.purged.index + 1)..(c - 1)
        /\ \A j \in DOMAIN t.logs : j \in DOMAIN db.logs /\ t.logs[j] = db.logs[j]
        /\ \A x \in LogIds :
             Fits(db, x) => /\ Fits(t, x)
                            /\ x.index < c => UpTo(x, last_log_id(t))
    BY <1>0, <2>2, Truncated, Zenon
  <2>4. /\ m.pc = "install" /\ m.last = LogIdAt(raft.committed.index)
        /\ m.purged = raft.purged /\ m.vote = raft.vote
        /\ m.committed = raft.committed /\ m.snap = id
    BY <1>1, Zenon DEF Memories
  <2>5. m \in Memories
    BY <1>1, <2>2, <2>3, ZenonT(60) DEF Memories
  <2> HIDE DEF t, m
  <2>6. \A j \in DOMAIN t.logs : j < id.index /\ t.logs[j] <= id.leader
    <3> TAKE j \in DOMAIN t.logs
    <3>1. j \in DOMAIN db.logs /\ t.logs[j] = db.logs[j]
      BY <2>3, Zenon
    <3>2. j \in Nat /\ db.logs[j] \in Nat
      BY <1>1, <3>1, Zenon DEF Fields
    <3>3. j \in (db.purged.index + 1)..(c - 1)
      BY <2>3, Zenon
    <3>4. j <= raft.committed.index
      BY <1>1, <1>7, <3>3
    <3>5. db.logs[j] <= raft.committed.leader
      <4>1. Fits(db, raft.committed)
        BY <1>0, <1>1, Zenon DEF Agrees
      <4> QED
        BY <3>1, <3>4, <4>1, Zenon DEF Fits
    <3>6. raft.committed.leader <= id.leader
      BY <1>2, Zenon DEF UpTo
    <3>7. raft.committed.leader \in Nat /\ raft.committed.index \in Nat
      BY <1>1, Zenon
    <3>8. raft.committed.index < id.index
      BY <1>0, <1>2, <3>7, Zenon
    <3>9. j < id.index
      BY <1>2, <3>2, <3>4, <3>7, <3>8
    <3>10. db.logs[j] <= id.leader
      BY <1>2, <3>2, <3>5, <3>6, <3>7
    <3> QED
      BY <3>1, <3>9, <3>10, Zenon
  <2>7. Comparable(t.purged, id)
    <3>1. t.purged = db.purged
      BY <2>3, Zenon
    <3> QED
      BY <1>2, <1>7, <3>1 DEF Comparable
  <2>8. Fits(t, id)
    <3>1. \A j \in DOMAIN t.logs : j \in Nat
      BY <1>1, <2>3, Zenon DEF Fields
    <3> QED
      BY <1>2, <2>6, <2>7, <3>1 DEF Fits
  <2>9. raft.committed.index < c
    BY <1>1
  <2>10. Agrees(t, m, applied)
    BY <1>0, <1>1, <1>2, <2>2, <2>3, <2>4, <2>8, <2>9, Zenon DEF Agrees
  <2> QED
    BY <1>0, <2>1, <2>3, <2>5, <2>10, WriteKeeps, Zenon
<1>9. CASE ~conflict
  <2>1. raft' = memory /\ db' = db /\ disk' = disk
    BY <1>9, Zenon DEF install_snapshot
  <2>2. Fits(db, id)
    <3>1. CASE id.index <= raft.last.index
      <4>1. id = LogIdAt(id.index)
        BY <1>9, <3>1, Zenon
      <4>2. id.index \in DOMAIN db.logs
        BY <1>2, <1>3, <1>4, <1>7, <3>1 DEF Spans
      <4> QED
        BY <1>0, <4>1, <4>2, EntryFits, Zenon
    <3>2. CASE ~(id.index <= raft.last.index)
      <4>1. \A i \in DOMAIN db.logs : i < id.index
        <5>1. DOMAIN db.logs = (db.purged.index + 1)..n
          BY <1>3, Zenon DEF Spans
        <5>2. n < id.index
          BY <1>2, <1>4, <3>2
        <5> QED
          BY <1>2, <1>7, <5>1, <5>2
      <4>2. db.purged.index < id.index
        BY <1>7, Zenon
      <4>3. raft.last.leader <= id.leader
        BY <1>0, <1>2, <1>4, <3>2, Zenon
      <4>4. db.purged.leader <= id.leader /\ \A i \in DOMAIN db.logs : db.logs[i] <= id.leader
        BY <1>1, <1>2, <1>4, <4>3 DEF Fields
      <4> QED
        BY <1>1, <1>2, <4>1, <4>2, <4>4, SMTT(180) DEF Fits, Comparable, Fields
    <3> QED
      BY <3>1, <3>2, Zenon
  <2>3. /\ memory.pc = "install" /\ memory.last = raft.last
        /\ memory.purged = raft.purged /\ memory.vote = raft.vote
        /\ memory.committed = raft.committed /\ memory.snap = id
    BY <1>1, Zenon DEF Memories
  <2>4. memory \in Memories
    BY <1>1, Zenon DEF Memories
  <2> HIDE DEF memory
  <2>5. Agrees(db, memory, applied)
    BY <1>0, <1>1, <1>2, <2>2, <2>3, Zenon DEF Agrees
  <2>6. TypeOK'
    BY <1>0, <2>1, <2>4, Zenon DEF IInv, TypeOK, Memories
  <2> QED
    BY <1>0, <1>1, <2>1, <2>5, <2>6, Zenon DEF IInv
<1> QED
  BY <1>8, <1>9, Zenon

\* OpenRaft reads the database back, and purges a log that is behind.
LEMMA RestartStep ==
    ASSUME IInv, Restart
    PROVE  IInv'
<1> DEFINE last == last_log_id(db)
           behind == Before(last, applied)
           memory == [pc |-> "running", snap |-> NoLogId, vote |-> db.vote,
                      committed |-> Later(db.committed, applied),
                      last |-> IF behind THEN applied ELSE last,
                      purged |-> IF behind THEN applied ELSE db.purged]
<1>0. raft.pc = "stopped" /\ applied' = applied
  BY Zenon DEF Restart
<1>1. /\ db \in Databases(LogIds) /\ WellFormed(db) /\ Recoverable(db, applied)
      /\ applied \in LogIds /\ applied.index \in Nat /\ applied.leader \in Nat
  BY <1>0, LogIdFields, Zenon DEF IInv, TypeOK
<1>2. Fields(db)
  BY <1>0, <1>1, StoreFields, Zenon DEF IInv, TypeOK
<1>3. /\ Fits(db, applied) /\ Fits(db, db.committed) /\ UpTo(db.purged, applied)
      /\ UpTo(db.committed, last) /\ Comparable(db.committed, applied)
  BY <1>1, Zenon DEF Recoverable
<1>4. last \in LogIds /\ Comparable(applied, last)
  BY <1>1, <1>3, FitsLast, Zenon
<1>5. last.index \in Nat /\ last.leader \in Nat
      /\ db.committed \in LogIds /\ db.purged \in LogIds /\ db.vote \in 0..MaxLeader
      /\ db.committed.index \in Nat /\ db.committed.leader \in Nat
  BY <1>2, <1>4, LogIdFields, Zenon DEF Fields
<1> HIDE DEF last
<1>6. /\ Later(db.committed, applied) \in {db.committed, applied}
      /\ UpTo(db.committed, Later(db.committed, applied))
      /\ UpTo(applied, Later(db.committed, applied))
  BY <1>1, <1>3, <1>5 DEF Later, Before, Comparable, UpTo
<1>7. memory \in Memories
  <2>1. NoLogId \in LogIds
    BY LogStoreAssumption DEF NoLogId, LogId, LogIds
  <2>2. Later(db.committed, applied) \in LogIds
    BY <1>1, <1>5, <1>6, Zenon
  <2> QED
    BY <1>1, <1>4, <1>5, <2>1, <2>2, Zenon DEF Memories
<1>8. CASE behind
  <2> DEFINE t == do_purge(db, applied)
  <2>1. Write(t, memory)
    BY <1>8, Zenon DEF Restart, last
  <2>2. last.index < applied.index /\ last.leader <= applied.leader
    BY <1>1, <1>4, <1>5, <1>8 DEF Before, Comparable
  <2>3. Later(db.committed, applied) = applied
    BY <1>1, <1>3, <1>5, <2>2 DEF Later, Before, UpTo
  <2>4. UpTo(applied, applied) /\ Comparable(applied, applied)
    BY <1>1 DEF UpTo, Comparable
  <2>5. /\ t \in Databases(LogIds) /\ WellFormed(t) /\ Recoverable(t, applied)
        /\ t.purged = applied /\ t.vote = db.vote /\ t.committed = db.committed
        /\ last_log_id(t) = IF last.index <= applied.index THEN applied ELSE last
        /\ \A x \in LogIds : Fits(db, x) /\ Comparable(applied, x) => Fits(t, x)
    BY <1>1, <1>3, <2>4, Purged, Zenon DEF last
  <2>6. last_log_id(t) = applied
    BY <1>1, <1>5, <2>2, <2>5, SMTT(180)
  <2>7. /\ memory.pc = "running" /\ memory.last = applied /\ memory.purged = applied
        /\ memory.vote = db.vote /\ memory.committed = applied
    BY <1>8, <2>3, Zenon
  <2> HIDE DEF t, memory
  <2>8. UpTo(db.committed, applied)
    BY <1>6, <2>3, Zenon
  <2>9. Agrees(t, memory, applied)
    BY <1>1, <1>3, <2>4, <2>5, <2>6, <2>7, <2>8, Zenon DEF Agrees
  <2> QED
    BY <1>0, <1>2, <1>7, <2>1, <2>5, <2>9, WriteKeeps, Zenon
<1>9. CASE ~behind
  <2>1. raft' = memory /\ db' = db /\ disk' = disk
    BY <1>9, Zenon DEF Restart, last
  <2>2. UpTo(applied, last)
    BY <1>1, <1>4, <1>5, <1>9 DEF Before, Comparable, UpTo
  <2>3. /\ memory.pc = "running" /\ memory.last = last /\ memory.purged = db.purged
        /\ memory.vote = db.vote /\ memory.committed = Later(db.committed, applied)
    BY <1>9, Zenon
  <2> HIDE DEF memory
  <2>4. UpTo(memory.committed, last) /\ Fits(db, memory.committed)
    BY <1>3, <1>6, <2>2, <2>3, Zenon
  <2>5. Agrees(db, memory, applied)
    BY <1>6, <2>3, <2>4, Zenon DEF Agrees, last
  <2>6. TypeOK'
    BY <1>0, <1>7, <2>1, Zenon DEF IInv, TypeOK, Memories
  <2> QED
    BY <1>0, <1>1, <2>1, <2>5, <2>6, Zenon DEF IInv
<1> QED
  BY <1>8, <1>9, Zenon

\* Stopping, losing power and writing back.
LEMMA StopStep ==
    ASSUME IInv, WriteBack \/ PowerLoss \/ ProcessExit
    PROVE  IInv'
<1>1. CASE WriteBack
  <2>1. TypeOK'
    BY <1>1, Zenon DEF WriteBack, IInv, TypeOK
  <2> QED
    BY <1>1, <2>1, Zenon DEF WriteBack, IInv
<1>2. CASE PowerLoss
  <2>1. /\ raft' = Off("lost") /\ db' = disk /\ disk' = disk
        /\ applied' = applied
    BY <1>2, Zenon DEF PowerLoss
  <2>2. raft' \in Memories /\ raft'.pc = "lost" /\ Agrees(db', raft', applied')
    BY <2>1, OffAgrees, Zenon
  <2>3. TypeOK'
    BY <2>1, <2>2, Zenon DEF IInv, TypeOK, Memories
  <2> QED
    BY <2>1, <2>2, <2>3, Zenon DEF IInv
<1>3. CASE ProcessExit
  <2>1. /\ raft' = Off("stopped") /\ db' = db /\ disk' = disk /\ raft.pc # "lost"
        /\ applied' = applied
    BY <1>3, Zenon DEF ProcessExit
  <2>2. raft' \in Memories /\ Agrees(db', raft', applied')
    BY <2>1, OffAgrees, Zenon
  <2>3. TypeOK'
    BY <2>1, <2>2, Zenon DEF IInv, TypeOK, Memories
  <2> QED
    BY <2>1, <2>2, <2>3, Zenon DEF IInv
<1> QED
  BY <1>1, <1>2, <1>3, Zenon

-----------------------------------------------------------------------------
(* The theorems. *)

\* An empty database, with OpenRaft not started.
LEMMA Initially == Init => IInv
<1> SUFFICES ASSUME Init PROVE IInv
  BY Zenon
<1>1. NoLogId \in LogIds /\ NoLogId.index = 0 /\ NoLogId.leader = 0
  BY LogStoreAssumption DEF NoLogId, LogId, LogIds
<1>2. /\ EmptyDb.logs = << >> /\ EmptyDb.purged = NoLogId
      /\ EmptyDb.committed = NoLogId /\ EmptyDb.vote = 0
  BY Zenon DEF EmptyDb
<1>3. DOMAIN EmptyDb.logs = {}
  BY <1>2
<1>4. EmptyDb \in Databases(LogIds)
  <2>1. << >> \in [{} -> Leaders]
    OBVIOUS
  <2>2. << >> \in UNION {[S -> Leaders] : S \in SUBSET (1..MaxIndex)}
    BY <2>1, Zenon
  <2> QED
    BY <1>1, <2>2, LogStoreAssumption DEF EmptyDb, Databases
<1>5. Spans(EmptyDb, 0)
  BY <1>1, <1>2, <1>3, LogStoreAssumption DEF Spans
<1>6. WellFormed(EmptyDb)
  BY <1>3, <1>5, Zenon DEF WellFormed, Ordered
<1>7. last_log_id(EmptyDb) = NoLogId
  BY <1>2, <1>3, Zenon DEF last_log_id
<1>8. Recoverable(EmptyDb, NoLogId)
  BY <1>1, <1>2, <1>3, <1>7 DEF Recoverable, Fits, Comparable, UpTo
<1>9. Off("stopped") \in Memories /\ Agrees(EmptyDb, Off("stopped"), NoLogId)
  BY OffAgrees, Zenon
<1>10. TypeOK
  BY <1>1, <1>4, <1>9, LogStoreAssumption, Zenon DEF Init, TypeOK, Memories
<1> QED
  BY <1>6, <1>8, <1>9, <1>10, Zenon DEF Init, IInv

\* Every call of OpenRaft, and every way to stop, preserves the invariant.
LEMMA Inductive == IInv /\ [Next]_vars => IInv'
<1> SUFFICES ASSUME IInv, [Next]_vars PROVE IInv'
  BY Zenon
<1>1. CASE \E leader \in Leaders, n \in 1..2 : append(leader, n)
  BY <1>1, AppendStep, Zenon
<1>2. CASE \E i \in 1..MaxIndex : truncate(i)
  BY <1>2, TruncateStep, Zenon
<1>3. CASE \E v \in Leaders : save_vote(v)
  BY <1>3, VoteStep, Zenon
<1>4. CASE \E i \in 1..MaxIndex : save_committed(i) \/ apply(i) \/ purge(i)
  BY <1>4, CommittedStep, ApplyStep, PurgeStep, Zenon
<1>5. CASE \E id \in LogIds : install_snapshot(id)
  BY <1>5, InstallStep, Zenon
<1>6. CASE snapshot_installed \/ snapshot_purge
  BY <1>6, SnapshotInstalledStep, SnapshotPurgeStep, Zenon
<1>7. CASE WriteBack \/ PowerLoss \/ ProcessExit
  BY <1>7, StopStep, Zenon
<1>8. CASE Restart
  BY <1>8, RestartStep, Zenon
<1>9. CASE UNCHANGED vars
  BY <1>9, Zenon DEF vars, IInv, TypeOK
<1> QED
  BY <1>1, <1>2, <1>3, <1>4, <1>5, <1>6, <1>7, <1>8, <1>9, Zenon DEF Next

\* The invariant holds in every behaviour.
THEOREM Invariance == Spec => []IInv
BY Initially, Inductive, PTL DEF Spec

\* Types hold whatever OpenRaft calls: no call of the log store makes an entry,
\* a log id or a vote out of its range.
THEOREM TypeCorrect == Spec => []TypeOK
<1>1. IInv => TypeOK
  BY Zenon DEF IInv
<1> QED
  BY <1>1, Invariance, PTL

\* The stored log never has a gap, for logs of any length, after any failed
\* write, restart or power loss: do_append writes where get_log_state says the
\* log ends, and do_purge records the purged log id with the deletion.
THEOREM NoGap == Spec => []LogIsContiguous
<1>1. IInv => LogIsContiguous
  BY Zenon DEF IInv, WellFormed, Spans, LogIsContiguous
<1> QED
  BY <1>1, Invariance, PTL

\* The leaders along the stored log never go back: truncation removes what
\* conflicts before entries of a later leader are appended.
THEOREM LeadersGrow == Spec => []LeadersAreOrdered
<1>1. ASSUME IInv
      PROVE  LeadersAreOrdered
  <2>1. Fields(db) /\ Ordered(db)
    BY <1>1, StoreFields, Zenon DEF IInv, TypeOK, WellFormed
  <2> QED
    BY <2>1 DEF Ordered, LeadersAreOrdered, Fields
<1> QED
  BY <1>1, Invariance, PTL

\* What OpenRaft believes about its log is what a restart reads back: the last
\* and the purged log id of get_log_state, the vote of read_vote, and the
\* entries of try_get_log_entries.
THEOREM MemoryMatchesDisk == Spec => []MemoryIsStored
<1>1. ASSUME IInv, raft.pc = "running"
      PROVE  /\ raft.last = last_log_id(db) /\ raft.purged = db.purged /\ raft.vote = db.vote
             /\ {id.index : id \in do_try_get_log_entries(db, 0, raft.last.index + 1)}
                  = (raft.purged.index + 1)..raft.last.index
  <2>1. /\ db \in Databases(LogIds) /\ Fields(db) /\ Agrees(db, raft, applied)
        /\ \E n \in Nat : Spans(db, n)
    BY <1>1, Running, Zenon
  <2>2. PICK n \in Nat : Spans(db, n)
    BY <2>1, Zenon
  <2>3. /\ raft.last = last_log_id(db) /\ raft.purged = db.purged /\ raft.vote = db.vote
        /\ raft.last.index = n
    BY <1>1, <2>1, <2>2, LastLogId, Zenon DEF Agrees
  <2>4. DOMAIN db.logs = (db.purged.index + 1)..n /\ db.purged.index \in Nat
    BY <2>1, <2>2, Zenon DEF Spans, Fields
  <2>5. {j \in DOMAIN db.logs : 0 <= j /\ j < n + 1} = DOMAIN db.logs
    BY <2>4
  <2>6. do_try_get_log_entries(db, 0, n + 1) = {LogId(i, db.logs[i]) : i \in DOMAIN db.logs}
    BY <2>5, Zenon DEF do_try_get_log_entries
  <2>7. {id.index : id \in {LogId(i, db.logs[i]) : i \in DOMAIN db.logs}} = DOMAIN db.logs
    BY LogIdFields
  <2> QED
    BY <2>3, <2>4, <2>6, <2>7, Zenon
<1>2. IInv => MemoryIsStored
  BY <1>1, Zenon DEF MemoryIsStored
<1> QED
  BY <1>2, Invariance, PTL

-----------------------------------------------------------------------------
(* The database is a log as OpenRaft requires it. *)

\* A function on 1..n is a sequence of length n.
LEMMA FunctionIsSeq ==
    ASSUME NEW S, NEW n \in Nat, NEW f \in [1..n -> S]
    PROVE  f \in Seq(S) /\ Len(f) = n
OBVIOUS

LEMMA SameElements ==
    ASSUME NEW S, NEW s \in Seq(S), NEW t \in Seq(S),
           Len(s) = Len(t), \A i \in 1..Len(s) : s[i] = t[i]
    PROVE  s = t
OBVIOUS

\* A sequence with the elements of two others, one after the other.
LEMMA ConcatenationIs ==
    ASSUME NEW S, NEW s \in Seq(S), NEW t \in Seq(S), NEW u \in Seq(S),
           Len(u) = Len(s) + Len(t),
           \A i \in 1..Len(u) : u[i] = IF i <= Len(s) THEN s[i] ELSE t[i - Len(s)]
    PROVE  u = s \o t
<1>1. s \o t \in Seq(S) /\ Len(s \o t) = Len(s) + Len(t)
  OBVIOUS
<1>2. \A i \in 1..(Len(s) + Len(t)) : (s \o t)[i] = IF i <= Len(s) THEN s[i] ELSE t[i - Len(s)]
  OBVIOUS
<1> QED
  BY <1>1, <1>2, SameElements, Zenon

\* A sequence with the elements of another one from m to n.
LEMMA SegmentIs ==
    ASSUME NEW S, NEW s \in Seq(S), NEW u \in Seq(S),
           NEW m \in Nat \ {0}, NEW n \in Nat, n <= Len(s),
           Len(u) = (IF m <= n THEN n - m + 1 ELSE 0),
           \A i \in 1..Len(u) : u[i] = s[m + i - 1]
    PROVE  u = SubSeq(s, m, n)
<1>1. Len(s) \in Nat /\ Len(u) \in Nat
  OBVIOUS
<1>2. SubSeq(s, m, n) \in Seq(S)
  OBVIOUS
<1>3. Len(SubSeq(s, m, n)) = (IF m <= n THEN n - m + 1 ELSE 0)
  OBVIOUS
<1>4. \A i \in 1..Len(u) : u[i] = SubSeq(s, m, n)[i]
  OBVIOUS
<1> QED
  BY <1>2, <1>3, <1>4, SameElements, Zenon

\* The sequence of entries of a database, and what of it is never cut off.
Entries(s) ==
    [n \in 1..(last_log_id(s).index - s.purged.index) |-> s.logs[s.purged.index + n]]

Floor(s) == MaxOf(s.committed.index, s.purged.index)

LEMMA EntriesFacts ==
    ASSUME NEW s \in Databases(LogIds), NEW n \in Nat, Spans(s, n)
    PROVE  /\ Entries(s) \in Seq(Leaders) /\ Len(Entries(s)) = n - s.purged.index
           /\ n - s.purged.index \in Nat /\ s.purged.index \in Nat /\ n <= MaxIndex
           /\ \A k \in 1..(n - s.purged.index) : Entries(s)[k] = s.logs[s.purged.index + k]
<1>1. Fields(s) /\ last_log_id(s).index = n
  BY StoreFields, LastLogId, Zenon
<1>2. n - s.purged.index \in Nat /\ s.purged.index \in Nat /\ n <= MaxIndex
  BY <1>1, LogStoreAssumption DEF Fields, Spans
<1>3. \A k \in 1..(n - s.purged.index) : s.logs[s.purged.index + k] \in Leaders
  <2> TAKE k \in 1..(n - s.purged.index)
  <2>1. s.purged.index + k \in DOMAIN s.logs
    BY <1>2 DEF Spans
  <2> QED
    BY <1>1, <2>1, Zenon DEF Fields
<1>4. /\ Entries(s) \in [1..(n - s.purged.index) -> Leaders]
      /\ \A k \in 1..(n - s.purged.index) : Entries(s)[k] = s.logs[s.purged.index + k]
  BY <1>1, <1>3, Zenon DEF Entries
<1> QED
  BY <1>2, <1>4, FunctionIsSeq, Zenon

\* The steps of the abstract log, in terms of the database.
LEMMA AbstractSteps ==
    /\ \A new : Contract!Extend(new) <=>
         /\ Entries(db') = Entries(db) \o new /\ db'.purged.index = db.purged.index
         /\ Floor(db') = Floor(db) /\ db'.vote = db.vote
    /\ \A i : Contract!CutEnd(i) <=>
         /\ i \in Floor(db)..(db.purged.index + Len(Entries(db)))
         /\ Entries(db') = SubSeq(Entries(db), 1, i - db.purged.index)
         /\ db'.purged.index = db.purged.index /\ Floor(db') = Floor(db) /\ db'.vote = db.vote
    /\ \A i : Contract!CutBeginning(i) <=>
         /\ i > db.purged.index /\ db'.purged.index = i
         /\ Entries(db') = SubSeq(Entries(db), i - db.purged.index + 1, Len(Entries(db)))
         /\ Floor(db') = (IF Floor(db) < i THEN i ELSE Floor(db)) /\ db'.vote = db.vote
    /\ \A i : Contract!Secure(i) <=>
         /\ i \in Floor(db)..(db.purged.index + Len(Entries(db)))
         /\ Floor(db') = i /\ db'.purged.index = db.purged.index
         /\ Entries(db') = Entries(db) /\ db'.vote = db.vote
    /\ \A v : Contract!Promise(v) <=>
         /\ v > db.vote /\ db'.vote = v /\ db'.purged.index = db.purged.index
         /\ Entries(db') = Entries(db) /\ Floor(db') = Floor(db)
    /\ UNCHANGED Contract!logVars <=>
         /\ Entries(db') = Entries(db) /\ db'.purged.index = db.purged.index
         /\ Floor(db') = Floor(db) /\ db'.vote = db.vote
         /\ (raft'.pc # "lost") = (raft.pc # "lost")
BY Zenon DEF Contract!Extend, Contract!CutEnd, Contract!CutBeginning, Contract!Secure,
       Contract!Promise, Contract!logVars, Contract!End, Entries, Floor

\* The two databases are the same log.
Same(s, t) ==
    /\ Entries(t) = Entries(s) /\ t.purged.index = s.purged.index
    /\ Floor(t) = Floor(s) /\ t.vote = s.vote

\* do_append extends the sequence.
LEMMA AppendMaps ==
    ASSUME db \in Databases(LogIds), NEW n \in Nat, Spans(db, n),
           NEW leader \in Leaders, NEW k \in 1..2, n + k <= MaxIndex,
           db' = do_append(db, n + 1, leader, k)
    PROVE  Contract!Operation
<1> DEFINE new == [j \in 1..k |-> leader]
           p == db.purged.index
<1>1. /\ db' \in Databases(LogIds) /\ Spans(db', n + k)
      /\ db'.purged = db.purged /\ db'.vote = db.vote /\ db'.committed = db.committed
      /\ \A i \in DOMAIN db.logs : db'.logs[i] = db.logs[i]
      /\ \A i \in (n + 1)..(n + k) : db'.logs[i] = leader
  BY AppendSpans
<1>2. /\ Entries(db) \in Seq(Leaders) /\ Len(Entries(db)) = n - p
      /\ n - p \in Nat /\ p \in Nat
      /\ \A j \in 1..(n - p) : Entries(db)[j] = db.logs[p + j]
  BY EntriesFacts, Zenon
<1>3. /\ Entries(db') \in Seq(Leaders) /\ Len(Entries(db')) = (n + k) - p
      /\ \A j \in 1..((n + k) - p) : Entries(db')[j] = db'.logs[p + j]
  <2> DEFINE e == n + k
  <2>1. e \in Nat /\ db' \in Databases(LogIds) /\ Spans(db', e)
    BY <1>1
  <2> HIDE DEF e
  <2>2. /\ Entries(db') \in Seq(Leaders) /\ Len(Entries(db')) = e - db'.purged.index
        /\ \A j \in 1..(e - db'.purged.index) : Entries(db')[j] = db'.logs[db'.purged.index + j]
    BY <2>1, EntriesFacts, Zenon
  <2>3. db'.purged.index = p
    BY <1>1, Zenon
  <2>4. /\ Entries(db') \in Seq(Leaders) /\ Len(Entries(db')) = e - p
        /\ \A j \in 1..(e - p) : Entries(db')[j] = db'.logs[p + j]
    BY <2>2, <2>3, Zenon
  <2> HIDE DEF p
  <2> QED
    BY <2>4, Zenon DEF e
<1>4. new \in [1..k -> Leaders] /\ new \in Seq(Leaders) /\ Len(new) = k
  BY FunctionIsSeq
<1>5. \A j \in 1..((n + k) - p) :
        Entries(db')[j] = IF j <= n - p THEN Entries(db)[j] ELSE new[j - (n - p)]
  <2>0. DOMAIN db.logs = (p + 1)..n /\ p \in Nat
    BY <1>2, Zenon DEF Spans
  <2> HIDE DEF p
  <2> TAKE j \in 1..((n + k) - p)
  <2>1. CASE j <= n - p
    <3>1. j \in 1..(n - p) /\ p + j \in (p + 1)..n
      BY <2>0, <2>1
    <3> QED
      BY <1>1, <1>2, <1>3, <2>0, <2>1, <3>1, ZenonT(60)
  <2>2. CASE ~(j <= n - p)
    <3>1. j - (n - p) \in 1..k /\ p + j \in (n + 1)..(n + k)
      BY <2>0, <2>2
    <3> QED
      BY <1>1, <1>3, <2>2, <3>1, Zenon
  <2> QED
    BY <2>1, <2>2, Zenon
<1> HIDE DEF new, p
<1>6. Entries(db') = Entries(db) \o new
  <2>1. Len(Entries(db')) = Len(Entries(db)) + Len(new)
    <3>1. (n + k) - p = (n - p) + k
      BY <1>2
    <3> QED
      BY <1>2, <1>3, <1>4, <3>1, Zenon
  <2>2. \A j \in 1..Len(Entries(db')) :
          Entries(db')[j] = IF j <= Len(Entries(db)) THEN Entries(db)[j]
                            ELSE new[j - Len(Entries(db))]
    BY <1>2, <1>3, <1>5, Zenon
  <2> QED
    BY <1>2, <1>3, <1>4, <2>1, <2>2, ConcatenationIs, Zenon
<1>7. Contract!Extend(new)
  BY <1>1, <1>6, AbstractSteps, Zenon DEF Floor
<1> QED
  BY <1>4, <1>7, Zenon DEF Contract!Operation

\* do_truncate above the floor cuts the end off.
LEMMA TruncateMaps ==
    ASSUME db \in Databases(LogIds), NEW n \in Nat, Spans(db, n),
           NEW i \in (db.purged.index + 1)..n, Floor(db) < i, db' = do_truncate(db, i)
    PROVE  Contract!Operation
<1> DEFINE p == db.purged.index
<1>0. /\ Entries(db) \in Seq(Leaders) /\ Len(Entries(db)) = n - p
      /\ n - p \in Nat /\ p \in Nat /\ n <= MaxIndex
      /\ \A j \in 1..(n - p) : Entries(db)[j] = db.logs[p + j]
  BY EntriesFacts, Zenon
<1>1. i \in Nat /\ i - 1 \in Nat /\ i <= n
  BY <1>0
<1>2. /\ db' \in Databases(LogIds) /\ Spans(db', i - 1)
      /\ db'.purged = db.purged /\ db'.vote = db.vote /\ db'.committed = db.committed
      /\ \A j \in DOMAIN db'.logs : db'.logs[j] = db.logs[j]
  BY TruncateSpans, Zenon
<1>3. /\ Entries(db') \in Seq(Leaders) /\ Len(Entries(db')) = i - 1 - p /\ i - 1 - p \in Nat
      /\ \A j \in 1..(i - 1 - p) : Entries(db')[j] = db'.logs[p + j]
  <2>1. /\ Entries(db') \in Seq(Leaders) /\ Len(Entries(db')) = i - 1 - db'.purged.index
        /\ i - 1 - db'.purged.index \in Nat
        /\ \A j \in 1..(i - 1 - db'.purged.index) : Entries(db')[j] = db'.logs[db'.purged.index + j]
    BY <1>1, <1>2, EntriesFacts, Zenon
  <2>2. db'.purged.index = p
    BY <1>2, Zenon
  <2> QED
    BY <2>1, <2>2, Zenon
<1>4. \A j \in 1..(i - 1 - p) : Entries(db')[j] = Entries(db)[1 + j - 1]
  <2>0. p \in Nat /\ DOMAIN db'.logs = (p + 1)..(i - 1)
    BY <1>0, <1>2, Zenon DEF Spans
  <2> HIDE DEF p
  <2> TAKE j \in 1..(i - 1 - p)
  <2>1. j \in 1..(n - p) /\ p + j \in (p + 1)..(i - 1) /\ 1 + j - 1 = j
    BY <1>1, <2>0
  <2> QED
    BY <1>0, <1>2, <1>3, <2>0, <2>1, ZenonT(30)
<1>5. Entries(db') = SubSeq(Entries(db), 1, i - 1 - p)
  <2> DEFINE b == i - 1 - p
  <2>1. b \in Nat /\ b <= Len(Entries(db))
    BY <1>0, <1>1, <1>3
  <2>2. Len(Entries(db')) = IF 1 <= b THEN b - 1 + 1 ELSE 0
    BY <1>3
  <2>3. \A j \in 1..Len(Entries(db')) : Entries(db')[j] = Entries(db)[1 + j - 1]
    BY <1>3, <1>4, Zenon
  <2> HIDE DEF b
  <2>4. Entries(db') = SubSeq(Entries(db), 1, b)
    BY <1>0, <1>3, <2>1, <2>2, <2>3, SegmentIs
  <2> QED
    BY <2>4, Zenon DEF b
<1>6. i - 1 \in Floor(db)..(p + Len(Entries(db)))
  <2>1. Floor(db) \in Nat
    BY StoreFields, Zenon DEF Floor, MaxOf, Fields
  <2> QED
    BY <1>0, <1>1, <2>1
<1>7. Contract!CutEnd(i - 1)
  BY <1>2, <1>5, <1>6, AbstractSteps, Zenon DEF Floor
<1>8. i - 1 \in 0..MaxIndex
  BY <1>0, <1>1, LogStoreAssumption
<1> QED
  BY <1>7, <1>8, Zenon DEF Contract!Operation

\* do_purge cuts the beginning off, or deletes nothing.
LEMMA PurgeMaps ==
    ASSUME db \in Databases(LogIds), NEW n \in Nat, Spans(db, n),
           NEW id \in LogIds, db.purged.index <= id.index, db' = do_purge(db, id)
    PROVE  Contract!Operation \/ Same(db, db')
<1> DEFINE p == db.purged.index
           q == id.index
           e == MaxOf(n, q)
<1>0. /\ Entries(db) \in Seq(Leaders) /\ Len(Entries(db)) = n - p
      /\ n - p \in Nat /\ p \in Nat
      /\ \A j \in 1..(n - p) : Entries(db)[j] = db.logs[p + j]
  BY EntriesFacts, Zenon
<1>1. /\ db' \in Databases(LogIds) /\ Spans(db', e)
      /\ db'.purged = id /\ db'.vote = db.vote /\ db'.committed = db.committed
      /\ \A j \in DOMAIN db'.logs : db'.logs[j] = db.logs[j] /\ j > q
  BY PurgeSpans
<1>2. q \in Nat /\ q <= MaxIndex /\ db'.purged.index = q /\ db.committed.index \in Nat
  <2>1. id.index \in 0..MaxIndex
    BY Zenon DEF LogIds
  <2>2. db.committed.index \in Nat
    BY StoreFields, Zenon DEF Fields
  <2> QED
    BY <1>1, <2>1, <2>2, LogStoreAssumption
<1>3. e \in Nat /\ (e = q \/ e = n) /\ n <= e /\ q <= e
  BY <1>2 DEF MaxOf
<1> HIDE DEF e
<1>4. /\ Entries(db') \in Seq(Leaders) /\ Len(Entries(db')) = e - q /\ e - q \in Nat
      /\ \A j \in 1..(e - q) : Entries(db')[j] = db'.logs[q + j]
      /\ DOMAIN db'.logs = (q + 1)..e
  <2>1. /\ Entries(db') \in Seq(Leaders) /\ Len(Entries(db')) = e - db'.purged.index
        /\ e - db'.purged.index \in Nat
        /\ \A j \in 1..(e - db'.purged.index) : Entries(db')[j] = db'.logs[db'.purged.index + j]
    BY <1>1, <1>3, EntriesFacts, Zenon
  <2> QED
    BY <1>1, <1>2, <2>1, Zenon DEF Spans
<1> HIDE DEF p, q
<1>5. p <= q
  BY Zenon DEF p, q
<1>6. \A j \in 1..(e - q) : Entries(db')[j] = Entries(db)[(q - p + 1) + j - 1]
  <2> TAKE j \in 1..(e - q)
  <2>0. p \in Nat /\ q \in Nat /\ e \in Nat /\ j \in Nat /\ 1 <= j /\ j <= e - q
    BY <1>0, <1>2, <1>3
  <2>1. q + j \in (q + 1)..e
    BY <2>0
  <2>2. p + ((q - p + 1) + j - 1) = q + j
    BY <2>0
  <2>3. (q - p + 1) + j - 1 \in 1..(n - p)
    BY <1>3, <1>5, <2>0
  <2>4. Entries(db')[j] = db'.logs[q + j] /\ db'.logs[q + j] = db.logs[q + j]
    BY <1>1, <1>4, <2>1, Zenon
  <2>5. Entries(db)[(q - p + 1) + j - 1] = db.logs[p + ((q - p + 1) + j - 1)]
    BY <1>0, <2>3, Zenon
  <2> QED
    BY <2>2, <2>4, <2>5, Zenon
<1>7. CASE p = q
  <2>1. e - q = n - p /\ \A j \in 1..(e - q) : (q - p + 1) + j - 1 = j
    <3>1. e = n
      <4>1. p <= n
        BY <1>0
      <4> QED
        BY <1>0, <1>2, <1>3, <1>7, <4>1
    <3> QED
      BY <1>0, <1>2, <1>7, <3>1
  <2>2. Entries(db') = Entries(db)
    <3>1. \A j \in 1..Len(Entries(db)) : Entries(db')[j] = Entries(db)[j]
      BY <1>0, <1>6, <2>1, Zenon
    <3> QED
      BY <1>0, <1>4, <2>1, <3>1, SameElements, Zenon
  <2>3. Floor(db') = Floor(db) /\ db'.purged.index = db.purged.index
    BY <1>1, <1>2, <1>7, Zenon DEF Floor, p
  <2> QED
    BY <1>1, <2>2, <2>3, Zenon DEF Same
<1>8. CASE p # q
  <2>1. Entries(db') = SubSeq(Entries(db), q - p + 1, n - p)
    <3> DEFINE a == q - p + 1
               b == n - p
    <3>1. Len(Entries(db')) = IF a <= b THEN b - a + 1 ELSE 0
      BY <1>0, <1>2, <1>3, <1>4, <1>5
    <3>2. a \in Nat \ {0} /\ b \in Nat /\ b <= Len(Entries(db))
      BY <1>0, <1>2, <1>5
    <3>3. \A j \in 1..Len(Entries(db')) : Entries(db')[j] = Entries(db)[a + j - 1]
      BY <1>4, <1>6, Zenon
    <3> HIDE DEF a, b
    <3>4. Entries(db') = SubSeq(Entries(db), a, b)
      BY <1>0, <1>4, <3>1, <3>2, <3>3, SegmentIs
    <3> QED
      BY <3>4, Zenon DEF a, b
  <2>2. Floor(db') = IF Floor(db) < q THEN q ELSE Floor(db)
    <3>1. Floor(db') = MaxOf(db.committed.index, q) /\ Floor(db) = MaxOf(db.committed.index, p)
      BY <1>1, <1>2, Zenon DEF Floor, p
    <3> QED
      BY <1>0, <1>2, <1>5, <1>8, <3>1 DEF MaxOf
  <2>3. q > p
    BY <1>0, <1>2, <1>5, <1>8
  <2>4. Contract!CutBeginning(q)
    <3>1. /\ q > db.purged.index /\ db'.purged.index = q /\ db'.vote = db.vote
          /\ Entries(db') = SubSeq(Entries(db), q - db.purged.index + 1, Len(Entries(db)))
      BY <1>0, <1>1, <1>2, <2>1, <2>3, Zenon DEF p
    <3> QED
      BY <2>2, <3>1, AbstractSteps, Zenon
  <2>5. q \in 0..MaxIndex
    BY <1>2, LogStoreAssumption
  <2> QED
    BY <2>4, <2>5, Zenon DEF Contract!Operation
<1> QED
  BY <1>7, <1>8, Zenon

\* A step before a power loss changes the log as the contract allows.
LEMMA IntactStep ==
    ASSUME raft.pc # "lost", raft'.pc # "lost",
           Contract!Operation \/ Same(db, db')
    PROVE  [Contract!LogNext]_(Contract!logVars)
<1>1. CASE Contract!Operation
  BY <1>1, Zenon DEF Contract!LogNext
<1>2. CASE Same(db, db')
  BY <1>2, AbstractSteps, Zenon DEF Same
<1> QED
  BY <1>1, <1>2, Zenon

LEMMA WriteMaps ==
    ASSUME raft.pc # "lost", NEW new, NEW memory, Write(new, memory), memory.pc # "lost",
           db' = new => Contract!Operation \/ Same(db, db')
    PROVE  [Contract!LogNext]_(Contract!logVars)
<1>1. raft'.pc # "lost"
  BY DEF Write, Off
<1>2. db' = new \/ db' = db
  BY Zenon DEF Write
<1>3. db' = db => Same(db, db')
  BY Zenon DEF Same
<1> QED
  BY <1>1, <1>2, <1>3, IntactStep, Zenon

\* The floor is committed, as far as OpenRaft knows.
LEMMA FloorIsCommitted ==
    ASSUME IInv, raft.pc = "running"
    PROVE  /\ Floor(db) <= raft.committed.index /\ db.purged.index <= raft.committed.index
           /\ Floor(db) \in Nat /\ db.purged.index <= Floor(db)
<1>1. /\ Fields(db) /\ Recoverable(db, applied) /\ Agrees(db, raft, applied)
      /\ applied.index \in Nat /\ raft.committed.index \in Nat
  BY Running, Zenon
<1>2. /\ db.purged.index \in Nat /\ db.committed.index \in Nat
      /\ db.purged.index <= applied.index /\ applied.index <= raft.committed.index
      /\ db.committed.index <= raft.committed.index
  BY <1>1, Zenon DEF Fields, Recoverable, Agrees, UpTo
<1> QED
  BY <1>1, <1>2 DEF Floor, MaxOf

LEMMA CallsMap ==
    ASSUME IInv, raft.pc = "running"
    PROVE  /\ \A leader \in Leaders, k \in 1..2 :
                append(leader, k) => [Contract!LogNext]_(Contract!logVars)
           /\ \A i \in 1..MaxIndex :
                truncate(i) \/ save_committed(i) \/ purge(i) => [Contract!LogNext]_(Contract!logVars)
           /\ \A v \in Leaders : save_vote(v) => [Contract!LogNext]_(Contract!logVars)
           /\ \A id \in LogIds : install_snapshot(id) => [Contract!LogNext]_(Contract!logVars)
<1>1. db \in Databases(LogIds) /\ raft \in Memories /\ Fields(db) /\ Agrees(db, raft, applied)
  BY Running, Zenon
<1>2. PICK n \in Nat : Spans(db, n)
  BY Running, Zenon
<1>3. /\ raft.last.index = n /\ raft.vote = db.vote /\ raft.purged = db.purged
      /\ n <= MaxIndex /\ DOMAIN db.logs = (db.purged.index + 1)..n
  <2>1. raft.last = last_log_id(db) /\ raft.vote = db.vote /\ raft.purged = db.purged
    BY <1>1, Zenon DEF Agrees
  <2>2. last_log_id(db).index = n
    BY <1>1, <1>2, LastLogId, Zenon
  <2>3. n <= MaxIndex
    BY <1>1, <1>2, EntriesFacts, Zenon
  <2>4. DOMAIN db.logs = (db.purged.index + 1)..n
    BY <1>2, Zenon DEF Spans
  <2> QED
    BY <2>1, <2>2, <2>3, <2>4, Zenon
<1>4. /\ Floor(db) <= raft.committed.index /\ db.purged.index <= raft.committed.index
      /\ Floor(db) \in Nat /\ db.purged.index <= Floor(db)
      /\ raft.committed.index \in Nat /\ db.purged.index \in Nat
  BY <1>1, FloorIsCommitted, Running, Zenon DEF Fields
<1>5. ASSUME NEW leader \in Leaders, NEW k \in 1..2, append(leader, k)
      PROVE  [Contract!LogNext]_(Contract!logVars)
  <2> DEFINE m == [raft EXCEPT !.last = LogId(raft.last.index + 1 + k - 1, leader)]
             new == do_append(db, n + 1, leader, k)
  <2>1. Write(new, m) /\ n + 1 + k - 1 <= MaxIndex
    BY <1>3, <1>5, Zenon DEF append
  <2>2. m.pc = "running"
    BY <1>1, Zenon DEF Memories
  <2>3. n + k <= MaxIndex
    BY <2>1, LogStoreAssumption
  <2>4. db' = new => Contract!Operation
    BY <1>1, <1>2, <2>3, AppendMaps, Zenon
  <2> HIDE DEF m, new
  <2> QED
    BY <2>1, <2>2, <2>4, WriteMaps, Zenon
<1>6. ASSUME NEW i \in (raft.committed.index + 1)..raft.last.index, db' = do_truncate(db, i)
      PROVE  Contract!Operation
  <2>1. i \in (db.purged.index + 1)..n /\ Floor(db) < i
    BY <1>3, <1>4
  <2> QED
    BY <1>1, <1>2, <1>6, <2>1, TruncateMaps, Zenon
<1>7. ASSUME NEW i \in 1..MaxIndex, truncate(i)
      PROVE  [Contract!LogNext]_(Contract!logVars)
  <2> DEFINE m == [raft EXCEPT !.last = LogIdAt(i - 1)]
             new == do_truncate(db, i)
  <2>1. Write(new, m) /\ i \in (raft.committed.index + 1)..raft.last.index
    BY <1>7, Zenon DEF truncate
  <2>2. m.pc = "running"
    BY <1>1, Zenon DEF Memories
  <2>3. db' = new => Contract!Operation
    BY <1>6, <2>1, Zenon
  <2> HIDE DEF m, new
  <2> QED
    BY <2>1, <2>2, <2>3, WriteMaps, Zenon
<1>8. ASSUME NEW i \in 1..MaxIndex, save_committed(i)
      PROVE  [Contract!LogNext]_(Contract!logVars)
  <2> DEFINE m == [raft EXCEPT !.committed = LogIdAt(i)]
             new == do_save_committed(db, LogIdAt(i))
  <2>1. Write(new, m) /\ i \in (raft.committed.index + 1)..raft.last.index
    BY <1>8, Zenon DEF save_committed
  <2>2. m.pc = "running"
    BY <1>1, Zenon DEF Memories
  <2>3. i \in DOMAIN db.logs /\ i \in (db.purged.index + 1)..n /\ i > Floor(db)
    BY <1>3, <1>4, <2>1
  <2>4. LogIdAt(i) \in LogIds /\ LogIdAt(i).index = i
    BY <2>3, EntryFits, LogIdFields, Zenon
  <2>5. /\ new.logs = db.logs /\ new.purged = db.purged /\ new.committed = LogIdAt(i)
        /\ new.vote = db.vote
    BY <1>1, <2>4, CommittedSaved, Zenon
  <2> HIDE DEF m, new
  <2>6. ASSUME db' = new PROVE Contract!Operation
    <3>1. Entries(db') = Entries(db)
      BY <2>5, <2>6, Zenon DEF Entries, last_log_id
    <3>2. Floor(db') = i
      BY <1>4, <2>3, <2>4, <2>5, <2>6 DEF Floor, MaxOf
    <3>3. Len(Entries(db)) = n - db.purged.index
      BY <1>1, <1>2, EntriesFacts, Zenon
    <3>4. i \in Floor(db)..(db.purged.index + Len(Entries(db)))
      BY <1>4, <2>3, <3>3
    <3>5. Contract!Secure(i)
      BY <2>5, <2>6, <3>1, <3>2, <3>4, AbstractSteps, Zenon
    <3> QED
      BY <3>5 DEF Contract!Operation
  <2> QED
    BY <2>1, <2>2, <2>6, WriteMaps, Zenon
<1>9. ASSUME NEW i \in 1..MaxIndex, purge(i)
      PROVE  [Contract!LogNext]_(Contract!logVars)
  <2> DEFINE m == [raft EXCEPT !.purged = LogIdAt(i)]
             new == do_purge(db, LogIdAt(i))
  <2>1. Write(new, m) /\ i \in DOMAIN db.logs
    BY <1>9, Zenon DEF purge
  <2>2. m.pc = "running"
    BY <1>1, Zenon DEF Memories
  <2>3. LogIdAt(i) \in LogIds /\ LogIdAt(i).index = i
    BY <2>1, EntryFits, LogIdFields, Zenon
  <2>4. db.purged.index <= i
    BY <1>3, <1>4, <2>1
  <2>5. db' = new => Contract!Operation \/ Same(db, db')
    BY <1>1, <1>2, <2>3, <2>4, PurgeMaps, Zenon
  <2> HIDE DEF m, new
  <2> QED
    BY <2>1, <2>2, <2>5, WriteMaps, Zenon
<1>10. ASSUME NEW v \in Leaders, save_vote(v)
       PROVE  [Contract!LogNext]_(Contract!logVars)
  <2> DEFINE m == [raft EXCEPT !.vote = v]
             new == do_save_vote(db, v)
  <2>1. Write(new, m) /\ v > db.vote
    BY <1>3, <1>10, Zenon DEF save_vote
  <2>2. m.pc = "running"
    BY <1>1, Zenon DEF Memories
  <2>3. new.logs = db.logs /\ new.purged = db.purged /\ new.committed = db.committed /\ new.vote = v
    <3>1. v \in 0..MaxLeader
      BY LogStoreAssumption DEF Leaders
    <3> QED
      BY <1>1, <3>1, VoteSaved, Zenon
  <2> HIDE DEF m, new
  <2>4. ASSUME db' = new PROVE Contract!Operation
    <3>1. Entries(db') = Entries(db) /\ Floor(db') = Floor(db)
      BY <2>3, <2>4, Zenon DEF Entries, last_log_id, Floor
    <3>2. Contract!Promise(v)
      BY <2>1, <2>3, <2>4, <3>1, AbstractSteps, Zenon
    <3> QED
      BY <3>2, Zenon DEF Contract!Operation
  <2> QED
    BY <2>1, <2>2, <2>4, WriteMaps, Zenon
<1>11. ASSUME NEW id \in LogIds, install_snapshot(id)
       PROVE  [Contract!LogNext]_(Contract!logVars)
  <2> DEFINE c == raft.committed.index + 1
             memory == [raft EXCEPT !.pc = "install", !.snap = id]
             m == [memory EXCEPT !.last = LogIdAt(raft.committed.index)]
             conflict == id.index <= raft.last.index /\ id # LogIdAt(id.index)
             new == do_truncate(db, c)
  <2>1. memory.pc = "install" /\ m.pc = "install"
    BY <1>1, Zenon DEF Memories
  <2>2. CASE conflict
    <3>1. Write(new, m) /\ id.index > raft.committed.index
      BY <1>11, <2>2, Zenon DEF install_snapshot
    <3>2. c \in (raft.committed.index + 1)..raft.last.index
      BY <1>3, <1>4, <2>2, <3>1, LogIdFields
    <3>3. db' = new => Contract!Operation
      BY <1>6, <3>2, Zenon
    <3> HIDE DEF m, new
    <3> QED
      BY <2>1, <3>1, <3>3, WriteMaps, Zenon
  <2>3. CASE ~conflict
    <3>1. raft' = memory /\ db' = db
      BY <1>11, <2>3, Zenon DEF install_snapshot
    <3>2. raft'.pc # "lost" /\ Same(db, db')
      BY <2>1, <3>1, Zenon DEF Same
    <3> QED
      BY <3>2, IntactStep, Zenon
  <2> QED
    BY <2>2, <2>3, Zenon
<1> QED
  BY <1>5, <1>7, <1>8, <1>9, <1>10, <1>11, Zenon

LEMMA SnapshotPurgeMaps ==
    ASSUME IInv, snapshot_purge
    PROVE  [Contract!LogNext]_(Contract!logVars)
<1> DEFINE id == raft.snap
           m == [raft EXCEPT !.pc = "running", !.purged = id, !.snap = NoLogId,
                             !.last = IF @.index < id.index THEN id ELSE @]
           new == do_purge(db, id)
<1>1. raft.pc = "purge" /\ Write(new, m)
  BY Zenon DEF snapshot_purge
<1>2. /\ db \in Databases(LogIds) /\ raft \in Memories
      /\ Recoverable(db, applied) /\ Agrees(db, raft, applied) /\ applied \in LogIds
  BY <1>1, Running, Zenon
<1>3. PICK n \in Nat : Spans(db, n)
  BY <1>1, Running, Zenon
<1>4. m.pc = "running"
  BY <1>2, Zenon DEF Memories
<1>5. id = applied /\ db.purged.index <= applied.index
  BY <1>1, <1>2, Zenon DEF Agrees, Recoverable, UpTo
<1>6. db' = new => Contract!Operation \/ Same(db, db')
  BY <1>2, <1>3, <1>5, PurgeMaps, Zenon
<1> HIDE DEF m, new
<1> QED
  BY <1>1, <1>4, <1>6, WriteMaps, Zenon

\* A restart purges a log that ends before what is applied.
LEMMA RestartMaps ==
    ASSUME IInv, Restart
    PROVE  [Contract!LogNext]_(Contract!logVars)
<1> DEFINE last == last_log_id(db)
           behind == Before(last, applied)
           m == [pc |-> "running", snap |-> NoLogId, vote |-> db.vote,
                 committed |-> Later(db.committed, applied),
                 last |-> IF behind THEN applied ELSE last,
                 purged |-> IF behind THEN applied ELSE db.purged]
           new == do_purge(db, applied)
<1>1. /\ raft.pc = "stopped" /\ m.pc = "running"
      /\ (behind /\ Write(new, m)) \/ (raft' = m /\ db' = db)
  BY Zenon DEF Restart
<1>2. db \in Databases(LogIds) /\ WellFormed(db) /\ Recoverable(db, applied) /\ applied \in LogIds
  BY <1>1, Zenon DEF IInv, TypeOK
<1>3. PICK n \in Nat : Spans(db, n)
  BY <1>2, Zenon DEF WellFormed
<1>4. db.purged.index <= applied.index
  BY <1>2, Zenon DEF Recoverable, UpTo
<1>5. db' = new => Contract!Operation \/ Same(db, db')
  BY <1>2, <1>3, <1>4, PurgeMaps, Zenon
<1> HIDE DEF m, new
<1>6. CASE Write(new, m)
  BY <1>1, <1>5, <1>6, WriteMaps, Zenon
<1>7. CASE raft' = m /\ db' = db
  BY <1>1, <1>7, IntactStep, Zenon DEF Same
<1> QED
  BY <1>1, <1>6, <1>7, Zenon

\* Steps that leave the database alone, and a power loss.
LEMMA OtherStepsMap ==
    ASSUME IInv,
           \/ \E i \in 1..MaxIndex : apply(i)
           \/ snapshot_installed \/ WriteBack \/ PowerLoss \/ ProcessExit \/ UNCHANGED vars
    PROVE  [Contract!LogNext]_(Contract!logVars)
<1>1. CASE PowerLoss
  <2>1. raft.pc # "lost" /\ raft'.pc = "lost"
    BY <1>1, Zenon DEF PowerLoss, Off
  <2> QED
    BY <2>1, Zenon DEF Contract!LogNext
<1>2. CASE ~PowerLoss
  <2>1. db' = db
    BY <1>2, Zenon DEF apply, snapshot_installed, WriteBack, ProcessExit, vars
  <2>2. (raft'.pc # "lost") = (raft.pc # "lost")
    <3>1. CASE raft' = raft
      BY <3>1, Zenon
    <3>2. CASE snapshot_installed
      <4>1. raft \in Memories
        BY Zenon DEF IInv, TypeOK, Memories
      <4> QED
        BY <3>2, <4>1, Zenon DEF snapshot_installed, Memories
    <3>3. CASE ProcessExit
      BY <3>3, Zenon DEF ProcessExit, Off
    <3> QED
      BY <1>2, <3>1, <3>2, <3>3, Zenon DEF apply, WriteBack, vars
  <2> QED
    BY <2>1, <2>2, AbstractSteps, Zenon
<1> QED
  BY <1>1, <1>2, Zenon

\* The log store implements the log that OpenRaft requires: key ranges of a
\* column family (do_append, do_truncate, do_purge) are a sequence cut at its
\* ends, and neither a failed write nor a restart takes back an entry, what is
\* committed or a vote.  Only a power loss may.
THEOREM LogRefinement == Spec => ImplementsRaftLog
<1>1. Init => Contract!LogInit
  <2> SUFFICES ASSUME Init PROVE Contract!LogInit
    BY Zenon
  <2>1. /\ db.logs = << >> /\ db.purged = NoLogId /\ db.committed = NoLogId /\ db.vote = 0
        /\ raft.pc = "stopped" /\ NoLogId.index = 0
    BY Zenon DEF Init, EmptyDb, Off, NoLogId, LogId
  <2>2. last_log_id(db).index = 0
    BY <2>1 DEF last_log_id
  <2>3. Entries(db) = << >>
    BY <2>1, <2>2 DEF Entries
  <2> QED
    BY <2>1, <2>3, Zenon DEF Contract!LogInit, Entries, MaxOf
<1>2. IInv /\ [Next]_vars => [Contract!LogNext]_(Contract!logVars)
  <2> SUFFICES ASSUME IInv, [Next]_vars PROVE [Contract!LogNext]_(Contract!logVars)
    BY Zenon
  <2>1. CASE raft.pc = "running" /\
             \/ \E leader \in Leaders, n \in 1..2 : append(leader, n)
             \/ \E i \in 1..MaxIndex : truncate(i) \/ save_committed(i) \/ purge(i)
             \/ \E v \in Leaders : save_vote(v)
             \/ \E id \in LogIds : install_snapshot(id)
    BY <2>1, CallsMap, Zenon
  <2>2. CASE snapshot_purge
    BY <2>2, SnapshotPurgeMaps, Zenon
  <2>3. CASE Restart
    BY <2>3, RestartMaps, Zenon
  <2>4. CASE \/ \E i \in 1..MaxIndex : apply(i)
             \/ snapshot_installed \/ WriteBack \/ PowerLoss \/ ProcessExit \/ UNCHANGED vars
    BY <2>4, OtherStepsMap, Zenon
  <2> QED
    BY <2>1, <2>2, <2>3, <2>4, Zenon DEF Next, append, truncate, save_vote, save_committed, purge,
       install_snapshot
<1> QED
  BY <1>1, <1>2, Invariance, PTL DEF Spec, ImplementsRaftLog, Contract!LogSpec
=============================================================================
