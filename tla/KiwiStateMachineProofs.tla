----------------------- MODULE KiwiStateMachineProofs -----------------------
(***************************************************************************)
(* The safety of KiwiStateMachine for every log, every number of instances *)
(* and commands, on a file system that keeps renames in order: the         *)
(* inductive invariant and the lemmas about the log that it rests on, the  *)
(* initial states, one lemma per action, and the theorems at the end.      *)
(***************************************************************************)
EXTENDS KiwiStateMachine, TLAPS

-----------------------------------------------------------------------------
(* The inductive invariant *)

\* Steps of an installation that owns the state gate, the publication gate.
HoldsState ==
    {"marker", "swap", "remove", "rename", "open", "tar", "meta", "sync",
     "cleanup", "removePrimary", "syncPrimary", "removeCleanup", "resume"}
HoldsPublication == {"pause", "drain", "state"} \union HoldsState
Installing == {"publication"} \union HoldsPublication

\* Steps with a durable marker; steps with the restored Storage in the slot;
\* steps after the installed snapshot has been published.
Marked == HoldsState \ {"marker", "resume"}
Published == {"cleanup", "removePrimary", "syncPrimary", "removeCleanup", "resume"}
Restored == {"tar", "meta", "sync"} \union Published

Building == {"checkpoint", "tar", "meta", "sync"}

SnapshotFiles == [tar : SnapshotData \union {NoFile}, meta : SnapshotMeta \union {NoFile}]

Typed ==
    /\ db \in dbMay /\ dbMay \subseteq Content \union {Broken}
    /\ mark \in markMay /\ markMay \subseteq {"none", "primary", "both", "cleanup"}
    /\ current \in currentMay /\ currentMay \subseteq SnapshotFiles
    /\ purged \in Index /\ reported \in Index
    /\ status \in {"up", "down", "blocked"}
    /\ worker \in {"idle", "dead"} \union Installing
    /\ lastApplied \in Index /\ lastMembership \in Index
    /\ slot \in {"open", "placeholder"} /\ hook \in {"set", "unset"}
    /\ gate \in {"open", "closing", "closed"}
    /\ user \in [Users -> {"idle", "running", "waiting"}]
    /\ stateGate \in {"free", "builder", "install"}
    /\ publicationGate \in {"free", "builder", "install"}
    /\ builder \in {"idle", "returned", "failed"} \union Building
    /\ builderOwns \in {"none", "live", "old"}
    /\ snapshotIdx \in 0..MaxBuilds
    /\ builder # "idle" => built \in [meta : SnapshotMeta, tar : SnapshotData \union {NoFile}]
    /\ builder \in {"tar", "meta", "sync"} => built.tar \in SnapshotData
    /\ worker \in Installing => incoming \in [meta : SnapshotMeta, tar : SnapshotData]

\* Who owns the two gates, and what the access gate lets through.
Owners ==
    /\ stateGate = "builder" <=> builder = "checkpoint"
    /\ stateGate = "install" <=> worker \in HoldsState
    /\ publicationGate = "builder" <=> builder \in Building
    /\ publicationGate = "install" <=> worker \in HoldsPublication
    /\ worker \in {"idle", "publication", "pause"} => gate = "open"
    /\ worker = "drain" => gate = "closing"
    /\ worker \in HoldsState \union {"state"} => gate = "closed"
    /\ gate = "closed" => \A u \in Users : user[u] = "idle"
    /\ worker \in Marked => "none" \notin markMay
    /\ status # "up" => /\ worker = "idle" /\ builder = "idle"
                        /\ \A u \in Users : user[u] = "idle"

\* Any restart without a marker finds a consistent disk.
Recoverable ==
    \A d \in dbMay, c \in currentMay :
        /\ d # Broken
        /\ Covers(d, LoadCurrent(c).idx)
        /\ IsLastWrite(Member, LoadCurrent(c).idx, LoadCurrent(c).mem)
        /\ purged <= LoadCurrent(c).idx

\* The state machine serves a complete Storage that a restart would find.
Serving == slot = "open" /\ hook = "set" /\ Recoverable

Condition ==
    /\ status # "up" => ("none" \in markMay => Recoverable)
    /\ status = "up" =>
        /\ worker \notin {"dead"} \union (HoldsState \ {"marker", "swap"}) => Serving
        /\ worker \in Published => Serving
        /\ worker = "dead" => Serving \/ ("none" \notin markMay /\ gate = "closed")
        /\ builder \in Building => Serving

\* The applied state and the Storage in the slot.
Slot ==
    status = "up" =>
        /\ IsLastWrite(Member, lastApplied, lastMembership)
        /\ slot = "open" =>
            /\ hook = "set"
            /\ Broken \notin dbMay
            /\ Covers(db, lastApplied)

\* The snapshot files: in order, replayable, behind last_applied and not
\* behind what Raft has been told.
Files ==
    /\ \A c \in currentMay :
        /\ c.tar = NoFile => c.meta = NoFile
        /\ c.tar # NoFile => Covers(c.tar.data, c.tar.idx)
        /\ status = "up" => /\ LoadCurrent(c).idx <= lastApplied
                            /\ reported <= LoadCurrent(c).idx
    /\ status = "up" => purged <= reported
    /\ status # "up" => currentMay = {current}

\* A snapshot being built.
Build ==
    /\ builder # "idle" => built.meta.idx <= lastApplied
    /\ builder \in Building =>
        /\ IsLastWrite(Member, built.meta.idx, built.meta.mem)
        /\ reported <= built.meta.idx
    /\ builder = "checkpoint" => built.meta.idx = lastApplied
    /\ builder \in {"tar", "meta", "sync"} =>
        /\ Covers(built.tar.data, built.tar.idx)
        /\ \A d \in dbMay : Covers(d, built.meta.idx)
    /\ builder = "meta" => current.tar # NoFile
    /\ builder = "sync" => LoadCurrent(current) = built.meta
    /\ builder = "returned" => \A c \in currentMay : built.meta.idx <= LoadCurrent(c).idx

\* A snapshot being installed.
Install ==
    /\ worker \in Installing =>
        /\ incoming.tar.idx = incoming.meta.idx
        /\ Covers(incoming.tar.data, incoming.tar.idx)
        /\ IsLastWrite(Member, incoming.meta.idx, incoming.meta.mem)
        /\ lastApplied <= incoming.meta.idx
    /\ worker \in {"open"} \union Restored =>
        \A d \in dbMay : d # Broken /\ Covers(d, incoming.meta.idx)
    /\ worker \in {"remove", "rename", "open"} => slot = "placeholder"
    /\ worker \in Restored => slot = "open" /\ lastApplied = incoming.meta.idx
    /\ worker = "meta" => current.tar # NoFile
    /\ worker = "sync" => LoadCurrent(current) = incoming.meta
    /\ worker \in Published => \A c \in currentMay : LoadCurrent(c) = incoming.meta

Safe == Typed /\ Owners /\ Condition /\ Slot /\ Files /\ Build /\ Install

-----------------------------------------------------------------------------
(* Lemmas about the log *)

\* What covers a prefix of the log covers every shorter prefix.
LEMMA CoversLess ==
    ASSUME NEW d \in Content, NEW n \in Index, NEW m \in Index, m <= n, Covers(d, n)
    PROVE  Covers(d, m)
<1>1. ASSUME NEW k \in Keys, NEW w \in Nat,
             IsLastWrite(k, n, w) \/ (w \in (n + 1)..LogLen /\ Log[w] = k)
      PROVE  IsLastWrite(k, m, w) \/ (w \in (m + 1)..LogLen /\ Log[w] = k)
    <2>1. CASE w <= m
        BY <1>1, <2>1, LogLenNat DEF IsLastWrite, Index
    <2>2. CASE m < w
        BY <1>1, <2>2, LogLenNat DEF IsLastWrite, Index
    <2> QED BY <2>1, <2>2 DEF Index
<1>2. \A k \in Keys : d[k] \in Nat
    BY LogLenNat DEF Content, Local
<1> QED BY <1>1, <1>2, Zenon DEF Covers

\* Applying an entry behind the covered prefix leaves the prefix covered.
LEMMA CoversWrite ==
    ASSUME NEW d \in Content, NEW n \in Index, NEW i \in 1..LogLen, n < i,
           Log[i] \in Keys, Covers(d, n)
    PROVE  Covers([d EXCEPT ![Log[i]] = i], n)
<1> DEFINE e == [d EXCEPT ![Log[i]] = i]
<1> SUFFICES ASSUME NEW k \in Keys
             PROVE \/ IsLastWrite(k, n, e[k])
                   \/ e[k] \in (n + 1)..LogLen /\ Log[e[k]] = k
    BY Zenon DEF Covers
<1>1. CASE k = Log[i]
    <2>1. e[k] = i
        BY <1>1, Zenon DEF Content
    <2> QED BY <2>1, <1>1, LogLenNat DEF Index
<1>2. CASE k # Log[i]
    <2>1. e[k] = d[k]
        BY <1>2, Zenon DEF Content
    <2> QED BY <2>1, Zenon DEF Covers
<1> QED BY <1>1, <1>2, Zenon

\* Applying the next entry extends the covered prefix by it.
LEMMA CoversApply ==
    ASSUME NEW d \in Content, NEW n \in Index, n + 1 \in 1..LogLen,
           Log[n + 1] \in Keys, Covers(d, n)
    PROVE  Covers([d EXCEPT ![Log[n + 1]] = n + 1], n + 1)
<1> DEFINE i == n + 1
           e == [d EXCEPT ![Log[i]] = i]
<1> SUFFICES ASSUME NEW k \in Keys
             PROVE \/ IsLastWrite(k, i, e[k])
                   \/ e[k] \in (i + 1)..LogLen /\ Log[e[k]] = k
    BY Zenon DEF Covers
<1>1. CASE k = Log[i]
    BY <1>1, LogLenNat DEF IsLastWrite, Index, Content, Local
<1>2. CASE k # Log[i]
    BY <1>2, LogLenNat DEF Covers, IsLastWrite, Index, Content, Local
<1> QED BY <1>1, <1>2, Zenon

\* An entry that writes no key extends the covered prefix as it is.
LEMMA CoversSkip ==
    ASSUME NEW d \in Content, NEW n \in Index, n + 1 \in 1..LogLen,
           Log[n + 1] \notin Keys, Covers(d, n)
    PROVE  Covers(d, n + 1)
<1>1. ASSUME NEW k \in Keys, NEW w \in Nat,
             IsLastWrite(k, n, w) \/ (w \in (n + 1)..LogLen /\ Log[w] = k)
      PROVE  IsLastWrite(k, n + 1, w) \/ (w \in (n + 1 + 1)..LogLen /\ Log[w] = k)
    <2>1. CASE IsLastWrite(k, n, w)
        BY <2>1, LogLenNat DEF IsLastWrite, Index
    <2>2. CASE w \in (n + 1)..LogLen /\ Log[w] = k
        <3>1. w # n + 1
            BY <2>2, Zenon
        <3> QED BY <2>2, <3>1, LogLenNat DEF Index
    <2> QED BY <1>1, <2>1, <2>2, Zenon
<1>2. \A k \in Keys : d[k] \in Nat
    BY LogLenNat DEF Content, Local
<1> QED BY <1>1, <1>2, Zenon DEF Covers

\* Taking one instance from another covering content keeps the prefix covered.
LEMMA CoversMix ==
    ASSUME NEW d \in Content, NEW e \in Content, NEW n \in Index, NEW k \in Keys,
           Covers(d, n), Covers(e, n)
    PROVE  Covers([d EXCEPT ![k] = e[k]], n)
BY Zenon DEF Covers, Content

\* apply moves the last membership to the next entry if it is one.
LEMMA MembershipApply ==
    ASSUME NEW n \in Index, n + 1 \in 1..LogLen, NEW w \in Index,
           IsLastWrite(Member, n, w)
    PROVE  IsLastWrite(Member, n + 1, IF Log[n + 1] = Member THEN n + 1 ELSE w)
BY LogLenNat DEF IsLastWrite, Index

\* A new node covers the empty prefix.
LEMMA EmptyCovers ==
    /\ [k \in Keys |-> 0] \in Content
    /\ Covers([k \in Keys |-> 0], 0)
    /\ IsLastWrite(Member, 0, 0)
BY LogLenNat DEF Covers, IsLastWrite, Content, Local

\* load_current_snapshot yields metadata, and nothing when no file exists.
LEMMA LoadType ==
    /\ \A c \in SnapshotFiles : LoadCurrent(c) \in SnapshotMeta
    /\ NoSnapshot \in SnapshotFiles
    /\ LoadCurrent(NoSnapshot) = [id |-> 0, idx |-> 0, mem |-> 0]
BY LogLenNat DEF SnapshotFiles, LoadCurrent, NoSnapshot, SnapshotMeta, Index

\* Renaming the archive into place does not change what is loaded; renaming
\* the metadata beside an archive makes it what is loaded.
LEMMA LoadRenamed ==
    ASSUME NEW c \in SnapshotFiles, c.tar = NoFile => c.meta = NoFile,
           NEW t \in SnapshotData, NEW m \in SnapshotMeta
    PROVE  /\ [c EXCEPT !.tar = t] \in SnapshotFiles
           /\ [c EXCEPT !.tar = t].tar = t
           /\ [c EXCEPT !.tar = t].tar # NoFile
           /\ LoadCurrent([c EXCEPT !.tar = t]) = LoadCurrent(c)
           /\ [c EXCEPT !.meta = m] \in SnapshotFiles
           /\ [c EXCEPT !.meta = m].tar = c.tar
           /\ c.tar # NoFile => LoadCurrent([c EXCEPT !.meta = m]) = m
BY NoFileIsNoSnapshot, Zenon DEF SnapshotFiles, LoadCurrent

\* The invariant and its conjuncts.
LEMMA SafeHas ==
    ASSUME Safe
    PROVE  Typed /\ Owners /\ Condition /\ Slot /\ Files /\ Build /\ Install
BY Zenon DEF Safe

LEMMA SafeFrom ==
    ASSUME Typed', Owners', Condition', Slot', Files', Build', Install'
    PROVE  Safe'
BY Zenon DEF Safe

\* What the invariant says about the types of parts of the state.
LEMMA Parts ==
    ASSUME Safe
    PROVE  /\ \A d \in dbMay : d # Broken => d \in Content
           /\ \A c \in currentMay : /\ c \in SnapshotFiles
                                    /\ LoadCurrent(c) \in SnapshotMeta
                                    /\ LoadCurrent(c).idx \in Index
                                    /\ LoadCurrent(c).mem \in Index
           /\ builder # "idle" => built.meta \in SnapshotMeta /\ built.meta.idx \in Index
           /\ worker \in Installing =>
                /\ incoming.meta \in SnapshotMeta
                /\ incoming.meta.idx \in Index /\ incoming.meta.mem \in Index
                /\ incoming.tar \in SnapshotData
                /\ incoming.tar.data \in Content /\ incoming.tar.data # Broken
           /\ Index \subseteq Nat /\ 0 \in Index
<1>1. \A d \in dbMay : d # Broken => d \in Content
    BY Zenon DEF Safe, Typed
<1>2. \A c \in currentMay : c \in SnapshotFiles
    BY Zenon DEF Safe, Typed
<1>3. \A m \in SnapshotMeta : m.idx \in Index /\ m.mem \in Index
    BY Zenon DEF SnapshotMeta
<1>4. builder # "idle" => built.meta \in SnapshotMeta
    BY Zenon DEF Safe, Typed
<1>5. worker \in Installing =>
        incoming.meta \in SnapshotMeta /\ incoming.tar \in SnapshotData
    BY Zenon DEF Safe, Typed
<1>6. \A t \in SnapshotData : t.data \in Content /\ t.data # Broken
    BY BrokenIsNoContent, Zenon DEF SnapshotData
<1>7. Index \subseteq Nat /\ 0 \in Index
    BY LogLenNat DEF Index
<1> QED BY <1>1, <1>2, <1>3, <1>4, <1>5, <1>6, <1>7, LoadType, Zenon


-----------------------------------------------------------------------------
(* The node, its log and its commands *)

USE DEF HoldsState, HoldsPublication, Installing, Marked, Published, Restored, Building,
        dbVars, markVars, currentVars, appliedVars, storageVars, accessVars, gateVars,
        builderVars, raftVars, InstallStep, BuilderStep, UserStep, ForgetMemory

\* A new node satisfies the invariant.
LEMMA InitSafe == Init => Safe
<1> SUFFICES ASSUME Init PROVE Safe
    BY Zenon
<1>1. /\ LoadCurrent(NoSnapshot).idx = 0 /\ LoadCurrent(NoSnapshot).mem = 0
      /\ NoSnapshot \in SnapshotFiles
      /\ NoSnapshot.tar = NoFile /\ NoSnapshot.meta = NoFile
    BY LoadType DEF NoSnapshot
<1>2. [k \in Keys |-> 0] \in Content /\ [k \in Keys |-> 0] # Broken
    BY EmptyCovers, BrokenIsNoContent, Zenon
<1>3. 0 \in Index /\ 0 \in 0..MaxBuilds
    BY LogLenNat, MaxBuildsNat DEF Index
<1>4. user \in [Users -> {"idle", "running", "waiting"}]
    BY Zenon DEF Init
<1>5. Typed /\ Owners
    BY <1>1, <1>2, <1>3, <1>4, Zenon DEF Typed, Owners, Init
<1>6. Condition
    <2>1. Recoverable
        BY <1>1, <1>2, EmptyCovers DEF Recoverable, Init
    <2> QED BY <2>1, Zenon DEF Condition, Init
<1>7. Slot /\ Files
    BY <1>1, Zenon DEF Slot, Files, Init
<1>8. Build /\ Install
    BY Zenon DEF Build, Install, Init
<1> QED BY <1>5, <1>6, <1>7, <1>8, Zenon DEF Safe

\* So does a stuttering step.
LEMMA StutterSafe == ASSUME Safe, UNCHANGED vars PROVE Safe'
<1>1. Typed' /\ Owners'
    BY SafeHas DEF Typed, Owners, vars
<1>2. Condition'
    BY SafeHas, Zenon DEF Condition, Serving, Recoverable, vars
<1>3. Slot' /\ Files'
    BY SafeHas, Zenon DEF Slot, Files, vars
<1>4. Build' /\ Install'
    BY SafeHas DEF Build, Install, vars
<1> QED BY <1>1, <1>2, <1>3, <1>4, SafeFrom, Zenon

\* The applied state and the Storage in the slot stand still.
LEMMA SlotFrame ==
    ASSUME Slot, UNCHANGED <<status, lastApplied, lastMembership, slot, hook, db, dbMay>>
    PROVE  Slot'
BY Zenon DEF Slot

\* The snapshot files stand still.
LEMMA FilesFrame ==
    ASSUME Files, UNCHANGED <<current, currentMay, status, lastApplied, reported, purged>>
    PROVE  Files'
BY Zenon DEF Files

\* The build stands still.
LEMMA BuildFrame ==
    ASSUME Build, UNCHANGED <<builder, built, lastApplied, reported, dbMay, current, currentMay>>
    PROVE  Build'
BY Zenon DEF Build

\* The installation stands still.
LEMMA InstallFrame ==
    ASSUME Install, UNCHANGED <<worker, incoming, lastApplied, dbMay, slot, current, currentMay>>
    PROVE  Install'
BY Zenon DEF Install

\* The disk stands still.
LEMMA RecoverableFrame ==
    ASSUME Recoverable, UNCHANGED <<dbMay, currentMay, purged>>
    PROVE  Recoverable'
BY Zenon DEF Recoverable

\* Steps of the node and of commands that move control
LEMMA NodeControlSafe ==
    ASSUME Safe,
           \/ ApplyFails
           \/ \E u \in Users : Enter(u)
           \/ \E u \in Users : Answered(u)
           \/ \E u \in Users : Leave(u)
    PROVE  Safe'
<1>1. UNCHANGED <<db, dbMay, current, currentMay, lastApplied, lastMembership, slot,
                  hook, purged, reported, incoming, builder, built, status>>
    BY Zenon DEF ApplyFails, Enter, Answered, Leave
<1>2. (Recoverable => Recoverable') /\ Slot' /\ Files' /\ Build'
    BY <1>1, SlotFrame, FilesFrame, BuildFrame, RecoverableFrame, SafeHas, Zenon
<1>3. CASE ApplyFails
    <2>1. Typed' /\ Owners'
        BY <1>3, SafeHas DEF Typed, Owners, ApplyFails
    <2>2. Condition' /\ Install'
        BY <1>1, <1>2, <1>3, SafeHas, Zenon DEF Owners, Condition, Serving, Install, ApplyFails
    <2> QED BY <1>2, <2>1, <2>2, SafeFrom, Zenon
<1>4. ASSUME NEW u \in Users, Enter(u) PROVE Safe'
    <2>1. Typed' /\ Owners'
        BY <1>4, SafeHas DEF Typed, Owners, Enter
    <2>2. Condition' /\ Install'
        BY <1>1, <1>2, <1>4, SafeHas, Zenon DEF Owners, Condition, Serving, Install, Enter
    <2> QED BY <1>2, <2>1, <2>2, SafeFrom, Zenon
<1>5. ASSUME NEW u \in Users, Answered(u) PROVE Safe'
    <2>1. Typed' /\ Owners'
        BY <1>5, SafeHas DEF Typed, Owners, Answered
    <2>2. Condition' /\ Install'
        BY <1>1, <1>2, <1>5, SafeHas, Zenon DEF Owners, Condition, Serving, Install, Answered
    <2> QED BY <1>2, <2>1, <2>2, SafeFrom, Zenon
<1>6. ASSUME NEW u \in Users, Leave(u) PROVE Safe'
    <2>1. Typed' /\ Owners'
        BY <1>6, SafeHas DEF Typed, Owners, Leave
    <2>2. Condition' /\ Install'
        BY <1>1, <1>2, <1>6, SafeHas, Zenon DEF Owners, Condition, Serving, Install, Leave
    <2> QED BY <1>2, <2>1, <2>2, SafeFrom, Zenon
<1> QED BY <1>3, <1>4, <1>5, <1>6, Zenon

\* A start that a marker blocks changes nothing but the status.
LEMMA StartBlockedSafe == ASSUME Safe, StartBlocked PROVE Safe'
<1>1. Typed' /\ Owners'
    BY SafeHas, Zenon DEF Typed, Owners, StartBlocked
<1>2. Condition' /\ Slot' /\ Files'
    BY SafeHas, Zenon DEF Condition, Serving, Recoverable, Slot, Files, StartBlocked
<1>3. Build' /\ Install'
    <2>1. Build'
        BY SafeHas, Zenon DEF Build, Install, StartBlocked
    <2>2. Install'
        BY SafeHas, Zenon DEF Build, Install, StartBlocked
    <2> QED BY <2>1, <2>2, Zenon
<1> QED BY <1>1, <1>2, <1>3, SafeFrom, Zenon

\* Raft learns only of a build whose pair is durable.
LEMMA DropBuilderSafe == ASSUME Safe, DropBuilder PROVE Safe'
<1>a. /\ status = "up"
      /\ builder \in {"returned", "failed"}
      /\ reported' = IF builder = "returned" /\ built.meta.idx > reported
                     THEN built.meta.idx ELSE reported
      /\ builder' = "idle" /\ built' = NoFile /\ builderOwns' = "none"
      /\ UNCHANGED <<db, dbMay, mark, markMay, current, currentMay, lastApplied,
                     lastMembership, slot, hook, gate, user, stateGate, publicationGate,
                     snapshotIdx, purged, status, worker, incoming>>
    BY Zenon DEF DropBuilder
<1>1. /\ reported \in Index /\ built.meta.idx \in Index /\ purged \in Index
      /\ status = "up" /\ builder # "idle"
    BY <1>a, Parts, SafeHas, Zenon DEF Typed
<1>2. /\ reported' \in Index /\ reported <= reported'
      /\ reported' = reported \/ (builder = "returned" /\ reported' = built.meta.idx)
    BY <1>a, <1>1, LogLenNat DEF Index
<1>3. purged <= reported' /\ (\A c \in currentMay : reported' <= LoadCurrent(c).idx)
    <2>1. purged <= reported
        BY <1>1, SafeHas, Zenon DEF Files
    <2>2. purged <= reported'
        BY <1>1, <1>2, <2>1, LogLenNat DEF Index
    <2>3. \A c \in currentMay : reported' <= LoadCurrent(c).idx
        BY <1>1, <1>2, SafeHas, Zenon DEF Files, Build
    <2> QED BY <2>2, <2>3, Zenon
<1>4. Typed' /\ Owners'
    BY <1>a, <1>2, SafeHas, SMTT(120) DEF Typed, Owners
<1>5. Condition'
    BY <1>a, SafeHas, Zenon DEF Condition, Serving, Recoverable
<1>6. Slot' /\ Files'
    BY <1>a, <1>3, SafeHas, Zenon DEF Slot, Files
<1>7. Build' /\ Install'
    BY <1>a, SafeHas, Zenon DEF Build, Install
<1> QED BY <1>4, <1>5, <1>6, <1>7, SafeFrom, Zenon

-----------------------------------------------------------------------------
(***************************************************************************)
(* Power losses, restarts, flushes, log purging, apply and the writes of   *)
(* commands preserve the invariant of KiwiStateMachine.                    *)
(***************************************************************************)

\* A power loss picks one of the states the disk may be in.
LEMMA CrashSafe == ASSUME Safe, Crash PROVE Safe'
<1>1. Typed' /\ Owners'
    <2>1. 0 \in Index /\ 0 \in 0..MaxBuilds
        BY LogLenNat, MaxBuildsNat DEF Index
    <2>2. user' \in [Users -> {"idle", "running", "waiting"}]
        BY Zenon DEF Crash
    <2>3. /\ db' \in dbMay' /\ dbMay' \subseteq Content \union {Broken}
          /\ mark' \in markMay' /\ markMay' \subseteq {"none", "primary", "both", "cleanup"}
          /\ current' \in currentMay' /\ currentMay' \subseteq SnapshotFiles
          /\ purged' \in Index
        BY SafeHas, Zenon DEF Typed, Crash
    <2> QED BY <2>1, <2>2, <2>3, Zenon DEF Typed, Owners, Crash
<1>2. Condition'
    BY SafeHas DEF Typed, Owners, Condition, Serving, Recoverable, Crash
<1>3. Slot' /\ Files'
    BY SafeHas, Zenon DEF Slot, Files, Crash
<1>4. Build' /\ Install'
    BY Zenon DEF Build, Install, Crash
<1> QED BY <1>1, <1>2, <1>3, <1>4, SafeFrom, Zenon

\* A restart without a marker recovers last_applied from the snapshot files.
LEMMA StartSafe == ASSUME Safe, Start PROVE Safe'
<1>a. /\ status = "down"
      /\ mark = "none"
      /\ status' = "up"
      /\ slot' = "open"
      /\ hook' = "set"
      /\ lastApplied' = LoadCurrent(current).idx
      /\ lastMembership' = LoadCurrent(current).mem
      /\ reported' = LoadCurrent(current).idx
      /\ UNCHANGED <<db, dbMay, mark, markMay, current, currentMay, gate, user, stateGate,
                     publicationGate, builder, built, builderOwns, snapshotIdx, purged,
                     worker, incoming>>
    BY Zenon DEF Start
<1>1. Recoverable /\ current \in currentMay /\ db \in dbMay
    BY <1>a, SafeHas, Zenon DEF Typed, Condition
<1>2. /\ LoadCurrent(current).idx \in Index /\ LoadCurrent(current).mem \in Index
      /\ Index \subseteq Nat
    BY <1>1, Parts, Zenon
<1>3. Typed' /\ Owners'
    BY <1>a, <1>2, SafeHas, Zenon DEF Typed, Owners
<1>4. Condition'
    BY <1>a, <1>1, SafeHas, Zenon DEF Typed, Owners, Condition, Serving, Recoverable
<1>5. Slot'
    BY <1>a, <1>1, Zenon DEF Slot, Recoverable
<1>6. Files'
    <2>1. currentMay = {current} /\ purged <= LoadCurrent(current).idx
        BY <1>a, <1>1, SafeHas, Zenon DEF Files, Recoverable
    <2>2. LoadCurrent(current).idx <= LoadCurrent(current).idx
        BY <1>2, LogLenNat DEF Index
    <2>3. /\ current.tar = NoFile => current.meta = NoFile
          /\ current.tar # NoFile => Covers(current.tar.data, current.tar.idx)
        BY <1>1, SafeHas, Zenon DEF Files
    <2>4. currentMay' = {current} /\ status' = "up" /\ purged' = purged
        BY <1>a, <2>1, Zenon
    <2>5. lastApplied' = LoadCurrent(current).idx /\ reported' = LoadCurrent(current).idx
        BY <1>a, Zenon
    <2> QED BY <2>1, <2>2, <2>3, <2>4, <2>5, Zenon DEF Files
<1>7. Build' /\ Install'
    BY <1>a, SafeHas, Zenon DEF Owners, Build, Install
<1> QED BY <1>3, <1>4, <1>5, <1>6, <1>7, SafeFrom, Zenon

\* A node that rejoins with clean directories covers the empty prefix.
LEMMA RejoinSafe == ASSUME Safe, Rejoin PROVE Safe'
<1>a. /\ status = "blocked"
      /\ status' = "down"
      /\ db' = [k \in Keys |-> 0] /\ dbMay' = {[k \in Keys |-> 0]}
      /\ mark' = "none" /\ markMay' = {"none"}
      /\ current' = NoSnapshot /\ currentMay' = {NoSnapshot}
      /\ purged' = 0
      /\ UNCHANGED <<lastApplied, lastMembership, slot, hook, gate, user, stateGate,
                     publicationGate, builder, built, builderOwns, snapshotIdx, reported,
                     worker, incoming>>
    BY Zenon DEF Rejoin
<1>1. /\ LoadCurrent(NoSnapshot).idx = 0 /\ LoadCurrent(NoSnapshot).mem = 0
      /\ NoSnapshot \in SnapshotFiles
      /\ NoSnapshot.tar = NoFile /\ NoSnapshot.meta = NoFile
    BY LoadType DEF NoSnapshot
<1>2. [k \in Keys |-> 0] # Broken
    BY EmptyCovers, BrokenIsNoContent, Zenon
<1>3. Typed' /\ Owners'
    BY <1>a, <1>1, Parts, EmptyCovers, SafeHas, Zenon DEF Typed, Owners
<1>4. Condition'
    <2>1. Recoverable'
        BY <1>a, <1>1, <1>2, EmptyCovers, SMTT(120) DEF Recoverable
    <2> QED BY <1>a, <2>1, Zenon DEF Condition
<1>5. Slot' /\ Files'
    BY <1>a, <1>1, Zenon DEF Slot, Files
<1>6. Build' /\ Install'
    BY <1>a, SafeHas, Zenon DEF Owners, Build, Install
<1> QED BY <1>3, <1>4, <1>5, <1>6, SafeFrom, Zenon

\* A memtable flush mixes contents that cover the same prefixes.
LEMMA FlushSafe == ASSUME Safe, NEW k \in Keys, Flush(k) PROVE Safe'
<1>a. /\ status = "up"
      /\ slot = "open"
      /\ dbMay' = {[d EXCEPT ![k] = db[k]] : d \in dbMay}
      /\ UNCHANGED <<db, mark, markMay, current, currentMay, lastApplied, lastMembership,
                     slot, hook, gate, user, stateGate, publicationGate, builder, built,
                     builderOwns, snapshotIdx, purged, reported, status, worker,
                     incoming>>
    BY Zenon DEF Flush
<1>1. db \in dbMay /\ Broken \notin dbMay /\ (\A d \in dbMay : d \in Content)
    BY <1>a, Parts, SafeHas, Zenon DEF Typed, Slot
<1>2. db' \in dbMay' /\ (\A d \in dbMay' : d \in Content /\ d # Broken)
    <2>1. db = [db EXCEPT ![k] = db[k]]
        BY <1>1, Zenon DEF Content
    <2>2. \A d \in dbMay : [d EXCEPT ![k] = db[k]] \in Content
        BY <1>1, Zenon DEF Content
    <2> QED BY <1>a, <1>1, <2>1, <2>2, BrokenIsNoContent, Zenon
<1>3. ASSUME NEW n \in Index, \A d \in dbMay : Covers(d, n)
      PROVE  \A d \in dbMay' : Covers(d, n)
    <2>1. \A d \in dbMay : Covers([d EXCEPT ![k] = db[k]], n)
        BY <1>1, <1>3, CoversMix, Zenon
    <2> QED BY <1>a, <2>1, Zenon
<1>4. Typed' /\ Owners'
    <2>1. dbMay' \subseteq Content \union {Broken}
        BY <1>2, Zenon
    <2>8. Typed'
        BY <1>a, <1>2, <2>1, SafeHas DEF Typed
    <2>9. Owners'
        BY <1>a, <1>2, <2>1, SafeHas DEF Typed, Owners
    <2> QED BY <2>8, <2>9, Zenon
<1>5. Condition'
    <2>1. Recoverable => Recoverable'
        <3>1. \A c \in currentMay : LoadCurrent(c).idx \in Index
            BY Parts, Zenon
        <3> QED BY <1>a, <1>2, <1>3, <3>1, Zenon DEF Recoverable
    <2> QED BY <1>a, <2>1, SafeHas, Zenon DEF Owners, Condition, Serving
<1>6. Slot' /\ Files'
    BY <1>a, <1>2, SafeHas, Zenon DEF Slot, Files
<1>7. Build' /\ Install'
    <2>1. /\ builder # "idle" => built.meta.idx \in Index
          /\ worker \in Installing => incoming.meta.idx \in Index
        BY Parts, Zenon
    <2>2. Build'
        BY <1>a, <1>3, <2>1, SafeHas, Zenon DEF Build
    <2>3. Install'
        BY <1>a, <1>2, <1>3, <2>1, SafeHas, Zenon DEF Install
    <2> QED BY <2>2, <2>3, Zenon
<1> QED BY <1>4, <1>5, <1>6, <1>7, SafeFrom, Zenon

\* Raft purges no further than the snapshot it has been told of.
LEMMA PurgeSafe == ASSUME Safe, PurgeLog PROVE Safe'
<1>a. /\ status = "up"
      /\ worker # "dead"
      /\ purged < reported
      /\ purged' \in (purged + 1)..reported
      /\ UNCHANGED <<db, dbMay, mark, markMay, current, currentMay, lastApplied,
                     lastMembership, slot, hook, gate, user, stateGate, publicationGate,
                     builder, built, builderOwns, snapshotIdx, reported, status, worker,
                     incoming>>
    BY Zenon DEF PurgeLog
<1>1. purged \in Nat /\ reported \in Index /\ Index \subseteq Nat
    BY LogLenNat, SafeHas DEF Typed, Index
<1>2. purged' \in Index /\ purged' <= reported
    BY <1>a, <1>1, LogLenNat DEF Index
<1>3. Typed' /\ Owners'
    <2>1. Typed'
        BY <1>a, <1>2, SafeHas DEF Typed
    <2>2. Owners'
        BY <1>a, <1>2, SafeHas, ZenonT(60) DEF Typed, Owners
    <2> QED BY <2>1, <2>2, Zenon
<1>4. Condition'
    <2>1. \A c \in currentMay :
            LoadCurrent(c).idx \in Index /\ reported <= LoadCurrent(c).idx
        BY <1>a, Parts, SafeHas, Zenon DEF Files
    <2>2. \A c \in currentMay : purged' <= LoadCurrent(c).idx
        BY <1>2, <2>1, LogLenNat, SafeHas DEF Typed, Index
    <2>3. Recoverable => Recoverable'
        BY <1>a, <2>2, Zenon DEF Recoverable
    <2> QED BY <1>a, <2>3, SafeHas, Zenon DEF Condition, Serving
<1>5. Slot' /\ Files'
    BY <1>a, <1>2, SafeHas, Zenon DEF Slot, Files
<1>6. Build' /\ Install'
    BY <1>a, SafeHas DEF Build, Install
<1> QED BY <1>3, <1>4, <1>5, <1>6, SafeFrom, Zenon

\* apply writes the next entry and only then advances last_applied.
LEMMA ApplySafe == ASSUME Safe, Apply PROVE Safe'
<1> DEFINE i == lastApplied + 1
<1>a. /\ status = "up" /\ worker = "idle" /\ stateGate = "free"
      /\ UNCHANGED <<mark, markMay, current, currentMay, slot, hook, gate, user,
                     stateGate, publicationGate, builder, built, builderOwns, snapshotIdx,
                     purged, reported, status, worker, incoming>>
    BY Zenon DEF Apply
<1>1. /\ status = "up" /\ worker = "idle" /\ i \in 1..LogLen
      /\ lastApplied' = i
      /\ lastMembership' = IF Log[i] = Member THEN i ELSE lastMembership
      /\ IF Log[i] \in Keys THEN WriteKey(Log[i], i) ELSE UNCHANGED <<db, dbMay>>
      /\ stateGate = "free"
    BY Zenon DEF Apply
<1>2. Serving /\ builder # "checkpoint"
    BY <1>1, SafeHas, Zenon DEF Owners, Condition
<1>3. /\ lastApplied \in Index /\ lastMembership \in Index
      /\ db \in dbMay /\ Broken \notin dbMay /\ (\A d \in dbMay : d \in Content)
      /\ Covers(db, lastApplied) /\ IsLastWrite(Member, lastApplied, lastMembership)
    BY <1>1, <1>2, Parts, SafeHas, Zenon DEF Typed, Slot, Serving
<1>4. lastApplied' \in Index /\ lastMembership' \in Index
    BY <1>1, <1>3, LogLenNat DEF Index
<1>5. db' \in dbMay' /\ (\A d \in dbMay' : d \in Content /\ d # Broken)
    <2>1. CASE Log[i] \in Keys
        <3>1. \A d \in dbMay : [d EXCEPT ![Log[i]] = i] \in Content
            BY <1>1, <1>3, <2>1, LogLenNat DEF Content, Local
        <3> QED BY <1>1, <1>3, <2>1, <3>1, BrokenIsNoContent DEF WriteKey
    <2>2. CASE Log[i] \notin Keys
        BY <1>1, <1>3, <2>2
    <2> QED BY <2>1, <2>2, Zenon
<1>6. ASSUME NEW n \in Index, n <= lastApplied, \A d \in dbMay : Covers(d, n)
      PROVE  \A d \in dbMay' : Covers(d, n)
    <2>1. CASE Log[i] \in Keys
        <3>1. n < i
            BY <1>3, <1>6, LogLenNat DEF Index
        <3>2. \A d \in dbMay : Covers([d EXCEPT ![Log[i]] = i], n)
            BY <1>1, <1>3, <1>6, <2>1, <3>1, CoversWrite, Zenon
        <3> QED BY <1>1, <1>6, <2>1, <3>2 DEF WriteKey
    <2>2. CASE Log[i] \notin Keys
        BY <1>1, <1>6, <2>2, Zenon
    <2> QED BY <2>1, <2>2, Zenon
<1>7. Covers(db', lastApplied')
    <2>1. CASE Log[i] \in Keys
        <3>1. Covers([db EXCEPT ![Log[i]] = i], i)
            BY <1>1, <1>3, <2>1, CoversApply, Zenon
        <3> QED BY <1>1, <2>1, <3>1, Zenon DEF WriteKey
    <2>2. CASE Log[i] \notin Keys
        <3>1. Covers(db, i)
            BY <1>1, <1>3, <2>2, CoversSkip, Zenon
        <3> QED BY <1>1, <2>2, <3>1, Zenon
    <2> QED BY <2>1, <2>2, Zenon
<1>8. IsLastWrite(Member, lastApplied', lastMembership')
    <2>1. IsLastWrite(Member, i, IF Log[i] = Member THEN i ELSE lastMembership)
        BY <1>1, <1>3, MembershipApply, Zenon
    <2> QED BY <1>1, <2>1, Zenon
<1>9. \A c \in currentMay : LoadCurrent(c).idx \in Index /\ LoadCurrent(c).idx <= lastApplied
    BY <1>1, Parts, SafeHas, Zenon DEF Files
<1>10. Typed' /\ Owners'
    <2>1. dbMay' \subseteq Content \union {Broken}
        BY <1>5, Zenon
    <2>8. Typed'
        BY <1>a, <1>4, <1>5, <2>1, SafeHas DEF Typed
    <2>9. Owners'
        BY <1>a, <1>4, <1>5, <2>1, SafeHas, Zenon DEF Typed, Owners
    <2> QED BY <2>8, <2>9, Zenon
<1>11. Condition'
    <2>1. UNCHANGED <<currentMay, purged>>
        BY <1>a, Zenon
    <2>2. \A c \in currentMay : \A d \in dbMay' : Covers(d, LoadCurrent(c).idx)
        BY <1>2, <1>6, <1>9, Zenon DEF Serving, Recoverable
    <2>3. Recoverable'
        BY <1>2, <1>3, <1>5, <2>1, <2>2, Zenon DEF Serving, Recoverable
    <2> QED BY <1>a, <1>2, <2>3, SafeHas, Zenon DEF Condition, Serving
<1>12. Slot'
    BY <1>a, <1>2, <1>5, <1>7, <1>8, Zenon DEF Slot, Serving
<1>13. Files'
    <2>1. \A c \in currentMay : LoadCurrent(c).idx <= lastApplied'
        BY <1>1, <1>3, <1>9, LogLenNat DEF Index
    <2> QED BY <1>a, <2>1, SafeHas, Zenon DEF Files
<1>14. Build'
    <2>1. builder # "idle" => built.meta.idx \in Index /\ built.meta.idx <= lastApplied
        BY Parts, SafeHas, Zenon DEF Build
    <2>2. builder # "idle" => built.meta.idx <= lastApplied'
        BY <1>1, <1>3, <2>1, LogLenNat, SMTT(120) DEF Index
    <2> QED BY <1>a, <1>2, <1>6, <2>1, <2>2, SafeHas, Zenon DEF Build
<1>15. Install'
    BY <1>a, Zenon DEF Install
<1> QED BY <1>10, <1>11, <1>12, <1>13, <1>14, <1>15, SafeFrom, Zenon

\* A command that runs has an armed Storage: its write goes to Raft.
LEMMA WriteSafe == ASSUME Safe, NEW u \in Users, Write(u) PROVE Safe'
<1>1. hook = "set"
    BY SafeHas, Zenon DEF Typed, Owners, Condition, Serving, Write
<1>2. /\ status = "up" /\ user[u] = "running" /\ user' = [user EXCEPT ![u] = "waiting"]
      /\ UNCHANGED <<db, dbMay, mark, markMay, current, currentMay, lastApplied, lastMembership,
                     slot, hook, gate, stateGate, publicationGate, builder, built, builderOwns,
                     snapshotIdx, purged, reported, status, worker, incoming>>
    BY <1>1, Zenon DEF Write
<1>3. Typed' /\ Owners'
    <2>1. Typed'
        BY <1>2, SafeHas, SMTT(120) DEF Typed
    <2>2. Owners'
        BY <1>2, SafeHas, Zenon DEF Typed, Owners
    <2> QED BY <2>1, <2>2, Zenon
<1>4. Condition'
    BY <1>2, SafeHas, Zenon DEF Condition, Serving, Recoverable
<1>5. Slot' /\ Files'
    BY <1>2, SafeHas, Zenon DEF Slot, Files
<1>6. Build' /\ Install'
    <2>1. Build'
        BY <1>2, SafeHas, Zenon DEF Build, Install
    <2>2. Install'
        BY <1>2, SafeHas, Zenon DEF Build, Install
    <2> QED BY <2>1, <2>2, Zenon
<1> QED BY <1>3, <1>4, <1>5, <1>6, SafeFrom, Zenon

-----------------------------------------------------------------------------
(***************************************************************************)
(* The renames of the snapshot files, and the steps of a snapshot build,   *)
(* preserve the invariant of KiwiStateMachine.                             *)
(***************************************************************************)

-----------------------------------------------------------------------------
(* The snapshot files *)

\* Renaming the archive changes nothing that a restart would load.
LEMMA RenamedTar ==
    ASSUME Safe, OrderedRenames, NEW t \in SnapshotData, Covers(t.data, t.idx),
           RenameTar(t)
    PROVE  /\ current' \in currentMay' /\ currentMay' = currentMay \union {current'}
           /\ currentMay' \subseteq SnapshotFiles
           /\ current'.tar = t /\ current'.tar # NoFile
           /\ LoadCurrent(current') = LoadCurrent(current)
           /\ \A c \in currentMay' :
                /\ c.tar = NoFile => c.meta = NoFile
                /\ c.tar # NoFile => Covers(c.tar.data, c.tar.idx)
<1>1. /\ current \in currentMay /\ current \in SnapshotFiles /\ currentMay \subseteq SnapshotFiles
      /\ current.tar = NoFile => current.meta = NoFile
    BY SafeHas, Zenon DEF Typed, Files
<1>2. current' = [current EXCEPT !.tar = t] /\ currentMay' = currentMay \union {current'}
    BY Zenon DEF RenameTar
<1>3. /\ current' \in SnapshotFiles /\ current'.tar = t /\ current'.tar # NoFile
      /\ LoadCurrent(current') = LoadCurrent(current)
    <2>1. \E m : m \in SnapshotMeta
        BY <1>1, LoadType, Zenon
    <2> QED BY <1>1, <1>2, <2>1, LoadRenamed, Zenon
<1> QED BY <1>1, <1>2, <1>3, SafeHas, Zenon DEF Files

\* Renaming the metadata beside an archive publishes it.
LEMMA RenamedMeta ==
    ASSUME Safe, OrderedRenames, NEW m \in SnapshotMeta, current.tar # NoFile,
           RenameMeta(m)
    PROVE  /\ current' \in currentMay' /\ currentMay' = currentMay \union {current'}
           /\ currentMay' \subseteq SnapshotFiles
           /\ current'.tar = current.tar
           /\ LoadCurrent(current') = m
           /\ \A c \in currentMay' :
                /\ c.tar = NoFile => c.meta = NoFile
                /\ c.tar # NoFile => Covers(c.tar.data, c.tar.idx)
<1>1. current \in currentMay /\ current \in SnapshotFiles /\ currentMay \subseteq SnapshotFiles
    BY SafeHas, Zenon DEF Typed
<1>2. current' = [current EXCEPT !.meta = m] /\ currentMay' = currentMay \union {current'}
    BY Zenon DEF RenameMeta
<1>3. current' \in SnapshotFiles /\ current'.tar = current.tar /\ LoadCurrent(current') = m
    <2>1. current.tar \in SnapshotData
        BY <1>1, Zenon DEF SnapshotFiles
    <2> QED BY <1>1, <1>2, <2>1, LoadRenamed, Zenon
<1> QED BY <1>1, <1>2, <1>3, SafeHas, Zenon DEF Files

-----------------------------------------------------------------------------
(* Building a snapshot *)

\* A build that fails drops its guards.
LEMMA BuildFailsSafe == ASSUME Safe, BuildFails PROVE Safe'
<1>1. Typed' /\ Owners'
    <2>1. Typed'
        BY SafeHas DEF Typed, BuildFails
    <2>2. Owners'
        BY SafeHas, Zenon DEF Typed, Owners, BuildFails
    <2> QED BY <2>1, <2>2, Zenon
<1>2. Condition' /\ Slot' /\ Files'
    BY SafeHas, Zenon DEF Condition, Serving, Recoverable, Slot, Files, BuildFails
<1>3. Build' /\ Install'
    BY SafeHas, Zenon DEF Build, Install, BuildFails
<1> QED BY <1>1, <1>2, <1>3, SafeFrom, Zenon

\* The builder captures the applied state together with both gates.
LEMMA GetSnapshotBuilderSafe == ASSUME Safe, GetSnapshotBuilder PROVE Safe'
<1>a. /\ status = "up"
      /\ worker = "idle"
      /\ builder = "idle"
      /\ stateGate = "free" /\ publicationGate = "free"
      /\ snapshotIdx < MaxBuilds
      /\ stateGate' = "builder" /\ publicationGate' = "builder"
      /\ snapshotIdx' = snapshotIdx + 1
      /\ built' = [meta |-> [id |-> snapshotIdx + 1, idx |-> lastApplied,
                             mem |-> lastMembership],
                   tar |-> NoFile]
      /\ builder' = "checkpoint"
      /\ builderOwns' = "live"
      /\ UNCHANGED <<db, dbMay, mark, markMay, current, currentMay, lastApplied,
                     lastMembership, slot, hook, gate, user, purged, reported, status,
                     worker, incoming>>
    BY Zenon DEF GetSnapshotBuilder
<1>1. Serving /\ status = "up" /\ worker = "idle" /\ builder = "idle"
    BY <1>a, SafeHas, Zenon DEF Condition
<1>2. /\ lastApplied \in Index /\ lastMembership \in Index /\ snapshotIdx \in 0..MaxBuilds
      /\ reported \in Index /\ current \in currentMay
    BY SafeHas, Zenon DEF Typed
<1>3. snapshotIdx' \in 0..MaxBuilds /\ snapshotIdx + 1 \in Nat
    BY <1>a, <1>2, MaxBuildsNat
<1>4. /\ built'.meta \in SnapshotMeta /\ built'.tar = NoFile
      /\ built' \in [meta : SnapshotMeta, tar : SnapshotData \union {NoFile}]
      /\ built'.meta.idx = lastApplied /\ built'.meta.mem = lastMembership
    BY <1>a, <1>2, <1>3, Zenon DEF SnapshotMeta
<1>5. Typed' /\ Owners'
    BY <1>a, <1>3, <1>4, SafeHas, Zenon DEF Typed, Owners
<1>6. Condition'
    BY <1>a, <1>1, SafeHas, Zenon DEF Condition, Serving, Recoverable
<1>7. Slot' /\ Files'
    BY <1>a, SafeHas, Zenon DEF Slot, Files
<1>8. Build'
    <2>1. reported <= LoadCurrent(current).idx /\ LoadCurrent(current).idx <= lastApplied
        BY <1>1, <1>2, SafeHas, Zenon DEF Files
    <2>2. reported <= lastApplied /\ lastApplied <= lastApplied
        BY <1>2, <2>1, Parts, LogLenNat DEF Index
    <2>3. IsLastWrite(Member, lastApplied, lastMembership)
        BY <1>1, SafeHas, Zenon DEF Slot, Serving
    <2> QED BY <1>a, <1>4, <2>2, <2>3, Zenon DEF Build
<1>9. Install'
    BY <1>a, <1>1, Zenon DEF Install
<1> QED BY <1>5, <1>6, <1>7, <1>8, <1>9, SafeFrom, Zenon

\* The checkpoint flushes the memtables, so it covers the captured index on
\* disk, and still does while apply goes on.
LEMMA CreateCheckpointSafe == ASSUME Safe, CreateCheckpoint PROVE Safe'
<1>a. /\ status = "up" /\ builder = "checkpoint" /\ builder' = "tar" /\ built' = [built
         EXCEPT !.tar = [idx |-> built.meta.idx, data |-> db]]
      /\ dbMay' = {db} /\ db' = db
      /\ stateGate' = "free"
      /\ UNCHANGED <<mark, markMay, lastApplied, lastMembership, slot, hook, gate, user,
                     purged, reported, status, worker, incoming, builderOwns, snapshotIdx,
                     current, currentMay, publicationGate>>
    BY Zenon DEF CreateCheckpoint
<1>1. Serving /\ builder = "checkpoint" /\ status = "up"
    BY <1>a, SafeHas, Zenon DEF Condition
<1>2. /\ db \in dbMay /\ db \in Content /\ built.meta.idx = lastApplied
      /\ Covers(db, lastApplied)
      /\ built.meta \in SnapshotMeta /\ built.meta.idx \in Index
    BY <1>1, Parts, SafeHas, Zenon DEF Typed, Slot, Build, Serving
<1>3. /\ built' \in [meta : SnapshotMeta, tar : SnapshotData \union {NoFile}]
      /\ built'.tar \in SnapshotData /\ built'.meta = built.meta
      /\ built'.tar.idx = built.meta.idx /\ built'.tar.data = db
    <2>1. built \in [meta : SnapshotMeta, tar : SnapshotData \union {NoFile}]
        BY <1>1, SafeHas, Zenon DEF Typed
    <2>2. [idx |-> built.meta.idx, data |-> db] \in SnapshotData
        BY <1>2, Zenon DEF SnapshotData
    <2> QED BY <1>a, <2>1, <2>2, Zenon
<1>4. Typed' /\ Owners'
    BY <1>a, <1>2, <1>3, SafeHas DEF Typed, Owners
<1>5. Condition'
    BY <1>a, <1>1, <1>2, SafeHas, Zenon DEF Owners, Condition, Serving, Recoverable
<1>6. Slot' /\ Files'
    BY <1>a, <1>2, SafeHas, Zenon DEF Slot, Files
<1>7. Build'
    BY <1>a, <1>1, <1>2, <1>3, SafeHas, Zenon DEF Build
<1>8. Install'
    BY <1>a, <1>1, <1>2, SafeHas, Zenon DEF Install
<1> QED BY <1>4, <1>5, <1>6, <1>7, <1>8, SafeFrom, Zenon

\* The built archive becomes current_snapshot.tar.
LEMMA BuildRenameTarSafe == ASSUME Safe, OrderedRenames, BuildRenameTar PROVE Safe'
<1>a. /\ status = "up" /\ builder = "tar" /\ builder' = "meta" /\ RenameTar(built.tar)
      /\ UNCHANGED <<mark, markMay, lastApplied, lastMembership, slot, hook, gate, user,
                     purged, reported, status, worker, incoming, builderOwns, snapshotIdx,
                     db, dbMay, stateGate, publicationGate, built>>
    BY Zenon DEF BuildRenameTar
<1>1. Serving /\ builder = "tar" /\ status = "up"
    BY <1>a, SafeHas, Zenon DEF Condition
<1>2. built.tar \in SnapshotData /\ Covers(built.tar.data, built.tar.idx)
    BY <1>1, SafeHas, Zenon DEF Typed, Build
<1>3. /\ current' \in currentMay' /\ currentMay' = currentMay \union {current'}
      /\ currentMay' \subseteq SnapshotFiles /\ current'.tar # NoFile
      /\ LoadCurrent(current') = LoadCurrent(current) /\ current \in currentMay
      /\ \A c \in currentMay' : /\ c.tar = NoFile => c.meta = NoFile
                                /\ c.tar # NoFile => Covers(c.tar.data, c.tar.idx)
    BY <1>a, <1>2, RenamedTar, SafeHas, Zenon DEF Typed
<1>4. Typed' /\ Owners'
    <2>1. Typed'
        BY <1>a, <1>3, SafeHas, SMTT(120) DEF Typed
    <2>2. Owners'
        BY <1>a, <1>3, SafeHas, Zenon DEF Typed, Owners
    <2> QED BY <2>1, <2>2, Zenon
<1>5. Condition'
    <2>1. Recoverable'
        BY <1>a, <1>1, <1>3, Zenon DEF Serving, Recoverable
    <2> QED BY <1>a, <1>1, <2>1, SafeHas, Zenon DEF Owners, Condition, Serving
<1>6. Slot' /\ Files'
    BY <1>a, <1>1, <1>3, SafeHas, Zenon DEF Slot, Files
<1>7. Build'
    BY <1>a, <1>1, <1>3, SafeHas, Zenon DEF Build
<1>8. Install'
    BY <1>a, <1>1, SafeHas, Zenon DEF Owners, Install
<1> QED BY <1>4, <1>5, <1>6, <1>7, <1>8, SafeFrom, Zenon

\* The built metadata joins the archive it was made with.
LEMMA BuildRenameMetaSafe == ASSUME Safe, OrderedRenames, BuildRenameMeta PROVE Safe'
<1>a. /\ status = "up" /\ builder = "meta" /\ builder' = "sync" /\ RenameMeta(built.meta)
      /\ UNCHANGED <<mark, markMay, lastApplied, lastMembership, slot, hook, gate, user,
                     purged, reported, status, worker, incoming, builderOwns, snapshotIdx,
                     db, dbMay, stateGate, publicationGate, built>>
    BY Zenon DEF BuildRenameMeta
<1>1. Serving /\ builder = "meta" /\ status = "up" /\ current.tar # NoFile
    BY <1>a, SafeHas, Zenon DEF Condition, Build
<1>2. /\ built.meta \in SnapshotMeta /\ built.meta.idx \in Index
      /\ built.meta.idx <= lastApplied /\ reported <= built.meta.idx
      /\ IsLastWrite(Member, built.meta.idx, built.meta.mem)
      /\ \A d \in dbMay : Covers(d, built.meta.idx)
    BY <1>1, Parts, SafeHas, Zenon DEF Build
<1>3. /\ current' \in currentMay' /\ currentMay' = currentMay \union {current'}
      /\ currentMay' \subseteq SnapshotFiles
      /\ LoadCurrent(current') = built.meta
      /\ \A c \in currentMay' : /\ c.tar = NoFile => c.meta = NoFile
                                /\ c.tar # NoFile => Covers(c.tar.data, c.tar.idx)
    BY <1>a, <1>1, <1>2, RenamedMeta, Zenon
<1>4. purged <= built.meta.idx
    <2>1. purged <= reported /\ purged \in Index /\ reported \in Index
        BY <1>1, SafeHas, Zenon DEF Files, Typed
    <2> QED BY <1>2, <2>1, LogLenNat DEF Index
<1>5. Typed' /\ Owners'
    <2>1. Typed'
        BY <1>a, <1>3, SafeHas, SMTT(120) DEF Typed
    <2>2. Owners'
        BY <1>a, <1>3, SafeHas, Zenon DEF Typed, Owners
    <2> QED BY <2>1, <2>2, Zenon
<1>6. Condition'
    <2>1. UNCHANGED <<dbMay, purged>>
        BY <1>a, Zenon
    <2>2. \A c \in currentMay' : c \in currentMay \/ LoadCurrent(c) = built.meta
        BY <1>3, Zenon
    <2>3. \A d \in dbMay, c \in currentMay :
            /\ d # Broken
            /\ Covers(d, LoadCurrent(c).idx)
            /\ IsLastWrite(Member, LoadCurrent(c).idx, LoadCurrent(c).mem)
            /\ purged <= LoadCurrent(c).idx
        BY <1>1, Zenon DEF Serving, Recoverable
    <2>4. \A d \in dbMay, c \in currentMay' :
            /\ d # Broken
            /\ Covers(d, LoadCurrent(c).idx)
            /\ IsLastWrite(Member, LoadCurrent(c).idx, LoadCurrent(c).mem)
            /\ purged <= LoadCurrent(c).idx
        <3> TAKE d \in dbMay, c \in currentMay'
        <3>1. CASE c \in currentMay
            BY <2>3, <3>1, Zenon
        <3>2. CASE LoadCurrent(c) = built.meta
            <4>1. d # Broken
                BY <1>1, SafeHas, Zenon DEF Slot, Serving
            <4> QED BY <1>2, <1>4, <3>2, <4>1, Zenon
        <3> QED BY <2>2, <3>1, <3>2, Zenon
    <2>5. Recoverable'
        BY <2>1, <2>4, Zenon DEF Recoverable
    <2> QED BY <1>a, <1>1, <2>5, SafeHas, Zenon DEF Owners, Condition, Serving
<1>7. Slot' /\ Files'
    BY <1>a, <1>1, <1>2, <1>3, SafeHas, Zenon DEF Slot, Files
<1>8. Build'
    BY <1>a, <1>1, <1>3, SafeHas, Zenon DEF Build
<1>9. Install'
    BY <1>a, <1>1, SafeHas, Zenon DEF Owners, Install
<1> QED BY <1>5, <1>6, <1>7, <1>8, <1>9, SafeFrom, Zenon

\* The fsync after a build leaves the published pair as the only one.
LEMMA BuildSyncSafe == ASSUME Safe, BuildSync PROVE Safe'
<1>a. /\ status = "up" /\ builder = "sync" /\ builder' = "returned" /\ SyncWorkDir
      /\ publicationGate' = "free"
      /\ UNCHANGED <<mark, markMay, lastApplied, lastMembership, slot, hook, gate, user,
                     purged, reported, status, worker, incoming, builderOwns, snapshotIdx,
                     db, dbMay, stateGate, built>>
    BY Zenon DEF BuildSync
<1>1. /\ Serving /\ builder = "sync" /\ status = "up"
      /\ current \in currentMay /\ current \in SnapshotFiles
      /\ LoadCurrent(current) = built.meta /\ built.meta.idx \in Index
    BY <1>a, Parts, SafeHas, Zenon DEF Typed, Condition, Build
<1>2. current' = current /\ currentMay' = {current}
    BY <1>a, Zenon DEF SyncWorkDir
<1>3. built.meta.idx <= LoadCurrent(current).idx
    BY <1>1, LogLenNat DEF Index
<1>4. Typed' /\ Owners'
    <2>1. Typed'
        BY <1>a, <1>1, <1>2, SafeHas, SMTT(120) DEF Typed
    <2>2. Owners'
        BY <1>a, <1>1, SafeHas, ZenonT(60) DEF Typed, Owners
    <2> QED BY <2>1, <2>2, Zenon
<1>5. Condition'
    BY <1>a, <1>1, <1>2, SafeHas, Zenon DEF Owners, Condition, Serving, Recoverable
<1>6. Slot' /\ Files'
    BY <1>a, <1>1, <1>2, SafeHas, Zenon DEF Slot, Files
<1>7. Build'
    BY <1>a, <1>1, <1>2, <1>3, SafeHas, Zenon DEF Build
<1>8. Install'
    BY <1>a, <1>1, SafeHas, Zenon DEF Owners, Install
<1> QED BY <1>4, <1>5, <1>6, <1>7, <1>8, SafeFrom, Zenon

-----------------------------------------------------------------------------
(***************************************************************************)
(* An installation preserves the invariant of KiwiStateMachine up to the   *)
(* opening of the restored Storage.                                        *)
(***************************************************************************)

-----------------------------------------------------------------------------
(* An installation up to its marker, and the removal of the marker *)

\* Steps of an installation that move control, gates or markers only.
LEMMA InstallControlSafe ==
    ASSUME Safe,
           \/ RejectSnapshot
           \/ LockPublication
           \/ RequestPause
           \/ Drained
           \/ LockState
           \/ PersistMarker
           \/ PersistMarkerFails
           \/ CreateCleanupMarker
           \/ RemovePrimaryMarker
           \/ SyncPrimaryRemoval
           \/ RemoveCleanupMarker
    PROVE  Safe'
<1>1. UNCHANGED <<db, dbMay, current, currentMay, lastApplied, lastMembership, slot,
                  hook, purged, reported, incoming, builder, built, status>>
    BY Zenon DEF RejectSnapshot, LockPublication, RequestPause, Drained, LockState,
           PersistMarker, PersistMarkerFails, CreateCleanupMarker,
           RemovePrimaryMarker, SyncPrimaryRemoval, RemoveCleanupMarker
<1>2. (Recoverable => Recoverable') /\ Slot' /\ Files' /\ Build'
    BY <1>1, SlotFrame, FilesFrame, BuildFrame, RecoverableFrame, SafeHas, Zenon
<1>3. CASE RejectSnapshot
    <2>1. Typed' /\ Owners'
        BY <1>3, SafeHas DEF Typed, Owners, RejectSnapshot
    <2>2. Condition' /\ Install'
        BY <1>1, <1>2, <1>3, SafeHas, Zenon DEF Owners, Condition, Serving, Install, RejectSnapshot
    <2> QED BY <1>2, <2>1, <2>2, SafeFrom, Zenon
<1>4. CASE LockPublication
    <2>1. Typed' /\ Owners'
        BY <1>4, SafeHas, Zenon DEF Typed, Owners, LockPublication
    <2>2. Condition' /\ Install'
        BY <1>1, <1>2, <1>4, SafeHas, Zenon DEF Owners, Condition, Serving, Install, LockPublication
    <2> QED BY <1>2, <2>1, <2>2, SafeFrom, Zenon
<1>5. CASE RequestPause
    <2>1. Typed' /\ Owners'
        BY <1>5, SafeHas DEF Typed, Owners, RequestPause
    <2>2. Condition' /\ Install'
        BY <1>1, <1>2, <1>5, SafeHas, Zenon DEF Owners, Condition, Serving, Install, RequestPause
    <2> QED BY <1>2, <2>1, <2>2, SafeFrom, Zenon
<1>6. CASE Drained
    <2>1. Typed' /\ Owners'
        BY <1>6, SafeHas DEF Typed, Owners, Drained
    <2>2. Condition' /\ Install'
        BY <1>1, <1>2, <1>6, SafeHas, Zenon DEF Owners, Condition, Serving, Install, Drained
    <2> QED BY <1>2, <2>1, <2>2, SafeFrom, Zenon
<1>7. CASE LockState
    <2>1. Typed' /\ Owners'
        BY <1>7, SafeHas DEF Typed, Owners, LockState
    <2>2. Condition' /\ Install'
        BY <1>1, <1>2, <1>7, SafeHas, Zenon DEF Owners, Condition, Serving, Install, LockState
    <2> QED BY <1>2, <2>1, <2>2, SafeFrom, Zenon
<1>8. CASE PersistMarker
    <2>1. Typed' /\ Owners'
        BY <1>8, SafeHas DEF Typed, Owners, PersistMarker
    <2>2. Condition' /\ Install'
        BY <1>1, <1>2, <1>8, SafeHas, Zenon DEF Owners, Condition, Serving, Install, PersistMarker
    <2> QED BY <1>2, <2>1, <2>2, SafeFrom, Zenon
<1>9. CASE PersistMarkerFails
    <2>1. Typed' /\ Owners'
        BY <1>9, SafeHas DEF Typed, Owners, PersistMarkerFails
    <2>2. Condition' /\ Install'
        BY <1>1, <1>2, <1>9, SafeHas, Zenon DEF Owners, Condition, Serving, Install, PersistMarkerFails
    <2> QED BY <1>2, <2>1, <2>2, SafeFrom, Zenon
<1>10. CASE CreateCleanupMarker
    <2>1. Typed' /\ Owners'
        BY <1>10, SafeHas DEF Typed, Owners, CreateCleanupMarker
    <2>2. Condition' /\ Install'
        BY <1>1, <1>2, <1>10, SafeHas, Zenon DEF Owners, Condition, Serving, Install, CreateCleanupMarker
    <2> QED BY <1>2, <2>1, <2>2, SafeFrom, Zenon
<1>11. CASE RemovePrimaryMarker
    <2>1. Typed' /\ Owners'
        BY <1>11, SafeHas DEF Typed, Owners, RemovePrimaryMarker
    <2>2. Condition' /\ Install'
        BY <1>1, <1>2, <1>11, SafeHas, Zenon DEF Owners, Condition, Serving, Install, RemovePrimaryMarker
    <2> QED BY <1>2, <2>1, <2>2, SafeFrom, Zenon
<1>12. CASE SyncPrimaryRemoval
    <2>1. Typed' /\ Owners'
        BY <1>12, SafeHas DEF Typed, Owners, SyncPrimaryRemoval
    <2>2. Condition' /\ Install'
        BY <1>1, <1>2, <1>12, SafeHas, Zenon DEF Owners, Condition, Serving, Install, SyncPrimaryRemoval
    <2> QED BY <1>2, <2>1, <2>2, SafeFrom, Zenon
<1>13. CASE RemoveCleanupMarker
    <2>1. Typed' /\ Owners'
        BY <1>13, SafeHas DEF Typed, Owners, RemoveCleanupMarker
    <2>2. Condition' /\ Install'
        BY <1>1, <1>2, <1>13, SafeHas, Zenon DEF Owners, Condition, Serving, Install, RemoveCleanupMarker
    <2> QED BY <1>2, <2>1, <2>2, SafeFrom, Zenon
<1> QED BY <1>3, <1>4, <1>5, <1>6, <1>7, <1>8, <1>9, <1>10, <1>11, <1>12, <1>13, Zenon

\* The placeholder replaces the Storage under the marker.
LEMMA SwapPlaceholderSafe == ASSUME Safe, SwapPlaceholder PROVE Safe'
<1>1. Typed' /\ Owners'
    BY SafeHas, Zenon DEF Typed, Owners, SwapPlaceholder
<1>2. Condition' /\ Slot'
    BY SafeHas, Zenon DEF Owners, Condition, Slot, SwapPlaceholder
<1>3. Files' /\ Build' /\ Install'
    BY SafeHas, Zenon DEF Files, Build, Install, SwapPlaceholder
<1> QED BY <1>1, <1>2, <1>3, SafeFrom, Zenon

-----------------------------------------------------------------------------
(* Installing a snapshot *)

\* A staged snapshot is whole, matches its metadata and is ahead of last_applied.
LEMMA StageSnapshotSafe ==
    ASSUME Safe, NEW m \in OfferedMeta, NEW t \in OfferedTar, StageSnapshot(m, t)
    PROVE  Safe'
<1>a. /\ status = "up" /\ worker = "idle" /\ m.idx > lastApplied
      /\ ArchiveMatches(m, t)
      /\ incoming' = [meta |-> m, tar |-> t] /\ worker' = "publication"
      /\ markMay' = {mark}
      /\ UNCHANGED <<db, dbMay, mark, current, currentMay, lastApplied, lastMembership,
                     slot, hook, gate, user, stateGate, publicationGate, builder, built,
                     builderOwns, snapshotIdx, purged, reported, status>>
    BY Zenon DEF StageSnapshot
<1>1. /\ m \in SnapshotMeta /\ m.idx \in Index
      /\ IsLastWrite(Member, m.idx, m.mem)
    BY MaxBuildsNat DEF OfferedMeta, SnapshotMeta
<1>2. t \in SnapshotData /\ Covers(t.data, t.idx)
    <2>1. [Keys -> Index] \subseteq Content
        BY LogLenNat DEF Index, Content, Local
    <2> QED BY <2>1, Zenon DEF OfferedTar, SnapshotData
<1>3. /\ incoming' \in [meta : SnapshotMeta, tar : SnapshotData]
      /\ incoming'.meta = m /\ incoming'.tar = t
    BY <1>a, <1>1, <1>2, Zenon
<1>4. t.idx = m.idx /\ lastApplied <= m.idx
    <2>1. t.idx = m.idx /\ lastApplied < m.idx /\ lastApplied \in Index
        BY <1>a, SafeHas, Zenon DEF ArchiveMatches, Typed
    <2> QED BY <1>1, <2>1, LogLenNat DEF Index
<1>5. Typed' /\ Owners'
    <2>1. Typed'
        BY <1>a, <1>3, SafeHas, SMTT(120) DEF Typed
    <2>2. Owners'
        BY <1>a, <1>3, SafeHas, Zenon DEF Typed, Owners
    <2> QED BY <2>1, <2>2, Zenon
<1>6. Condition'
    BY <1>a, SafeHas, Zenon DEF Typed, Condition, Serving, Recoverable
<1>7. Slot' /\ Files'
    BY <1>a, SafeHas, Zenon DEF Slot, Files
<1>8. Build'
    BY <1>a, SafeHas, Zenon DEF Build
<1>9. Install'
    BY <1>a, <1>1, <1>2, <1>3, <1>4, Zenon DEF Install
<1> QED BY <1>5, <1>6, <1>7, <1>8, <1>9, SafeFrom, Zenon

\* Between the marker and the reopened Storage the database may be anything:
\* the marker keeps a restart away from it.
LEMMA RemoveTargetSafe == ASSUME Safe, RemoveTarget PROVE Safe'
<1>a. /\ status = "up" /\ worker = "remove" /\ worker' = "rename" /\ db' = Broken /\
         dbMay' = dbMay \union {Broken}
      /\ UNCHANGED <<status, incoming, builder, built, snapshotIdx, purged, mark, markMay,
                     current, currentMay, lastApplied, lastMembership, slot, hook, gate,
                     user, stateGate, publicationGate, builderOwns, reported>>
    BY Zenon DEF RemoveTarget
<1>1. slot = "placeholder" /\ builder \notin Building
    BY <1>a, SafeHas, Zenon DEF Typed, Owners, Install
<1>2. Typed' /\ Owners'
    BY <1>a, SafeHas DEF Typed, Owners
<1>3. Condition'
    BY <1>a, <1>1, SafeHas, Zenon DEF Typed, Owners, Condition
<1>4. Slot' /\ Files'
    BY <1>a, <1>1, SafeHas, Zenon DEF Slot, Files
<1>5. Build' /\ Install'
    BY <1>a, <1>1, SafeHas, Zenon DEF Build, Install
<1> QED BY <1>2, <1>3, <1>4, <1>5, SafeFrom, Zenon

\* The staged copy replaces the removed database.
LEMMA RenameStagedSafe == ASSUME Safe, RenameStaged PROVE Safe'
<1>a. /\ status = "up" /\ worker = "rename" /\ worker' = "open" /\ db' = incoming.tar.data
         /\ dbMay' = {incoming.tar.data}
      /\ UNCHANGED <<status, incoming, builder, built, snapshotIdx, purged, mark, markMay,
                     current, currentMay, lastApplied, lastMembership, slot, hook, gate,
                     user, stateGate, publicationGate, builderOwns, reported>>
    BY Zenon DEF RenameStaged
<1>1. slot = "placeholder" /\ builder \notin Building /\ worker = "rename"
    BY <1>a, SafeHas, Zenon DEF Typed, Owners, Install
<1>2. /\ incoming.tar.data \in Content /\ incoming.tar.data # Broken
      /\ Covers(incoming.tar.data, incoming.meta.idx)
    BY <1>1, Parts, SafeHas, Zenon DEF Install
<1>3. Typed' /\ Owners'
    BY <1>a, <1>2, SafeHas DEF Typed, Owners
<1>4. Condition'
    BY <1>a, <1>1, SafeHas, Zenon DEF Owners, Condition
<1>5. Slot' /\ Files'
    BY <1>a, <1>1, SafeHas, Zenon DEF Slot, Files
<1>6. Build' /\ Install'
    BY <1>a, <1>1, <1>2, SafeHas, Zenon DEF Build, Install
<1> QED BY <1>3, <1>4, <1>5, <1>6, SafeFrom, Zenon

\* Opening the restored database takes over its index and membership.
LEMMA OpenRestoredSafe == ASSUME Safe, OpenRestored PROVE Safe'
<1>a. /\ status = "up" /\ worker = "open" /\ worker' = "tar" /\ slot' = "open" /\ hook' =
         "set"
      /\ lastApplied' = incoming.meta.idx
      /\ lastMembership' = incoming.meta.mem
      /\ UNCHANGED <<status, incoming, builder, built, snapshotIdx, purged, db, dbMay,
                     mark, markMay, current, currentMay, gate, user, stateGate,
                     publicationGate, builderOwns, reported>>
    BY Zenon DEF OpenRestored
<1>1. worker = "open" /\ builder \notin Building /\ status = "up"
    BY <1>a, SafeHas, Zenon DEF Typed, Owners
<1>2. /\ incoming.meta.idx \in Index /\ incoming.meta.mem \in Index
      /\ lastApplied \in Index /\ lastApplied <= incoming.meta.idx /\ db \in dbMay
      /\ (\A d \in dbMay : d # Broken /\ Covers(d, incoming.meta.idx))
      /\ IsLastWrite(Member, incoming.meta.idx, incoming.meta.mem)
    BY <1>1, Parts, SafeHas, Zenon DEF Typed, Install
<1>3. \A n \in Index : n <= lastApplied => n <= incoming.meta.idx
    BY <1>2, LogLenNat DEF Index
<1>4. incoming.meta.idx <= incoming.meta.idx
    BY <1>2, LogLenNat DEF Index
<1>5. Typed' /\ Owners'
    BY <1>a, <1>2, SafeHas, Zenon DEF Typed, Owners
<1>6. Condition'
    BY <1>a, <1>1, SafeHas, Zenon DEF Owners, Condition
<1>7. Slot'
    BY <1>a, <1>2, Zenon DEF Slot
<1>8. Files'
    BY <1>a, <1>3, Parts, SafeHas, Zenon DEF Files
<1>9. Build'
    BY <1>a, <1>1, <1>3, Parts, SafeHas, Zenon DEF Build
<1>10. Install'
    BY <1>a, <1>1, <1>2, <1>4, SafeHas, Zenon DEF Install
<1> QED BY <1>5, <1>6, <1>7, <1>8, <1>9, <1>10, SafeFrom, Zenon

-----------------------------------------------------------------------------
(***************************************************************************)
(* The end of an installation preserves the invariant, and the theorems.   *)
(***************************************************************************)

-----------------------------------------------------------------------------
(* The end of an installation *)

\* The installed archive becomes current_snapshot.tar under the marker.
LEMMA InstallRenameTarSafe == ASSUME Safe, OrderedRenames, InstallRenameTar PROVE Safe'
<1>a. /\ status = "up" /\ worker = "tar" /\ worker' = "meta" /\ RenameTar(incoming.tar)
      /\ UNCHANGED <<status, incoming, builder, built, snapshotIdx, purged, db, dbMay,
                     mark, markMay, lastApplied, lastMembership, slot, hook, gate, user,
                     stateGate, publicationGate, builderOwns, reported>>
    BY Zenon DEF InstallRenameTar
<1>1. worker = "tar" /\ builder \notin Building /\ status = "up"
    BY <1>a, SafeHas, Zenon DEF Typed, Owners
<1>2. incoming.tar \in SnapshotData /\ Covers(incoming.tar.data, incoming.tar.idx)
    BY <1>1, Parts, SafeHas, Zenon DEF Install
<1>3. /\ current' \in currentMay' /\ currentMay' = currentMay \union {current'}
      /\ currentMay' \subseteq SnapshotFiles /\ current'.tar # NoFile
      /\ LoadCurrent(current') = LoadCurrent(current) /\ current \in currentMay
      /\ \A c \in currentMay' : /\ c.tar = NoFile => c.meta = NoFile
                                /\ c.tar # NoFile => Covers(c.tar.data, c.tar.idx)
    BY <1>a, <1>2, RenamedTar, SafeHas, Zenon DEF Typed
<1>4. Typed' /\ Owners'
    BY <1>a, <1>3, SafeHas DEF Typed, Owners
<1>5. Condition'
    BY <1>a, <1>1, SafeHas, Zenon DEF Owners, Condition
<1>6. Slot' /\ Files'
    BY <1>a, <1>1, <1>3, SafeHas, Zenon DEF Slot, Files
<1>7. Build'
    BY <1>a, <1>1, <1>3, SafeHas, Zenon DEF Build
<1>8. Install'
    BY <1>a, <1>1, <1>3, SafeHas, Zenon DEF Install
<1> QED BY <1>4, <1>5, <1>6, <1>7, <1>8, SafeFrom, Zenon

\* The installed metadata joins its archive under the marker.
LEMMA InstallRenameMetaSafe == ASSUME Safe, OrderedRenames, InstallRenameMeta PROVE Safe'
<1>a. /\ status = "up" /\ worker = "meta" /\ worker' = "sync" /\ RenameMeta(incoming.meta)
      /\ UNCHANGED <<status, incoming, builder, built, snapshotIdx, purged, db, dbMay,
                     mark, markMay, lastApplied, lastMembership, slot, hook, gate, user,
                     stateGate, publicationGate, builderOwns, reported>>
    BY Zenon DEF InstallRenameMeta
<1>1. /\ worker = "meta" /\ builder \notin Building /\ status = "up"
      /\ current.tar # NoFile /\ lastApplied = incoming.meta.idx
    BY <1>a, SafeHas, Zenon DEF Typed, Owners, Install
<1>2. incoming.meta \in SnapshotMeta /\ incoming.meta.idx \in Index
    BY <1>1, Parts, Zenon
<1>3. /\ current' \in currentMay' /\ currentMay' = currentMay \union {current'}
      /\ currentMay' \subseteq SnapshotFiles
      /\ LoadCurrent(current') = incoming.meta
      /\ \A c \in currentMay' : /\ c.tar = NoFile => c.meta = NoFile
                                /\ c.tar # NoFile => Covers(c.tar.data, c.tar.idx)
    BY <1>a, <1>1, <1>2, RenamedMeta, Zenon
<1>4. reported <= incoming.meta.idx /\ incoming.meta.idx <= lastApplied
    <2>1. /\ reported <= LoadCurrent(current).idx /\ LoadCurrent(current).idx <= lastApplied
          /\ reported \in Index /\ LoadCurrent(current).idx \in Index
        BY <1>1, Parts, SafeHas, Zenon DEF Typed, Files
    <2> QED BY <1>1, <1>2, <2>1, LogLenNat, SMTT(120) DEF Index
<1>5. Typed' /\ Owners'
    BY <1>a, <1>3, SafeHas DEF Typed, Owners
<1>6. Condition'
    BY <1>a, <1>1, SafeHas, Zenon DEF Owners, Condition
<1>7. Slot' /\ Files'
    BY <1>a, <1>1, <1>3, <1>4, SafeHas, Zenon DEF Slot, Files
<1>8. Build'
    BY <1>a, <1>1, <1>3, SafeHas, Zenon DEF Build
<1>9. Install'
    BY <1>a, <1>1, <1>3, SafeHas, Zenon DEF Install
<1> QED BY <1>5, <1>6, <1>7, <1>8, <1>9, SafeFrom, Zenon

\* With the installed snapshot durable, a restart needs the marker no more.
LEMMA InstallSyncSafe == ASSUME Safe, InstallSync PROVE Safe'
<1>a. /\ status = "up" /\ worker = "sync" /\ worker' = "cleanup" /\ SyncWorkDir
      /\ UNCHANGED <<status, incoming, builder, built, snapshotIdx, purged, db, dbMay,
                     mark, markMay, lastApplied, lastMembership, slot, hook, gate, user,
                     stateGate, publicationGate, builderOwns, reported>>
    BY Zenon DEF InstallSync
<1>1. /\ worker = "sync" /\ builder \notin Building /\ status = "up"
      /\ slot = "open" /\ hook = "set"
      /\ current \in currentMay /\ current \in SnapshotFiles
      /\ LoadCurrent(current) = incoming.meta
      /\ \A d \in dbMay : d # Broken /\ Covers(d, incoming.meta.idx)
      /\ IsLastWrite(Member, incoming.meta.idx, incoming.meta.mem)
    BY <1>a, SafeHas, Zenon DEF Typed, Owners, Slot, Install
<1>2. current' = current /\ currentMay' = {current}
    BY <1>a, Zenon DEF SyncWorkDir
<1>3. purged <= incoming.meta.idx
    <2>1. /\ purged <= reported /\ reported <= LoadCurrent(current).idx
          /\ purged \in Index /\ reported \in Index /\ incoming.meta.idx \in Index
        BY <1>1, Parts, SafeHas, Zenon DEF Typed, Files
    <2> QED BY <1>1, <2>1, LogLenNat DEF Index
<1>4. Typed' /\ Owners'
    BY <1>a, <1>1, <1>2, SafeHas, Zenon DEF Typed, Owners
<1>5. Condition'
    <2>1. Recoverable'
        BY <1>a, <1>1, <1>2, <1>3, Zenon DEF Recoverable
    <2> QED BY <1>a, <1>1, <2>1, Zenon DEF Condition, Serving
<1>6. Slot' /\ Files'
    BY <1>a, <1>1, <1>2, SafeHas, Zenon DEF Slot, Files
<1>7. Build'
    BY <1>a, <1>1, <1>2, SafeHas, Zenon DEF Build
<1>8. Install'
    BY <1>a, <1>1, <1>2, SafeHas, Zenon DEF Install
<1> QED BY <1>4, <1>5, <1>6, <1>7, <1>8, SafeFrom, Zenon

\* The access gate reopens over the complete restored Storage.
LEMMA FinishInstallSafe == ASSUME Safe, FinishInstall PROVE Safe'
<1>a. /\ status = "up" /\ worker = "resume" /\ worker' = "idle" /\ markMay' \in {markMay,
         {mark}}
      /\ gate' = "open"
      /\ stateGate' = "free" /\ publicationGate' = "free"
      /\ reported' = incoming.meta.idx
      /\ UNCHANGED <<status, incoming, builder, built, snapshotIdx, purged, db, dbMay,
                     mark, current, currentMay, lastApplied, lastMembership, slot, hook,
                     user, builderOwns>>
    BY Zenon DEF FinishInstall
<1>1. /\ worker = "resume" /\ status = "up" /\ builder \notin Building /\ Serving
      /\ current \in currentMay
      /\ \A c \in currentMay : LoadCurrent(c) = incoming.meta
      /\ incoming.meta.idx \in Index
    BY <1>a, Parts, SafeHas, Zenon DEF Typed, Owners, Condition, Install
<1>2. incoming.meta.idx <= incoming.meta.idx /\ purged <= incoming.meta.idx
    <2>1. purged <= incoming.meta.idx /\ purged \in Index
        BY <1>1, SafeHas, Zenon DEF Typed, Serving, Recoverable
    <2> QED BY <1>1, <2>1, LogLenNat DEF Index
<1>3. Typed' /\ Owners'
    BY <1>a, <1>1, SafeHas DEF Typed, Owners
<1>4. Condition'
    BY <1>a, <1>1, SafeHas, Zenon DEF Condition, Serving, Recoverable
<1>5. Slot' /\ Files'
    BY <1>a, <1>1, <1>2, SafeHas, Zenon DEF Slot, Files
<1>6. Build' /\ Install'
    BY <1>a, <1>1, SafeHas, Zenon DEF Build, Install
<1> QED BY <1>3, <1>4, <1>5, <1>6, SafeFrom, Zenon

\* A failure after the marker leaves the marker and the closed gate behind.
LEMMA InstallFailsSafe == ASSUME Safe, InstallFails PROVE Safe'
<1>1. /\ worker \in HoldsState \ {"marker", "swap", "resume"} /\ status = "up"
      /\ builder \notin Building /\ gate = "closed"
      /\ "none" \notin markMay /\ "none" \notin markMay'
    BY SafeHas, Zenon DEF Typed, Owners, InstallFails
<1>2. incoming.tar.data \in Content
    BY <1>1, Parts, Zenon
<1>3. Typed' /\ Owners'
    <2>1. Typed'
        BY <1>1, <1>2, SafeHas, SMTT(120) DEF Typed, InstallFails
    <2>2. Owners'
        BY <1>1, <1>2, SafeHas, Zenon DEF Typed, Owners, InstallFails
    <2> QED BY <2>1, <2>2, Zenon
<1>4. Condition'
    BY <1>1, Zenon DEF Condition, InstallFails
<1>5. Slot'
    <2>1. CASE worker = "open" /\ slot' = "open"
        <3>1. /\ incoming.meta.idx \in Index /\ lastApplied \in Index
              /\ lastApplied <= incoming.meta.idx /\ db \in dbMay
              /\ \A d \in dbMay : d # Broken /\ d \in Content /\ Covers(d, incoming.meta.idx)
            BY <1>1, <2>1, Parts, SafeHas, Zenon DEF Typed, Install
        <3>2. Covers(db, lastApplied)
            BY <3>1, CoversLess, Zenon
        <3>3. hook' = "set" /\ UNCHANGED <<dbVars, appliedVars>>
            BY <1>1, <2>1, SafeHas, Zenon DEF Install, InstallFails
        <3>4. IsLastWrite(Member, lastApplied, lastMembership)
            BY <1>1, SafeHas, Zenon DEF Slot
        <3> QED BY <3>1, <3>2, <3>3, <3>4, Zenon DEF Slot
    <2>2. CASE ~(worker = "open" /\ slot' = "open")
        BY <1>1, <2>2, SafeHas, Zenon DEF Slot, Install, InstallFails
    <2> QED BY <2>1, <2>2, Zenon
<1>6. Files'
    BY SafeHas, Zenon DEF Files, InstallFails
<1>7. Build' /\ Install'
    BY <1>1, SafeHas, Zenon DEF Build, Install, InstallFails
<1> QED BY <1>3, <1>4, <1>5, <1>6, <1>7, SafeFrom, Zenon

-----------------------------------------------------------------------------
(* The theorems *)

\* Every step preserves the inductive invariant: one case per action.
LEMMA NextSafe == ASSUME OrderedRenames, Safe, Next PROVE Safe'
<1>1. CASE EnvironmentStep
    BY <1>1, CrashSafe, StartBlockedSafe, StartSafe, RejoinSafe, FlushSafe, PurgeSafe, Zenon
       DEF EnvironmentStep
<1>2. CASE Apply \/ ApplyFails
    BY <1>2, ApplySafe, NodeControlSafe, Zenon
<1>3. ASSUME NEW u \in Users, CommandStep(u) PROVE Safe'
    BY <1>3, NodeControlSafe, WriteSafe, Zenon DEF CommandStep
<1>4. CASE GetSnapshotBuilder \/ BuildStep \/ BuildFails
    BY <1>4, GetSnapshotBuilderSafe, CreateCheckpointSafe, BuildRenameTarSafe,
       BuildRenameMetaSafe, BuildSyncSafe, DropBuilderSafe, BuildFailsSafe, Zenon DEF BuildStep
<1>5. ASSUME NEW m \in OfferedMeta, NEW t \in OfferedTar, StageSnapshot(m, t)
      PROVE  Safe'
    BY <1>5, StageSnapshotSafe, Zenon
<1>6. CASE RejectSnapshot \/ PersistMarkerFails \/ InstallFails
    BY <1>6, InstallControlSafe, InstallFailsSafe, Zenon
<1>7. CASE InstallProgress
    BY <1>7, InstallControlSafe, SwapPlaceholderSafe, RemoveTargetSafe, RenameStagedSafe, OpenRestoredSafe,
       InstallRenameTarSafe, InstallRenameMetaSafe, InstallSyncSafe, FinishInstallSafe, Zenon
       DEF InstallProgress
<1> QED BY <1>1, <1>2, <1>3, <1>4, <1>5, <1>6, <1>7, Zenon DEF Next

\* The inductive invariant holds in every reachable state, for every log and
\* every interleaving of apply, build, install, commands and power losses.
THEOREM RecoveryInvariant == ASSUME OrderedRenames PROVE Spec => []Safe
<1>1. Safe /\ [Next]_vars => Safe'
    BY NextSafe, StutterSafe, Zenon
<1> QED BY InitSafe, <1>1, PTL DEF Spec

\* Every variable keeps its type.
THEOREM StateTypes == ASSUME OrderedRenames PROVE Spec => []TypeOK
<1>1. Safe => TypeOK
    <2> SUFFICES ASSUME Safe PROVE TypeOK
        BY Zenon
    <2>1. current \in SnapshotFiles
        BY SafeHas, Zenon DEF Typed
    <2> QED BY <2>1, SafeHas, Zenon DEF Typed, TypeOK, SnapshotFiles
<1> QED BY <1>1, RecoveryInvariant, PTL

\* Commands run only on the complete live Storage with its append-log function.
THEOREM CommandsAreSafe == ASSUME OrderedRenames PROVE Spec => []CommandsSeeLiveStorage
<1>1. Safe => CommandsSeeLiveStorage
    <2> SUFFICES ASSUME Safe, status = "up",
                        gate = "open" \/ \E u \in Users : user[u] # "idle"
                 PROVE  slot = "open" /\ hook = "set" /\ db # Broken
        BY Zenon DEF CommandsSeeLiveStorage
    <2>1. gate # "closed"
        BY SafeHas, Zenon DEF Owners
    <2>2. slot = "open" /\ hook = "set"
        BY <2>1, SafeHas, Zenon DEF Typed, Owners, Condition, Serving
    <2> QED BY <2>2, SafeHas, Zenon DEF Typed, Slot
<1> QED BY <1>1, RecoveryInvariant, PTL

\* The replica holds what the log says up to last_applied, whatever sequence
\* of applies, installs, crashes and restarts led to the state.
THEOREM ReplicaIsCorrect == ASSUME OrderedRenames PROVE Spec => []ReplicaMatchesLog
<1>1. Safe => ReplicaMatchesLog
    BY SafeHas, Zenon DEF Typed, Slot, ReplicaMatchesLog
<1> QED BY <1>1, RecoveryInvariant, PTL

\* A power loss at any moment leaves a disk that a restart either recovers
\* from exactly or refuses because of a marker.
THEOREM RecoveryIsSafe == ASSUME OrderedRenames PROVE Spec => []RestartIsSafe
<1>1. Safe => RestartIsSafe
    <2> SUFFICES ASSUME Safe, "none" \in markMay PROVE Recoverable
        BY Zenon DEF RestartIsSafe, Recoverable
    <2>1. CASE status # "up"
        BY <2>1, SafeHas, Zenon DEF Condition
    <2>2. CASE status = "up"
        BY <2>2, SafeHas, Zenon DEF Typed, Owners, Condition, Serving
    <2> QED BY <2>1, <2>2, Zenon
<1> QED BY <1>1, RecoveryInvariant, PTL

\* What Raft has been told of, and may purge up to, can be read back.
THEOREM PublicationIsOrdered == ASSUME OrderedRenames PROVE Spec => []ReportedIsReadable
<1>1. Safe => ReportedIsReadable
    BY SafeHas, Zenon DEF Typed, Files, ReportedIsReadable
<1> QED BY <1>1, RecoveryInvariant, PTL

\* The published archive is the state at its index, up to what the log repeats.
THEOREM ArchiveIsSound == ASSUME OrderedRenames PROVE Spec => []ArchiveIsReplayable
<1>1. Safe => ArchiveIsReplayable
    BY SafeHas, Zenon DEF Typed, Files, ArchiveIsReplayable
<1> QED BY <1>1, RecoveryInvariant, PTL

\* last_applied never moves backwards in a running process.
THEOREM AppliedIsMonotone == ASSUME OrderedRenames PROVE Spec => AppliedNeverRegresses
<1> DEFINE Forward == (status = "up" /\ status' = "up") => lastApplied' >= lastApplied
<1>1. ASSUME Safe, [Next]_vars PROVE Forward
    <2> SUFFICES ASSUME status = "up", status' = "up" PROVE lastApplied' >= lastApplied
        BY Zenon
    <2>1. lastApplied \in Nat /\ lastApplied >= lastApplied
        BY <1>1, LogLenNat, SafeHas DEF Typed, Index
    <2>2. CASE Apply
        BY <2>1, <2>2 DEF Apply
    <2>3. CASE OpenRestored
        <3>1. incoming.meta.idx \in Index /\ lastApplied <= incoming.meta.idx
            BY <1>1, <2>3, Parts, SafeHas, Zenon DEF Install, OpenRestored
        <3> QED BY <2>1, <2>3, <3>1, LogLenNat, Zenon DEF OpenRestored, Index
    <2>4. CASE ~Apply /\ ~OpenRestored
        <3>1. CASE EnvironmentStep
            BY <3>1, <2>1, Zenon DEF EnvironmentStep, Crash, StartBlocked, Start, Rejoin, Flush, PurgeLog
        <3>2. CASE \E u \in Users : CommandStep(u)
            BY <3>2, <2>1, Zenon DEF CommandStep, Enter, Write, Answered, Leave
        <3>3. CASE GetSnapshotBuilder \/ BuildStep \/ BuildFails
            BY <3>3, <2>1, Zenon DEF GetSnapshotBuilder, BuildStep, BuildFails, CreateCheckpoint,
               BuildRenameTar, BuildRenameMeta, BuildSync, DropBuilder
        <3>4. CASE InstallProgress
            BY <3>4, <2>1, <2>4, Zenon DEF InstallProgress, LockPublication, RequestPause, Drained,
               LockState, PersistMarker, SwapPlaceholder, RemoveTarget, RenameStaged,
               InstallRenameTar, InstallRenameMeta, InstallSync, CreateCleanupMarker,
               RemovePrimaryMarker, SyncPrimaryRemoval, RemoveCleanupMarker, FinishInstall
        <3>5. CASE \/ \E m \in OfferedMeta, t \in OfferedTar : StageSnapshot(m, t)
                   \/ ApplyFails \/ RejectSnapshot \/ PersistMarkerFails \/ InstallFails
            BY <3>5, <2>1, Zenon DEF StageSnapshot, ApplyFails, RejectSnapshot,
               PersistMarkerFails, InstallFails
        <3>6. CASE UNCHANGED vars
            BY <3>6, <2>1, Zenon DEF vars
        <3> QED BY <1>1, <2>4, <3>1, <3>2, <3>3, <3>4, <3>5, <3>6, Zenon DEF Next
    <2> QED BY <2>2, <2>3, <2>4, Zenon
<1>2. Safe /\ [Next]_vars => [Forward]_vars
    BY <1>1, Zenon
<1> QED BY <1>2, RecoveryInvariant, PTL DEF Spec, AppliedNeverRegresses
=============================================================================
