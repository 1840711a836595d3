------------------------- MODULE StorageAccessGate -------------------------
(***************************************************************************)
(* StorageAccessGate of common/runtime/storage_server.rs, one action per   *)
(* atomic operation: the SeqCst loads, stores and read-modify-writes on    *)
(* `paused` and `active`, and the operations on the tokio Notify           *)
(* `state_changed`.                                                        *)
(*                                                                         *)
(* A user is a task that calls enter(), keeps the StorageAccessPermit for  *)
(* a while and drops it.  There is one pauser, the snapshot installer: the *)
(* Raft state machine worker calls install_snapshot one at a time.         *)
(*                                                                         *)
(* Notify (external): notified() followed by enable() registers the caller *)
(* in `waiters`; notify_waiters() removes everybody registered at that     *)
(* moment and leaves nothing behind for later callers; an await returns    *)
(* once the caller is no longer registered; dropping the future            *)
(* unregisters it.                                                         *)
(***************************************************************************)
EXTENDS Integers, FiniteSets

CONSTANTS
    Users,      \* tasks that enter the gate
    Pauser      \* the snapshot installer

ASSUME UsersFinite == IsFiniteSet(Users)
ASSUME PauserIsNoUser == Pauser \notin Users

VARIABLES
    paused,     \* StorageAccessGateInner::paused
    active,     \* StorageAccessGateInner::active
    waiters,    \* tasks registered with state_changed
    pc,         \* where each user is in enter() or in its permit's drop
    pausePc     \* where the installer is in request_pause() or resume()

vars == <<paused, active, waiters, pc, pausePc>>

UserPc == {"idle", "check", "register", "recheck", "sleep", "increment",
           "confirm", "retreat", "retreatNotify", "held", "dropNotify"}

PausePc == {"idle", "register", "check", "sleep", "paused", "resumeNotify"}

Init ==
    /\ paused = FALSE
    /\ active = 0
    /\ waiters = {}
    /\ pc = [u \in Users |-> "idle"]
    /\ pausePc = "idle"

At(u, from, to) ==
    /\ pc[u] = from
    /\ pc' = [pc EXCEPT ![u] = to]

(***************************************************************************)
(* enter()                                                                 *)
(***************************************************************************)
EnterCall(u) ==
    /\ At(u, "idle", "check")
    /\ UNCHANGED <<paused, active, waiters, pausePc>>

\* Mutant: a closed gate is retried at once instead of waited for.
EnterCheckSpins(u) ==
    /\ At(u, "check", "increment")
    /\ UNCHANGED <<paused, active, waiters, pausePc>>

\* while self.inner.paused.load(SeqCst)
EnterCheck(u) ==
    /\ At(u, "check", IF paused THEN "register" ELSE "increment")
    /\ UNCHANGED <<paused, active, waiters, pausePc>>

\* let resumed = state_changed.notified(); resumed.enable()
EnterRegister(u) ==
    /\ At(u, "register", "recheck")
    /\ waiters' = waiters \union {u}
    /\ UNCHANGED <<paused, active, pausePc>>

\* Mutant: sleep without a second look at `paused`.
EnterRecheckDropped(u) ==
    /\ At(u, "recheck", "sleep")
    /\ UNCHANGED <<paused, active, waiters, pausePc>>

\* if !paused.load(SeqCst) { break }: leaving the loop body drops `resumed`
EnterRecheck(u) ==
    /\ At(u, "recheck", IF paused THEN "sleep" ELSE "increment")
    /\ waiters' = IF paused THEN waiters ELSE waiters \ {u}
    /\ UNCHANGED <<paused, active, pausePc>>

\* resumed.await
EnterAwake(u) ==
    /\ u \notin waiters
    /\ At(u, "sleep", "check")
    /\ UNCHANGED <<paused, active, waiters, pausePc>>

\* active.fetch_add(1)
EnterIncrement(u) ==
    /\ At(u, "increment", "confirm")
    /\ active' = active + 1
    /\ UNCHANGED <<paused, waiters, pausePc>>

\* Mutant: `paused` is not read again after the increment.
EnterConfirmDropped(u) ==
    /\ At(u, "confirm", "held")
    /\ UNCHANGED <<paused, active, waiters, pausePc>>

\* Mutant: an entry gives way to any other entry, not only to a pause.
EnterConfirmYields(u) ==
    /\ At(u, "confirm", IF paused \/ active > 1 THEN "retreat" ELSE "held")
    /\ UNCHANGED <<paused, active, waiters, pausePc>>

\* if !paused.load(SeqCst) { return permit }
EnterConfirm(u) ==
    /\ At(u, "confirm", IF paused THEN "retreat" ELSE "held")
    /\ UNCHANGED <<paused, active, waiters, pausePc>>

\* if active.fetch_sub(1) == 1 { notify_waiters() }, then round the loop again
EnterRetreat(u) ==
    /\ At(u, "retreat", IF active = 1 THEN "retreatNotify" ELSE "check")
    /\ active' = active - 1
    /\ UNCHANGED <<paused, waiters, pausePc>>

EnterRetreatNotify(u) ==
    /\ At(u, "retreatNotify", "check")
    /\ waiters' = {}
    /\ UNCHANGED <<paused, active, pausePc>>

(***************************************************************************)
(* StorageAccessPermit::drop                                               *)
(***************************************************************************)
\* Mutant: the last permit goes without notify_waiters().
PermitDropSilent(u) ==
    /\ At(u, "held", "idle")
    /\ active' = active - 1
    /\ UNCHANGED <<paused, waiters, pausePc>>

PermitDrop(u) ==
    /\ At(u, "held", IF active = 1 THEN "dropNotify" ELSE "idle")
    /\ active' = active - 1
    /\ UNCHANGED <<paused, waiters, pausePc>>

PermitDropNotify(u) ==
    /\ At(u, "dropNotify", "idle")
    /\ waiters' = {}
    /\ UNCHANGED <<paused, active, pausePc>>

(***************************************************************************)
(* request_pause()                                                         *)
(***************************************************************************)
\* paused.store(true); the cancellation guard is armed
RequestPause ==
    /\ pausePc = "idle"
    /\ paused' = TRUE
    /\ pausePc' = "register"
    /\ UNCHANGED <<active, waiters, pc>>

\* let drained = state_changed.notified(); drained.enable()
PauseRegister ==
    /\ pausePc = "register"
    /\ waiters' = waiters \union {Pauser}
    /\ pausePc' = "check"
    /\ UNCHANGED <<paused, active, pc>>

\* Mutant: one permit is not waited for.
PauseCheckOffByOne ==
    /\ pausePc = "check"
    /\ IF active <= 1
       THEN /\ pausePc' = "paused"
            /\ waiters' = waiters \ {Pauser}
       ELSE /\ pausePc' = "sleep"
            /\ UNCHANGED waiters
    /\ UNCHANGED <<paused, active, pc>>

\* if active.load(SeqCst) == 0 { disarm; return }: dropping `drained`
PauseCheck ==
    /\ pausePc = "check"
    /\ IF active = 0
       THEN /\ pausePc' = "paused"
            /\ waiters' = waiters \ {Pauser}
       ELSE /\ pausePc' = "sleep"
            /\ UNCHANGED waiters
    /\ UNCHANGED <<paused, active, pc>>

\* drained.await
PauseAwake ==
    /\ pausePc = "sleep"
    /\ Pauser \notin waiters
    /\ pausePc' = "register"
    /\ UNCHANGED <<paused, active, waiters, pc>>

\* The future is dropped while it awaits: `drained` unregisters and
\* PauseCancellationGuard::drop calls resume(), whose store comes first.
PauseCancel ==
    /\ pausePc = "sleep"
    /\ paused' = FALSE
    /\ waiters' = waiters \ {Pauser}
    /\ pausePc' = "resumeNotify"
    /\ UNCHANGED <<active, pc>>

(***************************************************************************)
(* resume()                                                                *)
(***************************************************************************)
Resume ==
    /\ pausePc = "paused"
    /\ paused' = FALSE
    /\ pausePc' = "resumeNotify"
    /\ UNCHANGED <<active, waiters, pc>>

ResumeNotify ==
    /\ pausePc = "resumeNotify"
    /\ waiters' = {}
    /\ pausePc' = "idle"
    /\ UNCHANGED <<paused, active, pc>>

EnterStep(u) ==
    \/ EnterCheck(u) \/ EnterRegister(u) \/ EnterRecheck(u) \/ EnterAwake(u)
    \/ EnterIncrement(u) \/ EnterConfirm(u)
    \/ EnterRetreat(u) \/ EnterRetreatNotify(u)

DropStep(u) == PermitDrop(u) \/ PermitDropNotify(u)

PauseStep == PauseRegister \/ PauseCheck \/ PauseAwake

Next ==
    \/ \E u \in Users : EnterCall(u) \/ EnterStep(u) \/ DropStep(u)
    \/ RequestPause \/ PauseStep \/ PauseCancel
    \/ Resume \/ ResumeNotify

(***************************************************************************)
(* Tokio polls every task that is ready, so a task inside enter() or       *)
(* request_pause() or resume() keeps going; a permit is held while one     *)
(* batch executes and is then dropped.  Nothing obliges a task to call     *)
(* enter(), the installer to ask for a pause, a pause to be cancelled, or  *)
(* an installer that failed after writing its marker to resume.            *)
(***************************************************************************)
Fairness ==
    /\ \A u \in Users : WF_vars(EnterStep(u)) /\ WF_vars(DropStep(u))
    /\ WF_vars(PauseStep)
    /\ WF_vars(ResumeNotify)

Spec == Init /\ [][Next]_vars

FairSpec == Spec /\ Fairness

(***************************************************************************)
(* Properties                                                              *)
(***************************************************************************)
TypeOK ==
    /\ paused \in BOOLEAN
    /\ active \in Int
    /\ waiters \subseteq Users \union {Pauser}
    /\ pc \in [Users -> UserPc]
    /\ pausePc \in PausePc

Holders == {u \in Users : pc[u] = "held"}

\* Users that have incremented `active` and not yet decremented it.
Counted == {u \in Users : pc[u] \in {"confirm", "retreat", "held"}}

\* The gate's counter is exact at every interleaving of fetch_add and
\* fetch_sub: it counts the permits and the entries still to be confirmed.
ActiveIsExact == active = Cardinality(Counted)

\* Once request_pause() has returned, and until resume(), nobody owns a
\* permit: the installer may drop the old Storage and replace its directory.
PausedMeansDrained == pausePc = "paused" => Holders = {}

\* No entering task sleeps through a resume: if it is registered and asleep
\* while the gate is open, the notify_waiters() of that resume is still due.
NoEntryWakeupLost ==
    \A u \in Users :
        (pc[u] = "sleep" /\ u \in waiters /\ ~paused) => pausePc = "resumeNotify"

\* The installer does not sleep on an already drained gate: if it is
\* registered and asleep while `active` is zero, the task that brought the
\* counter to zero still has its notify_waiters() to run.
NoPauseWakeupLost ==
    (pausePc = "sleep" /\ Pauser \in waiters /\ active = 0)
        => \E u \in Users : pc[u] \in {"retreatNotify", "dropNotify"}

\* A requested pause ends: the storage drains, or the request is cancelled.
PauseEnds == paused ~> (pausePc = "paused" \/ ~paused)

\* If the gate stays open from some point on, every task that called
\* enter() gets its permit.
EntryEnds ==
    \A u \in Users :
        <>[](~paused) => (pc[u] = "check" ~> pc[u] = "held")

\* How far the pause has got, as PauseGate sees it.
GatePhase ==
    IF ~paused THEN "open"
    ELSE IF pausePc = "paused" THEN "closed" ELSE "closing"

Gate == INSTANCE PauseGate WITH phase <- GatePhase, holders <- Holders

\* The atomics and the Notify implement the gate of PauseGate.
ImplementsGate == Gate!GateSpec
=============================================================================
