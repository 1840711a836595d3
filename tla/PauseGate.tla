----------------------------- MODULE PauseGate -----------------------------
(***************************************************************************)
(* What the storage access gate of common/runtime/storage_server.rs        *)
(* promises to its two kinds of callers, without the atomics and the       *)
(* Notify that implement it.  Users hold permits while they own a Storage  *)
(* loaded from the hot-swappable slot; the snapshot installer closes the   *)
(* gate, and from the moment it is closed until it is opened again no user *)
(* holds a permit.                                                         *)
(***************************************************************************)
CONSTANT Users

VARIABLES
    phase,      \* "open", "closing" (pause requested), "closed" (drained)
    holders     \* users that hold a permit

gateVars == <<phase, holders>>

GateInit ==
    /\ phase = "open"
    /\ holders = {}

\* A permit is granted only while nobody has asked for a pause.
Grant(u) ==
    /\ phase = "open"
    /\ u \notin holders
    /\ holders' = holders \union {u}
    /\ UNCHANGED phase

Release(u) ==
    /\ u \in holders
    /\ holders' = holders \ {u}
    /\ UNCHANGED phase

Close ==
    /\ phase = "open"
    /\ phase' = "closing"
    /\ UNCHANGED holders

Drained ==
    /\ phase = "closing"
    /\ holders = {}
    /\ phase' = "closed"
    /\ UNCHANGED holders

\* Either the pause request is cancelled or the installer resumes.
Open ==
    /\ phase \in {"closing", "closed"}
    /\ phase' = "open"
    /\ UNCHANGED holders

GateNext ==
    \/ \E u \in Users : Grant(u) \/ Release(u)
    \/ Close
    \/ Drained
    \/ Open

GateSpec == GateInit /\ [][GateNext]_gateVars
=============================================================================
