---------------------- MODULE StorageAccessGateProofs ----------------------
(***************************************************************************)
(* The storage access gate is correct for every finite set of users.       *)
(*                                                                         *)
(* GateInv is inductive.  PausedMeansDrained rests on ActiveIsExact (a     *)
(* zero counter means that nobody is past the fetch_add) and on            *)
(* PausedAgrees (the flag is set for as long as the installer is inside    *)
(* the pause).  The two wake-up invariants are inductive with them.        *)
(***************************************************************************)
EXTENDS StorageAccessGate, FiniteSetTheorems, TLAPS

\* The flag is set from request_pause() to resume(), and at no other time.
PausedAgrees == paused <=> pausePc \in {"register", "check", "sleep", "paused"}

GateInv ==
    /\ TypeOK
    /\ ActiveIsExact
    /\ PausedAgrees
    /\ PausedMeansDrained
    /\ NoEntryWakeupLost
    /\ NoPauseWakeupLost

\* The set behind the counter is finite, so its cardinality is a number.
LEMMA CountedFinite ==
    ASSUME TypeOK
    PROVE  IsFiniteSet(Counted) /\ Cardinality(Counted) \in Nat
<1>1. Counted \subseteq Users
  BY Zenon DEF Counted
<1> QED
  BY <1>1, UsersFinite, FS_Subset, FS_CardinalityType, Zenon

\* A step that moves no user across the fetch_add / fetch_sub boundary and
\* leaves the counter alone keeps it exact.
LEMMA SameCount ==
    ASSUME ActiveIsExact, active' = active, Counted' = Counted
    PROVE  ActiveIsExact'
BY Zenon DEF ActiveIsExact

\* fetch_add: one more user is counted.
LEMMA OneMore ==
    ASSUME TypeOK, ActiveIsExact, NEW u \in Users, u \notin Counted,
           Counted' = Counted \union {u}, active' = active + 1
    PROVE  ActiveIsExact'
BY CountedFinite, FS_AddElement, Zenon DEF ActiveIsExact

\* fetch_sub: one user fewer is counted.
LEMMA OneLess ==
    ASSUME TypeOK, ActiveIsExact, NEW u \in Users, u \in Counted,
           Counted' = Counted \ {u}, active' = active - 1
    PROVE  ActiveIsExact'
BY CountedFinite, FS_RemoveElement, Zenon DEF ActiveIsExact

\* A zero counter means that no user holds a permit.
LEMMA ZeroMeansNone ==
    ASSUME TypeOK, ActiveIsExact, active = 0
    PROVE  Holders = {}
<1>1. Counted = {}
  BY CountedFinite, FS_EmptySet, Zenon DEF ActiveIsExact
<1> QED
  BY <1>1, Zenon DEF Counted, Holders

\* The type invariant and the agreement of the flag with the installer's
\* position are preserved by every step.
LEMMA TypeStep ==
    ASSUME TypeOK, PausedAgrees, [Next]_vars
    PROVE  TypeOK' /\ PausedAgrees'
<1> USE DEF TypeOK, PausedAgrees, UserPc, PausePc
<1>1. ASSUME NEW u \in Users, EnterCall(u) \/ EnterStep(u) \/ DropStep(u)
      PROVE  TypeOK' /\ PausedAgrees'
  BY <1>1 DEF EnterCall, EnterStep, DropStep, EnterCheck, EnterRegister, EnterRecheck,
     EnterAwake, EnterIncrement, EnterConfirm, EnterRetreat,
     EnterRetreatNotify, PermitDrop, PermitDropNotify, At
<1>2. CASE RequestPause \/ PauseStep \/ PauseCancel \/ Resume \/ ResumeNotify
  BY <1>2, Zenon DEF RequestPause, PauseStep, PauseRegister, PauseCheck,
     PauseAwake, PauseCancel, Resume, ResumeNotify
<1>3. CASE UNCHANGED vars
  BY <1>3, Zenon DEF vars
<1> QED
  BY <1>1, <1>2, <1>3, Zenon DEF Next

\* The counter stays exact.
LEMMA CountStep ==
    ASSUME TypeOK, ActiveIsExact, [Next]_vars
    PROVE  ActiveIsExact'
<1> USE DEF TypeOK
<1>1. ASSUME NEW u \in Users,
             EnterCall(u) \/ EnterCheck(u) \/ EnterRegister(u) \/ EnterRecheck(u)
                \/ EnterAwake(u) \/ EnterConfirm(u) \/ EnterRetreatNotify(u)
                \/ PermitDropNotify(u)
      PROVE  ActiveIsExact'
  <2>1. Counted' = Counted /\ active' = active
    BY <1>1, Zenon DEF Counted, EnterCall, EnterCheck, EnterRegister, EnterRecheck,
       EnterAwake, EnterConfirm, EnterRetreatNotify, PermitDropNotify, At
  <2> QED
    BY <2>1, SameCount, Zenon
<1>2. ASSUME NEW u \in Users, EnterIncrement(u)
      PROVE  ActiveIsExact'
  <2>1. u \notin Counted /\ Counted' = Counted \union {u} /\ active' = active + 1
    BY <1>2, Zenon DEF Counted, EnterIncrement, At
  <2> QED
    BY <2>1, OneMore, Zenon
<1>3. ASSUME NEW u \in Users, EnterRetreat(u) \/ PermitDrop(u)
      PROVE  ActiveIsExact'
  <2>1. u \in Counted /\ Counted' = Counted \ {u} /\ active' = active - 1
    BY <1>3, Zenon DEF Counted, EnterRetreat, PermitDrop, At
  <2> QED
    BY <2>1, OneLess, Zenon
<1>4. CASE \/ RequestPause \/ PauseStep \/ PauseCancel \/ Resume \/ ResumeNotify
           \/ UNCHANGED vars
  <2>1. pc' = pc /\ active' = active
    BY <1>4, Zenon DEF RequestPause, PauseStep, PauseRegister, PauseCheck,
       PauseAwake, PauseCancel, Resume, ResumeNotify, vars
  <2>2. Counted' = Counted
    BY <2>1, Zenon DEF Counted
  <2> QED
    BY <2>1, <2>2, SameCount, Zenon
<1> QED
  BY <1>1, <1>2, <1>3, <1>4, Zenon DEF Next, EnterStep, DropStep

\* Nobody gets hold of a permit while the installer relies on the pause.
LEMMA DrainedStep ==
    ASSUME TypeOK, ActiveIsExact, PausedAgrees, PausedMeansDrained, [Next]_vars
    PROVE  PausedMeansDrained'
<1> USE DEF TypeOK, PausedAgrees, PausedMeansDrained
<1>1. ASSUME NEW u \in Users, EnterCall(u) \/ EnterStep(u) \/ DropStep(u)
      PROVE  PausedMeansDrained'
  BY <1>1, Zenon DEF Holders, EnterCall, EnterStep, DropStep, EnterCheck, EnterRegister,
     EnterRecheck, EnterAwake, EnterIncrement, EnterConfirm, EnterRetreat,
     EnterRetreatNotify, PermitDrop, PermitDropNotify, At
<1>2. CASE PauseCheck
  <2>1. Holders' = Holders
    BY <1>2, Zenon DEF PauseCheck, Holders
  <2>2. pausePc' = "paused" => active = 0
    BY <1>2, Zenon DEF PauseCheck
  <2> QED
    BY <2>1, <2>2, ZeroMeansNone, Zenon
<1>3. CASE \/ RequestPause \/ PauseRegister \/ PauseAwake \/ PauseCancel
           \/ Resume \/ ResumeNotify
  BY <1>3, Zenon DEF RequestPause, PauseRegister, PauseAwake, PauseCancel, Resume,
     ResumeNotify
<1>4. CASE UNCHANGED vars
  BY <1>4, Zenon DEF vars, Holders
<1> QED
  BY <1>1, <1>2, <1>3, <1>4, Zenon DEF Next, PauseStep

\* Neither kind of sleeper misses its wake-up.
LEMMA WakeupStep ==
    ASSUME TypeOK, ActiveIsExact, PausedAgrees, NoEntryWakeupLost,
           NoPauseWakeupLost, [Next]_vars
    PROVE  NoEntryWakeupLost' /\ NoPauseWakeupLost'
<1> USE PauserIsNoUser DEF TypeOK, PausedAgrees
<1>1. ASSUME NEW u \in Users, EnterCall(u) \/ EnterStep(u) \/ DropStep(u)
      PROVE  NoEntryWakeupLost'
  BY <1>1, Zenon DEF NoEntryWakeupLost, EnterCall, EnterStep, DropStep, EnterCheck,
     EnterRegister, EnterRecheck, EnterAwake, EnterIncrement, EnterConfirm,
     EnterRetreat, EnterRetreatNotify, PermitDrop, PermitDropNotify, At
<1>2. ASSUME NEW u \in Users, EnterCall(u) \/ EnterStep(u) \/ DropStep(u)
      PROVE  NoPauseWakeupLost'
  <2>1. CASE EnterRetreat(u) \/ PermitDrop(u)
    <3>1. active' = 0 => pc'[u] \in {"retreatNotify", "dropNotify"}
      BY <2>1 DEF EnterRetreat, PermitDrop, At
    <3> QED
      BY <3>1, Zenon DEF NoPauseWakeupLost
  <2>2. CASE EnterRetreatNotify(u) \/ PermitDropNotify(u)
    BY <2>2, Zenon DEF NoPauseWakeupLost, EnterRetreatNotify, PermitDropNotify
  <2>3. CASE EnterIncrement(u)
    <3>1. active \in Nat
      BY CountedFinite, Zenon DEF ActiveIsExact
    <3>2. active' # 0
      BY <2>3, <3>1 DEF EnterIncrement
    <3> QED
      BY <3>2, Zenon DEF NoPauseWakeupLost
  <2>4. CASE \/ EnterCall(u) \/ EnterCheck(u) \/ EnterRegister(u)
             \/ EnterRecheck(u) \/ EnterAwake(u) \/ EnterConfirm(u)
    <3>1. /\ pausePc' = pausePc /\ active' = active
          /\ Pauser \in waiters' => Pauser \in waiters
          /\ \A v \in Users : pc[v] \in {"retreatNotify", "dropNotify"}
                => pc'[v] = pc[v]
      BY <2>4, Zenon DEF EnterCall, EnterCheck, EnterRegister, EnterRecheck,
         EnterAwake, EnterConfirm, At
    <3> QED
      BY <3>1, Zenon DEF NoPauseWakeupLost
  <2> QED
    BY <1>2, <2>1, <2>2, <2>3, <2>4, Zenon DEF EnterStep, DropStep
<1>3. CASE RequestPause \/ PauseStep \/ PauseCancel \/ Resume \/ ResumeNotify
  BY <1>3, Zenon DEF NoEntryWakeupLost, NoPauseWakeupLost, RequestPause, PauseStep,
     PauseRegister, PauseCheck, PauseAwake, PauseCancel, Resume, ResumeNotify
<1>4. CASE UNCHANGED vars
  BY <1>4, Zenon DEF vars, NoEntryWakeupLost, NoPauseWakeupLost
<1> QED
  BY <1>1, <1>2, <1>3, <1>4, Zenon DEF Next

\* GateInv is an invariant of the gate, whatever the number of users.
THEOREM GateInvariant == Spec => []GateInv
<1>1. Init => GateInv
  <2> SUFFICES ASSUME Init PROVE GateInv
    BY Zenon
  <2>1. TypeOK
    <3>1. paused \in BOOLEAN
      BY Zenon DEF Init
    <3>2. pc \in [Users -> UserPc] /\ pausePc \in PausePc
      BY Zenon DEF Init, UserPc, PausePc
    <3>3. active \in Int /\ waiters \subseteq Users \union {Pauser}
      BY DEF Init
    <3> QED
      BY <3>1, <3>2, <3>3, Zenon DEF TypeOK
  <2>2. Counted = {}
    BY Zenon DEF Init, Counted
  <2>3. ActiveIsExact
    BY <2>2, FS_EmptySet, Zenon DEF Init, ActiveIsExact
  <2> QED
    BY <2>1, <2>3, Zenon DEF Init, GateInv, PausedAgrees, PausedMeansDrained,
       NoEntryWakeupLost, NoPauseWakeupLost
<1>2. GateInv /\ [Next]_vars => GateInv'
  BY TypeStep, CountStep, DrainedStep, WakeupStep, Zenon DEF GateInv
<1> QED
  BY <1>1, <1>2, PTL DEF Spec

\* The variables of the gate keep their types, whatever the number of tasks.
THEOREM GateTypes == Spec => []TypeOK
<1>1. GateInv => TypeOK
  BY Zenon DEF GateInv
<1> QED
  BY <1>1, GateInvariant, PTL

\* fetch_add and fetch_sub of any number of tasks keep `active` exact.
THEOREM CounterIsExact == Spec => []ActiveIsExact
<1>1. GateInv => ActiveIsExact
  BY Zenon DEF GateInv
<1> QED
  BY <1>1, GateInvariant, PTL

\* After request_pause() returns and until resume() nobody owns a permit.
THEOREM PauseExcludesOwners == Spec => []PausedMeansDrained
<1>1. GateInv => PausedMeansDrained
  BY Zenon DEF GateInv
<1> QED
  BY <1>1, GateInvariant, PTL

\* enter() never sleeps through a resume().
THEOREM EntryIsWoken == Spec => []NoEntryWakeupLost
<1>1. GateInv => NoEntryWakeupLost
  BY Zenon DEF GateInv
<1> QED
  BY <1>1, GateInvariant, PTL

\* request_pause() never sleeps on a drained gate.
THEOREM PauseIsWoken == Spec => []NoPauseWakeupLost
<1>1. GateInv => NoPauseWakeupLost
  BY Zenon DEF GateInv
<1> QED
  BY <1>1, GateInvariant, PTL

\* Every step of the atomics is a step of the abstract gate or leaves it
\* unchanged.
LEMMA GateStep ==
    ASSUME GateInv, GateInv', [Next]_vars
    PROVE  [Gate!GateNext]_Gate!gateVars
<1> USE DEF GateInv, TypeOK, PausedAgrees, GatePhase, Gate!gateVars
<1>1. ASSUME NEW u \in Users,
             EnterCall(u) \/ EnterCheck(u) \/ EnterRegister(u) \/ EnterRecheck(u)
                \/ EnterAwake(u) \/ EnterIncrement(u) \/ EnterRetreat(u)
                \/ EnterRetreatNotify(u) \/ PermitDropNotify(u)
      PROVE  UNCHANGED Gate!gateVars
  <2>1. UNCHANGED <<paused, pausePc>>
    BY <1>1, Zenon DEF EnterCall, EnterCheck, EnterRegister, EnterRecheck, EnterAwake,
       EnterIncrement, EnterRetreat, EnterRetreatNotify, PermitDropNotify
  <2>2. Holders' = Holders
    BY <1>1, Zenon DEF Holders, EnterCall, EnterCheck, EnterRegister, EnterRecheck,
       EnterAwake, EnterIncrement, EnterRetreat, EnterRetreatNotify,
       PermitDropNotify, At
  <2> QED
    BY <2>1, <2>2, Zenon
<1>2. ASSUME NEW u \in Users, EnterConfirm(u)
      PROVE  [Gate!GateNext]_Gate!gateVars
  <2>1. CASE paused
    <3>1. Holders' = Holders
      BY <1>2, <2>1, Zenon DEF Holders, EnterConfirm, At
    <3> QED
      BY <1>2, <3>1, Zenon DEF EnterConfirm
  <2>2. CASE ~paused
    <3>1. u \notin Holders /\ Holders' = Holders \union {u}
      BY <1>2, <2>2, Zenon DEF Holders, EnterConfirm, At
    <3>2. Gate!Grant(u)
      BY <1>2, <2>2, <3>1, Zenon DEF EnterConfirm, Gate!Grant
    <3> QED
      BY <3>2, Zenon DEF Gate!GateNext
  <2> QED
    BY <2>1, <2>2, Zenon
<1>3. ASSUME NEW u \in Users, PermitDrop(u)
      PROVE  [Gate!GateNext]_Gate!gateVars
  <2>1. u \in Holders /\ Holders' = Holders \ {u}
    BY <1>3, Zenon DEF Holders, PermitDrop, At
  <2>2. Gate!Release(u)
    BY <1>3, <2>1, Zenon DEF PermitDrop, Gate!Release
  <2> QED
    BY <2>2, Zenon DEF Gate!GateNext
<1>4. ASSUME pc' = pc PROVE Holders' = Holders
  BY <1>4, Zenon DEF Holders
<1>5. CASE RequestPause
  <2>1. Gate!Close
    BY <1>4, <1>5, Zenon DEF RequestPause, Gate!Close
  <2> QED
    BY <2>1, Zenon DEF Gate!GateNext
<1>6. CASE PauseRegister \/ PauseAwake \/ ResumeNotify
  BY <1>4, <1>6, Zenon DEF PauseRegister, PauseAwake, ResumeNotify
<1>7. CASE PauseCheck
  <2>1. CASE active = 0
    <3>1. Gate!Drained
      BY <1>4, <1>7, <2>1, ZeroMeansNone, Zenon DEF PauseCheck, Gate!Drained
    <3> QED
      BY <3>1, Zenon DEF Gate!GateNext
  <2>2. CASE active # 0
    BY <1>4, <1>7, <2>2, Zenon DEF PauseCheck
  <2> QED
    BY <2>1, <2>2, Zenon
<1>8. CASE PauseCancel \/ Resume
  <2>1. Gate!Open
    BY <1>4, <1>8, Zenon DEF PauseCancel, Resume, Gate!Open
  <2> QED
    BY <2>1, Zenon DEF Gate!GateNext
<1>9. CASE UNCHANGED vars
  BY <1>4, <1>9, Zenon DEF vars
<1> QED
  BY <1>1, <1>2, <1>3, <1>5, <1>6, <1>7, <1>8, <1>9, Zenon
     DEF Next, EnterStep, DropStep, PauseStep

\* The atomics and the Notify implement the abstract gate.
THEOREM GateRefinement == Spec => ImplementsGate
<1>1. Init => Gate!GateInit
  BY Zenon DEF Init, Gate!GateInit, GatePhase, Holders
<1>2. GateInv /\ GateInv' /\ [Next]_vars => [Gate!GateNext]_Gate!gateVars
  BY GateStep, Zenon
<1> QED
  BY <1>1, <1>2, GateInvariant, PTL DEF Spec, ImplementsGate, Gate!GateSpec
=============================================================================
