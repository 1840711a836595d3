-------------------------- MODULE BackgroundTasks --------------------------
(***************************************************************************)
(* The BackgroundTaskManager of the storage server and the gate that its       *)
(* monitors, the batches and the installation of a snapshot share.  The gate   *)
(* is the one PauseGate specifies: who has entered delays the end of a pause,  *)
(* and nobody enters before resume.                                           *)
(*                                                                          *)
(* A monitor that finds a compaction due waits, inside the gate, for room in   *)
(* the channel of the background tasks.                                      *)
(***************************************************************************)
EXTENDS Naturals, FiniteSets

CONSTANTS
    TaskCapacity,                   \* of the channel that BgTaskHandler::new makes
    compaction_trigger_threshold    \* of the BackgroundTaskConfig

ASSUME TaskAssumption == TaskCapacity \in Nat \ {0} /\ compaction_trigger_threshold \in Nat

VARIABLES
    gate,       \* whether a pause is requested or complete, and who is inside
    monitor,    \* where the monitors are
    tasks       \* background tasks under way, and whether somebody receives them

taskVars == <<gate, monitor, tasks>>

Monitors == {"compaction", "flush", "statistics"}

BackgroundInit(enabled) ==
    /\ gate = [pause |-> "none", inside |-> {}]
    /\ monitor = [m \in Monitors |-> IF m \in enabled THEN "enabled" ELSE "off"]
    /\ tasks = [queued |-> 0, received |-> TRUE]

enter(who) == gate.pause = "none" /\ gate' = [gate EXCEPT !.inside = @ \cup {who}]
leave(who) == gate' = [gate EXCEPT !.inside = @ \ {who}]

\* BackgroundTaskManager::run: one task for every monitor that is enabled.
Started == [m \in Monitors |-> IF monitor[m] = "enabled" THEN "sleeping" ELSE monitor[m]]

Step(m, from, to) == monitor[m] = from /\ monitor' = [monitor EXCEPT ![m] = to]

Tick(m) == Step(m, "sleeping", "entering") /\ UNCHANGED <<gate, tasks>>
EnterGate(m) == Step(m, "entering", "inside") /\ enter(m) /\ UNCHANGED tasks
Leaves(m, from) == Step(m, from, "sleeping") /\ leave(m)

\* Any instance with many files at level 0, or whose writes are delayed.
check_compaction_needed(insts) ==
    \E i \in insts : i.files > compaction_trigger_threshold \/ i.delayed > 0

\* What the instances may report.
Properties ==
    SUBSET [files : {compaction_trigger_threshold, compaction_trigger_threshold + 1}, delayed : {0, 1}]

monitor_compaction ==
    \E insts \in Properties :
        /\ IF check_compaction_needed(insts) THEN Step("compaction", "inside", "sending") /\ UNCHANGED gate
           ELSE Leaves("compaction", "inside")
        /\ UNCHANGED tasks

\* compact_all(false): the task is sent when there is room, and fails at once
\* when nobody receives any more.
compact_all ==
    /\ Leaves("compaction", "sending")
    /\ \/ tasks.received /\ tasks.queued < TaskCapacity /\ tasks' = [tasks EXCEPT !.queued = @ + 1]
       \/ ~tasks.received /\ UNCHANGED tasks

\* These two only count what they see.
monitor_flush == Leaves("flush", "inside") /\ UNCHANGED tasks
collect_statistics == Leaves("statistics", "inside") /\ UNCHANGED tasks

Works(m) ==
    \/ EnterGate(m)
    \/ m = "compaction" /\ (monitor_compaction \/ compact_all)
    \/ m = "flush" /\ monitor_flush
    \/ m = "statistics" /\ collect_statistics

\* The task of main that receives background tasks does nothing with them.
ReceiveTask ==
    /\ tasks.received /\ tasks.queued > 0
    /\ tasks' = [tasks EXCEPT !.queued = @ - 1]
    /\ UNCHANGED <<gate, monitor>>

\* The installation of a snapshot.  The receiver of the Storage it opens is
\* dropped at once.
request_pause ==
    /\ gate.pause = "none" /\ gate' = [gate EXCEPT !.pause = "requested"]
    /\ UNCHANGED <<monitor, tasks>>
PauseComplete ==
    /\ gate.pause = "requested" /\ gate.inside = {}
    /\ gate' = [gate EXCEPT !.pause = "paused"]
    /\ UNCHANGED <<monitor, tasks>>
resume ==
    /\ gate.pause = "paused" /\ gate' = [gate EXCEPT !.pause = "none"]
    /\ tasks' \in {tasks, [queued |-> 0, received |-> FALSE]}
    /\ UNCHANGED monitor

\* The storage runtime ends: permits are dropped with their tasks.
MonitorsDropped(others) ==
    /\ gate' = [gate EXCEPT !.inside = others]
    /\ monitor' = [m \in Monitors |-> "off"]
    /\ UNCHANGED tasks

=============================================================================
