--------------------------- MODULE RuntimeManager ---------------------------
(***************************************************************************)
(* The process: what main does from the start checks to the exit, and the     *)
(* life of the two runtimes that it owns.  Every task of a runtime ends when   *)
(* the runtime does.  start and stop take the manager exclusively, so neither  *)
(* ever sees the state Starting or Stopping of another call.                  *)
(***************************************************************************)
EXTENDS Naturals

VARIABLES
    process     \* where main is, the manager's state, the runtimes, the client, the server

\* The storage client of the manager stands for the whole channel: its receiver
\* is handed to the storage server when the client is made.
new ==
    [at |-> "preflight", state |-> "Created", network |-> "none", storage |-> "none",
     storage_client |-> FALSE, launched |-> FALSE]

\* The server is run by something other than main, which may cancel it.
Embedded ==
    [new EXCEPT !.at = "embedded", !.network = "up", !.storage = "running",
                !.storage_client = TRUE, !.launched = TRUE]

NetworkUp == process.network = "up"
StorageUp == process.storage = "running"
StorageDown == process.storage = "down"

Main(at) == process.at = at
Exited == [process EXCEPT !.at = "exited"]
\* What fails once the runtimes are up is followed by stop.
Stop == [process EXCEPT !.at = "stop"]

\* An unfinished installation of a snapshot refuses the start.
preflight_server_startup ==
    /\ Main("preflight")
    /\ process' \in {Exited, [process EXCEPT !.at = "start"]}

\* A runtime that cannot be created: main returns the error.
start ==
    /\ Main("start") /\ process.state \notin {"Running", "Starting", "Stopping"}
    /\ process' \in { [Exited EXCEPT !.state = "Failed"],
                      [process EXCEPT !.at = "components", !.state = "Running",
                                      !.network = "up", !.storage = "up"] }

\* The receiver can be taken once.
initialize_storage_components ==
    /\ Main("components") /\ ~process.storage_client
    /\ process' = [process EXCEPT !.at = "open", !.storage_client = TRUE]

\* The storage server is spawned once the storage is open.
initialize_storage ==
    /\ Main("open")
    /\ process' \in {Stop, [process EXCEPT !.at = "launch", !.storage = "spawned"]}

create_network_server == process.storage_client

\* In a cluster Raft is started first.  The server that was created is run by a
\* task of the network runtime.
start_server ==
    /\ Main("launch")
    /\ \/ process' = Stop
       \/ create_network_server /\ process' = [process EXCEPT !.at = "serving", !.launched = TRUE]

Launch ==
    \/ preflight_server_startup \/ start \/ initialize_storage_components
    \/ initialize_storage \/ start_server

\* The storage runtime goes first, so that what it works on can be answered.
stop_storage ==
    /\ Main("stop") /\ process.state = "Running"
    /\ process' = [process EXCEPT !.at = "stopping", !.state = "Stopping", !.storage = "down"]
stop_network ==
    /\ Main("stopping")
    /\ process' = [process EXCEPT !.at = "exited", !.state = "Stopped", !.network = "down"]

ctrl_c == Main("serving") /\ process' = Stop

=============================================================================
