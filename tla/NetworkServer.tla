--------------------------- MODULE NetworkServer ---------------------------
(***************************************************************************)
(* The network server: it is bound and run once, accepts connections, gives   *)
(* each a task and a slot of the connection pool, reaps the tasks that have   *)
(* ended, and on shutdown waits for all of them.                             *)
(***************************************************************************)
EXTENDS Connection

CONSTANTS
    MinConnections,     \* min_connections of the PoolConfig
    Scenarios           \* what the clients send, and the surroundings

ASSUME PoolAssumption ==
    \A s \in Scenarios : s.max_connections \in Nat \ {0} /\ MinConnections \in 0..s.max_connections

VARIABLES
    server,     \* lifecycle_state, where run_until_cancelled is, and its result
    shutdown,   \* the token run_until_cancelled was given
    pool,       \* who holds a permit, how many resources are available, and max_connections
    script,     \* what each client sends, item by item
    stops       \* who may stop the server: "nobody", its "token", or a "signal" to the process

netVars == <<server, shutdown, pool>>
envVars == <<requirepass, leader, chunks, short, script, stops>>
vars == <<call, storageVars, pauseVars, process, connVars, cancelled, netVars, envVars>>

NetInit ==
    /\ server = [state |-> "NEW", at |-> "none", error |-> "none"]
    /\ shutdown = FALSE /\ cancelled = FALSE

\* An item of a script: its bytes, the command line they make, if any, and its
\* kind: a command for the storage ("call"), one that authenticates ("open"),
\* another command ("local"), a frame that is no command ("skip"), or one that
\* ends the connection ("bad").
Init ==
    /\ StorageInit /\ NetInit
    /\ \E s \in Scenarios :
          /\ script = s.script /\ requirepass = s.requirepass /\ leader = TRUE
          /\ chunks = s.chunks /\ short = s.short /\ trouble = s.trouble /\ stops = s.stops
          /\ BackgroundInit(s.monitors) /\ installs = s.installs
          /\ process = IF s.stops = "token" THEN Embedded ELSE new
          /\ pool = [permits |-> {}, available |-> 0, max |-> s.max_connections]
          /\ conn = [c \in Conns |-> Fresh(FlattenSeq([i \in DOMAIN s.script[c] |-> s.script[c][i].bytes]))]
    /\ ran = [c \in Conns |-> <<>>] /\ sent = [c \in Conns |-> <<>>]

OutsideServer == <<call, storageVars, pauseVars, process, connVars, envVars>>
OutsideStorage == <<process, connVars, cancelled, netVars, envVars>>
OutsideProcess == <<connVars, cancelled, netVars, envVars>>

-----------------------------------------------------------------------------
(* bind and begin_run. *)

bind ==
    /\ Main("embedded") /\ server.state = "NEW"
    /\ server' = [server EXCEPT !.state = "BINDING"]
    /\ UNCHANGED <<cancelled, shutdown, pool, OutsideServer>>

\* BindStateGuard: back to NEW when the address cannot be bound.
BindEnds ==
    /\ server.state = "BINDING"
    /\ \E state \in {"BOUND", "NEW"} : server' = [server EXCEPT !.state = state]
    /\ UNCHANGED <<cancelled, shutdown, pool, OutsideServer>>

\* A server that was not bound binds now; if it cannot, that was its only run.
begin_run ==
    /\ process.launched /\ server.state \in {"NEW", "BOUND"}
    /\ \/ server' = [server EXCEPT !.state = "RUNNING", !.at = "accepting"]
       \/ server.state = "NEW" /\ server' = [server EXCEPT !.state = "TERMINATED", !.error = "bind"]
    /\ UNCHANGED <<cancelled, shutdown, pool, OutsideServer>>

-----------------------------------------------------------------------------
(* run_until_cancelled. *)

\* A task for the connection.
Accept(c) ==
    /\ server.at = "accepting" /\ ~shutdown /\ At(c, "none") /\ conn[c].input # <<>>
    /\ Goto(c, "accepted")
    /\ UNCHANGED <<ran, sent, cancelled, netVars, call, storageVars, pauseVars, process, envVars>>

record_connection_join(c) ==
    /\ server.at = "draining" \/ (server.at = "accepting" /\ ~shutdown)
    /\ At(c, "ended")
    /\ Goto(c, "reaped")
    /\ UNCHANGED <<ran, sent, cancelled, netVars, call, storageVars, pauseVars, process, envVars>>

\* On shutdown, or when accept fails: the connections are told to end.
StopAccepting ==
    /\ server.at = "accepting"
    /\ server' = [server EXCEPT !.at = "draining", !.error = IF shutdown THEN "none" ELSE "accept"]
    /\ IF shutdown THEN UNCHANGED trouble ELSE GoesWrong
    /\ cancelled' = TRUE
    /\ UNCHANGED <<shutdown, pool, call, chan, waiting, batch, later, db, pauseVars, process, connVars, envVars>>

Tracked == {c \in Conns : conn[c].pc \notin {"none", "reaped"}}

\* All tasks are joined, the cleanup task too.  What is still available is
\* dropped, and a pool that is then not empty is an error.
RunEnds ==
    /\ server.at = "draining" /\ Tracked = {}
    /\ pool' = [pool EXCEPT !.available = 0]
    /\ server' = [state |-> "TERMINATED", at |-> "none",
                  error |-> IF server.error = "none" /\ pool.permits # {} THEN "pool" ELSE server.error]
    /\ UNCHANGED <<cancelled, shutdown, OutsideServer>>

-----------------------------------------------------------------------------
(* ConnectionPool. *)

\* What is left of the available resources when the idle ones are gone.
NotIdle == 0..pool.available

\* The task of a connection gets its permit, and resources that are available
\* or new ones.  A client needs no password when none is configured.
get_connection(c) ==
    /\ At(c, "accepted") /\ ~cancelled /\ Cardinality(pool.permits) < pool.max
    /\ \E n \in NotIdle :
          pool' = [pool EXCEPT !.permits = @ \cup {c}, !.available = IF n = 0 THEN 0 ELSE n - 1]
    /\ conn' = [conn EXCEPT ![c].pc = "read",
                            ![c].client.authenticated = requirepass = NoPassword]
    /\ UNCHANGED <<ran, sent, cancelled, server, shutdown, call, storageVars, pauseVars, process, envVars>>

\* Shutdown, or connection_timeout, while it waits for a permit.
NoConnection(c) ==
    /\ At(c, "accepted")
    /\ cancelled \/ Cardinality(pool.permits) >= pool.max
    /\ Goto(c, "ended")
    /\ UNCHANGED <<ran, sent, cancelled, netVars, call, storageVars, pauseVars, process, envVars>>

return_connectionKeepsPermit(c) ==
    /\ At(c, "closing")
    /\ pool' = [pool EXCEPT !.available = Min({@ + 1, pool.max})]
    /\ Goto(c, "ended")
    /\ UNCHANGED <<ran, sent, cancelled, server, shutdown, call, storageVars, pauseVars, process, envVars>>
return_connection(c) ==
    /\ At(c, "closing")
    /\ pool' = [pool EXCEPT !.permits = @ \ {c}, !.available = Min({@ + 1, pool.max})]
    /\ Goto(c, "ended")
    /\ UNCHANGED <<ran, sent, cancelled, server, shutdown, call, storageVars, pauseVars, process, envVars>>

\* The cleanup task: an idle one goes while more than the minimum would be left.
cleanup_idle ==
    /\ server.at = "accepting" /\ ~cancelled
    /\ \E n \in NotIdle \ {pool.available} :
          n > MinConnections /\ pool' = [pool EXCEPT !.available = n]
    /\ UNCHANGED <<cancelled, server, shutdown, OutsideServer>>

-----------------------------------------------------------------------------
(* The surroundings. *)

Shutdown ==
    /\ stops = "token" /\ ~shutdown
    /\ shutdown' = TRUE
    /\ cancelled' = TRUE
    /\ UNCHANGED <<server, pool, OutsideServer>>

LoseLeadership ==
    /\ GoesWrong /\ leader
    /\ leader' = FALSE
    /\ UNCHANGED <<call, chan, waiting, batch, later, db, pauseVars, process, connVars, cancelled, netVars, requirepass,
                   chunks, short, script, stops>>

Handle(c) == Process(c) /\ UNCHANGED <<storageVars, pauseVars, process, cancelled, netVars, envVars>>

\* main launches the server, and a signal stops it.
MainStep ==
    /\ \/ (Launch \/ (stop_network /\ batch = {})) /\ UNCHANGED <<call, storageVars, pauseVars>>
       \/ StorageStops
    /\ UNCHANGED OutsideProcess
Signal == stops = "signal" /\ ctrl_c /\ UNCHANGED <<call, storageVars, pauseVars, OutsideProcess>>

\* The tasks of the network runtime.
NetworkNext ==
    \/ bind \/ BindEnds \/ begin_run
    \/ \E c \in Conns : Accept(c) \/ record_connection_join(c) \/ get_connection(c) \/ NoConnection(c)
                        \/ return_connection(c) \/ Handle(c)
    \/ \E c \in Conns : ReadEnds(c) /\ UNCHANGED <<call, storageVars, pauseVars, process, cancelled, netVars, envVars>>
    \/ StopAccepting \/ RunEnds \/ cleanup_idle
    \/ Shutdown \/ LoseLeadership

Next ==
    \/ NetworkUp /\ (NetworkNext \/ (StorageNext /\ UNCHANGED OutsideStorage))
    \/ run /\ UNCHANGED OutsideProcess
    \/ MainStep \/ Signal

\* The task of a connection, but for getting its permit and for the client's end.
Task(c) ==
    \/ Handle(c) \/ return_connection(c)
    \/ cancelled /\ NoConnection(c)
\* Its guards, so that weak fairness can be stated without ENABLED.
CanRun(c) ==
    /\ NetworkUp
    /\ \/ conn[c].pc \in {"parse", "batch", "write", "closing"}
       \/ At(c, "read") /\ (cancelled \/ conn[c].input # <<>>)
       \/ At(c, "call") /\ call[c].pc \in {"answered", "failed"}
       \/ At(c, "accepted") /\ cancelled

\* What the runtimes, main and the storage server go on with.
Progress ==
    \/ NetworkUp /\ \E c \in Conns : get_connection(c) \/ record_connection_join(c)
    \/ NetworkUp /\ ((shutdown /\ StopAccepting) \/ RunEnds)
    \/ /\ NetworkUp
       /\ (\E c \in Conns : Attempt(c)) \/ Receive \/ extract_batch_by_timeout \/ WorkOnBatch
       /\ UNCHANGED OutsideStorage
    \/ (run /\ UNCHANGED OutsideProcess) \/ MainStep
BackgroundProgress ==
    /\ NetworkUp
    /\ (StorageUp /\ \E m \in Monitors : Works(m)) \/ ReceiveTask \/ PauseComplete \/ resume
    /\ UNCHANGED <<call, storageVars, installs, OutsideStorage>>

\* Tasks run on, a client that is sent a reply takes it, and an installation
\* that has paused the storage resumes it.  Of the tasks that can run, any may
\* be delayed while others run.
Fairness ==
    /\ []<>~(\E c \in Conns : CanRun(c)) \/ []<><<\E c \in Conns : Task(c)>>_vars
    /\ WF_vars(Progress) /\ WF_vars(BackgroundProgress)

Spec == Init /\ [][Next]_vars /\ Fairness

-----------------------------------------------------------------------------
(* Properties. *)

\* The commands of a script that are for the storage and come after an
\* authentication, if one is required.
Expected(c) ==
    LET items == script[c]
        opened(i) == requirepass = NoPassword \/ \E j \in 1..(i - 1) : items[j].kind = "open"
        indexes == SelectSeq([i \in DOMAIN items |-> i],
                             LAMBDA i : items[i].kind = "call" /\ opened(i))
    IN  [n \in DOMAIN indexes |-> items[indexes[n]].line]

\* However the bytes of a connection are cut into reads, and whatever frames
\* stand between its commands, the commands that reach the storage are those
\* the client sent after it authenticated, each once and in its order.
SessionOrder ==
    \A c \in Conns :
        IsPrefix([i \in DOMAIN ran[c] |-> ran[c][i].line], Expected(c))

RECURSIVE Decoded(_)
Decoded(bytes) ==
    IF bytes = <<>> THEN <<>>
    ELSE LET p == parse_resp_data(bytes, 0, [work |-> 0, nodes |-> 0])
         IN  IF IsOk(p.result) THEN <<p.result.data>> \o Decoded(p.result.rest)
             ELSE << <<"undecodable">> >>

\* What a frame becomes for a client of a version.
AsSeen(version, d) ==
    IF version = RESP3 THEN IF d \in {NullBulk, NullArray} THEN Null ELSE d
    ELSE IF d[1] = "Map" THEN Array(Flattened(d[2])) ELSE d

\* A client that reads its socket finds one well-formed frame for every reply,
\* in the form of the protocol version that was in force when its command had
\* run: also around a HELLO that changes the version, and when shutdown stops
\* the writing.  The socket must take every reply whole.
RepliesDecode ==
    short \/ \A c \in Conns :
        Decoded(conn[c].out) = [i \in DOMAIN sent[c] |-> AsSeen(sent[c][i][1], sent[c][i][2])]

Earlier(c, i, k) == {j \in 1..(i - 1) : to_lowercase(ran[c][j].line[1]) = <<"set">> /\ ran[c][j].line[2] = k}

\* A GET that is answered returns the last SET of the connection that was
\* answered, or one that failed, since that one may still run: an attempt that
\* timed out while its retry succeeded does not come back over later writes,
\* and a SET refused by the leader gate never runs.
ReadYourWrites ==
    \A c \in Conns : \A i \in DOMAIN ran[c] :
        LET writes == Earlier(c, i, ran[c][i].line[2])
            done == {j \in writes : ran[c][j].end = "answered"}
            last == {j \in done : \A k \in done : k <= j} \cup {j \in writes : ran[c][j].end = "failed"}
        IN  (to_lowercase(ran[c][i].line[1]) = <<"get">> /\ ran[c][i].end = "answered") =>
                \/ ran[c][i].reply \in {BulkString(ran[c][j].line[3]) : j \in last}
                \/ ran[c][i].reply = NullBulk /\ done = {}

Commands(c) == Len(SelectSeq(script[c], LAMBDA item : item.kind \in {"call", "open", "local"}))
Over(c) == conn[c].pc \in {"closing", "ended", "reaped"}

\* Every command of a connection that has its slot is answered, unless the
\* connection or the process ends: also when attempts time out, other
\* connections fill the channel, the client sends its commands in pieces, a
\* snapshot is installed meanwhile, monitors wait inside the gate for room in
\* the channel of the background tasks, or the storage runtime has been stopped.
CommandsAnswered ==
    \A c \in Conns : At(c, "read") ~> (Over(c) \/ ~NetworkUp \/ Len(sent[c]) = Commands(c))

\* A running server that is told to stop terminates and finds its pool empty,
\* whatever its connections are doing; and main, once it stops, stops both
\* runtimes and exits, whatever they are doing.
Drains ==
    /\ (server.at = "accepting" /\ shutdown) ~> (server.state = "TERMINATED" /\ server.error # "pool")
    /\ Main("stop") ~> (Main("exited") /\ process.state = "Stopped" /\ batch = {})

=============================================================================
