--------------------------- MODULE StorageServer ---------------------------
(***************************************************************************)
(* The way of a command from a connection to the storage and back: attempts   *)
(* of the storage client, the bounded channel, and the server with its        *)
(* batches and monitors.  When the client retries, gives up or keeps a        *)
(* request for later is the subject of StorageClient; here it may do either   *)
(* after any attempt that failed.                                            *)
(***************************************************************************)
EXTENDS Session, FiniteSets, FiniteSetsExt, RuntimeManager, BackgroundTasks

CONSTANTS
    Conns,          \* connections
    DbKeys,         \* the keys they use
    MaxRetries,     \* max_retries of the RetryConfig
    BufferSize,     \* buffer_size of the MessageChannel
    ThresholdPercent,  \* of the BackpressureConfig
    MaxBatchSize,   \* max_batch_size of the StorageServerConfig
    MaxIds          \* bound: requests of a connection that are under way at once

ASSUME ServerAssumption ==
    /\ {BufferSize, MaxBatchSize, MaxIds} \subseteq Nat \ {0}
    /\ MaxRetries \in Nat /\ ThresholdPercent \in 0..100

VARIABLES
    call,       \* the call every connection makes
    chan,       \* requests in the channel
    waiting,    \* requests in the BatchProcessor
    batch,      \* requests process_request_batch works on
    later,      \* requests kept after their caller was told of an error
    db,         \* what the storage holds
    trouble,    \* bound: how many things may still go wrong
    installs    \* bound: how many snapshots may still be installed

storageVars == <<chan, waiting, batch, later, db, trouble>>
pauseVars == <<taskVars, installs>>

GoesWrong == trouble > 0 /\ trouble' = trouble - 1

NoCall == [pc |-> "none", argv |-> <<>>, n |-> 0, id |-> 0, timed |-> FALSE, reply |-> NullBulk]

StorageInit ==
    /\ call = [c \in Conns |-> NoCall]
    /\ chan = <<>> /\ waiting = <<>> /\ batch = {} /\ later = {}
    /\ db = [k \in DbKeys |-> NullBulk]

Outstanding == ToSet(chan) \cup ToSet(waiting) \cup batch
FreeIds(c) == (1..MaxIds) \ ({r.id : r \in {r \in Outstanding : r.from = c}} \cup {call[c].id})

-----------------------------------------------------------------------------
(* StorageClient: one call and its attempts. *)

\* execute_command hands the line over as it is.
Calling(argv) == [NoCall EXCEPT !.pc = "try", !.argv = argv]

has_backpressure == Len(chan) >= (BufferSize * ThresholdPercent) \div 100

try_send_request(c) ==
    /\ call[c].pc = "try" /\ FreeIds(c) # {}
    /\ call' = [call EXCEPT ![c].pc = "sending", ![c].id = Min(FreeIds(c)),
                            ![c].timed = has_backpressure]
    /\ UNCHANGED <<storageVars, pauseVars>>

Request(c) == [from |-> c, id |-> call[c].id, kept |-> FALSE, argv |-> call[c].argv]

Send(c) ==
    /\ call[c].pc = "sending" /\ Len(chan) < BufferSize /\ ~StorageDown
    /\ chan' = Append(chan, Request(c))
    /\ call' = [call EXCEPT ![c].pc = "waiting"]
    /\ UNCHANGED <<waiting, batch, later, db, trouble, pauseVars>>

\* After a failed attempt: the next one, or the error for the caller, and the
\* request may be kept for later.
Retried(c) ==
    /\ call[c].n < MaxRetries
    /\ call' = [call EXCEPT ![c].pc = "try", ![c].n = @ + 1, ![c].id = 0, ![c].timed = FALSE]
    /\ UNCHANGED later
GivenUp(c, error) ==
    /\ call' = [call EXCEPT ![c].pc = "failed", ![c].reply = Error(<<error>>), ![c].id = 0]
    /\ \E keep \in {{}, {[from |-> c, argv |-> call[c].argv]}} : later' = later \cup keep

\* Only who saw backpressure before sending gives up waiting for room.
SendTimeout(c) ==
    /\ GoesWrong /\ call[c].pc = "sending" /\ call[c].timed /\ Len(chan) = BufferSize
    /\ Retried(c) \/ GivenUp(c, "ERR communication error")
    /\ UNCHANGED <<chan, waiting, batch, db, pauseVars>>

\* The request stays under way when nobody waits for its answer any more.
ReplyTimeout(c) ==
    /\ GoesWrong /\ call[c].pc = "waiting"
    /\ Retried(c) \/ GivenUp(c, "ERR command timeout")
    /\ UNCHANGED <<chan, waiting, batch, db, pauseVars>>

\* process_queued_requests sends a kept request; nobody receives its answer.
process_queued_requests(r) ==
    /\ r \in later /\ Len(chan) < BufferSize /\ FreeIds(r.from) # {} /\ ~StorageDown
    /\ later' = later \ {r}
    /\ chan' = Append(chan, [from |-> r.from, id |-> Min(FreeIds(r.from)), kept |-> TRUE, argv |-> r.argv])
    /\ UNCHANGED <<call, waiting, batch, db, trouble, pauseVars>>

-----------------------------------------------------------------------------
(* run: the monitors, then run_with_batching.  While a batch is worked on     *)
(* nothing is received.                                                      *)

run ==
    /\ process.storage = "spawned" /\ process' = [process EXCEPT !.storage = "running"]
    /\ monitor' = Started
    /\ UNCHANGED <<call, storageVars, gate, tasks, installs>>

Receive ==
    /\ StorageUp /\ batch = {} /\ chan # <<>>
    /\ waiting' = Append(waiting, Head(chan)) /\ chan' = Tail(chan)
    /\ UNCHANGED <<call, batch, later, db, trouble, pauseVars>>

TakeBatch(rs) ==
    /\ batch' = rs
    /\ waiting' = SelectSeq(waiting, LAMBDA r : r \notin rs)
    /\ UNCHANGED <<call, chan, later, db, trouble, pauseVars>>

extract_batch_by_timeout ==
    StorageUp /\ batch = {} /\ waiting # <<>> /\ TakeBatch(ToSet(waiting))

\* Sorted by age, since all these requests have the same priority: of two
\* requests of different tasks either may be the older one, of a connection's
\* own the one that was sent first is.
GoesBefore(i, j) ==
    waiting[i].from = waiting[j].from /\ ~waiting[i].kept /\ ~waiting[j].kept /\ i < j
extract_priority_batch ==
    {{waiting[i] : i \in S} : S \in
        {S \in kSubset(MaxBatchSize, DOMAIN waiting) :
            \A j \in S : \A i \in DOMAIN waiting : GoesBefore(i, j) => i \in S}}
wait_for_batch_condition == Len(waiting) >= MaxBatchSize
extract_optimized_batch ==
    /\ StorageUp /\ batch = {} /\ wait_for_batch_condition
    /\ \E rs \in extract_priority_batch : TakeBatch(rs)

\* The commands themselves are the subject of CommandTable: here GET and SET.
handle_execute_command(argv) ==
    IF to_lowercase(argv[1]) = <<"get">> THEN [db |-> db, reply |-> db[argv[2]]]
    ELSE [db |-> [db EXCEPT ![argv[2]] = BulkString(argv[3])], reply |-> SimpleString(<<"OK">>)]

AnsweredAnyAttempt(r, reply) ==
    call' = [call EXCEPT ![r.from] =
                IF @.pc = "waiting" THEN [@ EXCEPT !.pc = "answered", !.reply = reply, !.id = 0] ELSE @]
\* The caller gets the answer if it still waits for this request.
Answered(r, reply) ==
    call' = [call EXCEPT ![r.from] =
                IF @.pc = "waiting" /\ @.id = r.id
                THEN [@ EXCEPT !.pc = "answered", !.reply = reply, !.id = 0] ELSE @]

\* process_request_batch holds one permit until the last request is done.
process_request_batch ==
    /\ StorageUp /\ batch # {} /\ "batch" \notin gate.inside
    /\ enter("batch")
    /\ UNCHANGED <<call, storageVars, monitor, tasks, installs>>
Done(r) ==
    /\ r \in batch /\ "batch" \in gate.inside
    /\ batch' = batch \ {r}
    /\ IF batch = {r} THEN leave("batch") ELSE UNCHANGED gate
    /\ UNCHANGED <<chan, waiting, monitor, tasks, installs>>

\* The requests of a batch run in parallel.
process_single_request(r) ==
    /\ StorageUp /\ Done(r)
    /\ db' = handle_execute_command(r.argv).db
    /\ Answered(r, handle_execute_command(r.argv).reply)
    /\ UNCHANGED <<later, trouble>>

\* The task ends before or after the write, and its sender is dropped.
Dropped(r) ==
    /\ Done(r)
    /\ db' \in {db, handle_execute_command(r.argv).db}
    /\ IF call[r.from].pc = "waiting" /\ call[r.from].id = r.id
       THEN Retried(r.from) \/ GivenUp(r.from, "ERR communication error")
       ELSE UNCHANGED <<call, later>>
RequestPanics(r) == GoesWrong /\ StorageUp /\ Dropped(r)

-----------------------------------------------------------------------------
(* The storage runtime ends with everything that waits in it; a batch that     *)
(* has entered the gate ends request by request.                             *)

StorageStops ==
    /\ stop_storage
    /\ chan' = <<>> /\ waiting' = <<>>
    /\ batch' = IF "batch" \in gate.inside THEN batch ELSE {}
    /\ MonitorsDropped(gate.inside \cap {"batch"})
    /\ UNCHANGED <<call, later, db, trouble, installs>>
RequestAborts(r) == StorageDown /\ Dropped(r) /\ UNCHANGED trouble

\* There is no receiver for the request, or no sender for its answer.
ChannelClosed(c) ==
    /\ StorageDown
    /\ \/ call[c].pc = "sending"
       \/ call[c].pc = "waiting" /\ \A r \in batch : r.from # c \/ r.id # call[c].id
    /\ Retried(c) \/ GivenUp(c, "ERR communication error")
    /\ UNCHANGED <<chan, waiting, batch, db, trouble, pauseVars>>

Attempt(c) == try_send_request(c) \/ Send(c) \/ ChannelClosed(c)
WorkOnBatch == process_request_batch \/ (\E r \in batch : process_single_request(r) \/ RequestAborts(r))
Serve == Receive \/ extract_batch_by_timeout \/ extract_optimized_batch \/ WorkOnBatch
Trouble == (\E c \in Conns : SendTimeout(c) \/ ReplyTimeout(c)) \/ (\E r \in batch : RequestPanics(r))

Background ==
    /\ \/ StorageUp /\ \E m \in Monitors : Tick(m) \/ Works(m)
       \/ ReceiveTask \/ PauseComplete \/ resume
    /\ UNCHANGED <<call, storageVars, installs>>
InstallSnapshot ==
    /\ installs > 0 /\ installs' = installs - 1
    /\ request_pause /\ UNCHANGED <<call, storageVars>>

StorageNext ==
    \/ \E c \in Conns : Attempt(c)
    \/ Serve \/ Trouble \/ Background \/ InstallSnapshot
    \/ \E r \in later : process_queued_requests(r)

=============================================================================
