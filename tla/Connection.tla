----------------------------- MODULE Connection -----------------------------
(***************************************************************************)
(* A connection: it reads from its socket, parses what has come, collects     *)
(* the commands of a read in batches, runs a batch command by command, and    *)
(* writes every reply before the next command runs.  Shutdown is looked at    *)
(* before a read, while a reply is written, and after a read is finished.     *)
(***************************************************************************)
EXTENDS StorageServer

CONSTANTS
    MAX_BATCH_SIZE,                     \* of should_process_batch
    MAX_UNAUTHENTICATED_BUFFER_SIZE

VARIABLES
    conn,       \* the connections
    cancelled,  \* the cancellation token of the connections
    leader,     \* what the leader gate answers
    chunks,     \* how much of the socket's contents a read may take
    short,      \* whether the socket may take a part of a reply, or nothing of it
    ran,        \* history: the commands for the storage and what became of them
    sent        \* history: the replies written, with the version they were encoded for

connVars == <<conn, ran, sent>>

Fresh(input) ==
    [pc |-> "none", input |-> input, data |-> <<>>, parser |-> NewParser, commands |-> <<>>,
     flush |-> FALSE, cut |-> FALSE, after |-> FALSE, client |-> NewClient, out |-> <<>>]

At(c, pc) == conn[c].pc = pc
Goto(c, pc) == conn' = [conn EXCEPT ![c].pc = pc]

-----------------------------------------------------------------------------
(* Reading and parsing. *)

Read(c) ==
    /\ At(c, "read") /\ ~cancelled /\ conn[c].input # <<>>
    /\ \E n \in chunks :
          LET m == Min({n, Len(conn[c].input)})
          IN  conn' = [conn EXCEPT ![c].pc = "parse", ![c].data = SubSeq(conn[c].input, 1, m),
                                   ![c].input = SubSeq(@, m + 1, Len(@)), ![c].after = FALSE]
    /\ UNCHANGED <<ran, sent>>

\* The client closes the connection, or the socket fails; every command of the
\* reads before has been run.
ReadEnds(c) ==
    /\ At(c, "read") /\ ~cancelled
    /\ Goto(c, "closing")
    /\ UNCHANGED <<ran, sent>>

Cancelled(c) ==
    /\ At(c, "read") /\ cancelled
    /\ Goto(c, "closing")
    /\ UNCHANGED <<ran, sent>>

unauthenticated_buffer_limit_exceeded(x) ==
    ~x.client.authenticated /\ Len(x.parser.buffer) + Len(x.data) > MAX_UNAUTHENTICATED_BUFFER_SIZE

\* An array whose first element is a text; other elements count as empty ones.
IsCommand(d) == d[1] = "Array" /\ d[2] # <<>> /\ d[2][1][1] = "BulkString"
extract_command_from_data(d) ==
    [i \in DOMAIN d[2] |-> IF d[2][i][1] = "BulkString" THEN d[2][i][2] ELSE <<>>]

BlockingCommands == {<<"blpop">>}
should_process_batch(commands) ==
    \/ Len(commands) >= MAX_BATCH_SIZE
    \/ \E line \in ToSet(commands) : to_lowercase(line[1]) \in BlockingCommands

\* The read is finished: the next one, unless shutdown was seen.
Finished(x) == [x EXCEPT !.pc = IF cancelled \/ x.after THEN "closing" ELSE "read", !.after = FALSE]

CompletedKeepsData(x, p) ==
    LET commands == Append(x.commands, extract_command_from_data(p.result.data))
    IN  IF ~IsCommand(p.result.data) THEN [x EXCEPT !.parser = p.parser]
        ELSE [x EXCEPT !.parser = p.parser, !.commands = commands,
                       !.pc = IF should_process_batch(commands) THEN "batch" ELSE "parse"]
\* A frame is complete: it is a command, or it is skipped.
Completed(x, p) ==
    LET next == [x EXCEPT !.parser = p.parser, !.data = <<>>]
        commands == Append(x.commands, extract_command_from_data(p.result.data))
    IN  IF ~IsCommand(p.result.data) THEN next
        ELSE [next EXCEPT !.commands = commands,
                          !.pc = IF should_process_batch(commands) THEN "batch" ELSE "parse"]

\* One round of the loop that parses what was read.  Commands already collected
\* are dropped when a later frame of the read is malformed.
Parsed(x, p) ==
    IF p.result.kind = "Error" THEN [x EXCEPT !.pc = "closing", !.commands = <<>>]
    ELSE IF IsOk(p.result) THEN Completed(x, p)
    ELSE IF x.commands = <<>> THEN Finished([x EXCEPT !.parser = p.parser, !.data = <<>>])
    ELSE [x EXCEPT !.parser = p.parser, !.data = <<>>, !.pc = "batch", !.flush = TRUE]
parse_client_request(c) ==
    /\ At(c, "parse")
    /\ conn' = [conn EXCEPT ![c] =
                  IF unauthenticated_buffer_limit_exceeded(@)
                  THEN [@ EXCEPT !.pc = "closing", !.commands = <<>>]
                  ELSE Parsed(@, parse(@.parser, @.data))]
    /\ UNCHANGED <<ran, sent>>

-----------------------------------------------------------------------------
(* process_command_batch: one command. *)

\* execute_network up to the point where a command is run, and
\* execute_local_command.
Replied(c, client) ==
    conn' = [conn EXCEPT ![c].pc = "write", ![c].client = client]

not_leader_reply == Error(<<"MOVED">>)

\* The history of a command for the storage.
Ran(c, argv, end) ==
    ran' = [ran EXCEPT ![c] = Append(@, [line |-> argv, end |-> end, reply |-> NullBulk])]
Ended(c, end, reply) ==
    ran' = [ran EXCEPT ![c][Len(ran[c])].end = end, ![c][Len(ran[c])].reply = reply]

\* The vector commands, which check_pre_route refuses in a cluster, and the
\* linearizable read that follows for them are not among the commands here.
execute_network(c, client, argv) ==
    IF ~check_arg(MetaOf(argv).arity, Len(argv))
    THEN Replied(c, Refused(client, "ERR wrong number of arguments")) /\ UNCHANGED <<ran, call>>
    ELSE IF MetaOf(argv).WRITE /\ ~leader
    THEN /\ Replied(c, set_reply(client, not_leader_reply))
         /\ Ran(c, argv, "refused") /\ UNCHANGED call
    ELSE IF to_lowercase(argv[1]) \in LocalCommands
    THEN Replied(c, execute_local_command(client, argv)) /\ UNCHANGED <<ran, call>>
    ELSE /\ Ran(c, argv, "open")
         /\ call' = [call EXCEPT ![c] = Calling(argv)]
         /\ Goto(c, "call")

handle_network_command(c, client, argv) ==
    IF Known(argv) THEN execute_network(c, client, argv)
    ELSE Replied(c, set_reply(client, Error(<<"ERR unknown command ">> \o argv[1])))
         /\ UNCHANGED <<ran, call>>

RunCommand(c) ==
    /\ At(c, "batch")
    /\ LET argv == Head(conn[c].commands)
           client == conn[c].client
       IN  IF ~client.authenticated /\ Known(argv) /\ ~MetaOf(argv).NO_AUTH
           THEN Replied(c, Refused(client, "NOAUTH")) /\ UNCHANGED <<ran, call>>
           ELSE handle_network_command(c, client, argv)
    /\ UNCHANGED sent

\* execute_generic_command: the answer of the storage, or the error.
execute_generic_command(c) ==
    /\ At(c, "call") /\ call[c].pc \in {"answered", "failed"}
    /\ Replied(c, set_reply(conn[c].client, call[c].reply))
    /\ Ended(c, call[c].pc, call[c].reply)
    /\ call' = [call EXCEPT ![c] = NoCall]
    /\ UNCHANGED sent

ProceedReads(x) ==
    LET rest == Tail(x.commands)
        next == [x EXCEPT !.commands = rest, !.client.reply = NullBulk]
        over == [next EXCEPT !.after = @ \/ x.cut, !.cut = FALSE, !.flush = FALSE]
    IN  IF rest # <<>> THEN [next EXCEPT !.pc = "batch"] ELSE Finished(over)
\* What follows a command: the next of the batch, or the end of the batch.
Proceed(x) ==
    LET rest == Tail(x.commands)
        next == [x EXCEPT !.commands = rest, !.client.reply = NullBulk]
        over == [next EXCEPT !.after = @ \/ x.cut, !.cut = FALSE, !.flush = FALSE]
    IN  IF rest # <<>> THEN [next EXCEPT !.pc = "batch"]
        ELSE IF x.flush THEN Finished(over) ELSE [over EXCEPT !.pc = "parse"]

\* The reply in the version the client has now.  One call of write is made,
\* and the socket may take less than it was given; a failed write is only logged.
Write(c) ==
    /\ At(c, "write") /\ ~cancelled /\ ~conn[c].cut
    /\ LET x == conn[c]
           encoded == encode_resp_data(x.client.version, x.client.reply)
       IN  \E n \in {Len(encoded)} \cup (IF short THEN {0, 1} ELSE {}) :
              /\ conn' = [conn EXCEPT ![c] = Proceed([x EXCEPT !.out = @ \o SubSeq(encoded, 1, n)])]
              /\ sent' = [sent EXCEPT ![c] = Append(@, <<x.client.version, x.client.reply>>)]
    /\ UNCHANGED ran

\* Shutdown ends the writing of replies, not the running of commands.
SkipWrite(c) ==
    /\ At(c, "write") /\ (cancelled \/ conn[c].cut)
    /\ conn' = [conn EXCEPT ![c] = Proceed([@ EXCEPT !.cut = TRUE])]
    /\ UNCHANGED <<ran, sent>>

Process(c) ==
    \/ (Read(c) \/ Cancelled(c) \/ parse_client_request(c) \/ Write(c) \/ SkipWrite(c)) /\ UNCHANGED call
    \/ RunCommand(c) \/ execute_generic_command(c)

=============================================================================
