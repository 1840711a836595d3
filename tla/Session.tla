------------------------------ MODULE Session ------------------------------
(***************************************************************************)
(* What a connection knows of its client, and the commands it answers by      *)
(* itself: PING, AUTH, HELLO and CLIENT.  A command line is the sequence of   *)
(* its arguments, the name first; an argument is a sequence of bytes.         *)
(***************************************************************************)
EXTENDS Resp, TLC

VARIABLE requirepass    \* the configured password; the empty one stands for none

NoPassword == <<>>

\* ClientContext
NewClient == [authenticated |-> FALSE, version |-> RESP2, name |-> <<>>, reply |-> NullBulk]

set_reply(client, d) == [client EXCEPT !.reply = d]
Refused(client, text) == set_reply(client, Error(<<text>>))

\* to_lowercase and to_uppercase of the words in question.
Words == ("PING" :> "ping") @@ ("AUTH" :> "auth") @@ ("HELLO" :> "hello") @@ ("GET" :> "get")
         @@ ("SET" :> "set") @@ ("CLIENT" :> "client") @@ ("SETNAME" :> "setname")
         @@ ("GETNAME" :> "getname")
to_lowercase(b) == [i \in DOMAIN b |-> IF b[i] \in DOMAIN Words THEN Words[b[i]] ELSE b[i]]

-----------------------------------------------------------------------------
(* The command table, as far as a connection looks at it. *)

\* CmdMeta: the arity and the flags that matter here.
Meta(arity, write, no_auth) == [arity |-> arity, WRITE |-> write, NO_AUTH |-> no_auth]
cmd_table ==
    (<<"ping">> :> Meta(-1, FALSE, TRUE)) @@ (<<"auth">> :> Meta(-2, FALSE, TRUE))
    @@ (<<"hello">> :> Meta(-1, FALSE, TRUE)) @@ (<<"client">> :> Meta(-2, FALSE, FALSE))
    @@ (<<"get">> :> Meta(2, FALSE, FALSE)) @@ (<<"set">> :> Meta(-3, TRUE, FALSE))
Known(argv) == to_lowercase(argv[1]) \in DOMAIN cmd_table
MetaOf(argv) == cmd_table[to_lowercase(argv[1])]

check_arg(arity, n) == IF arity > 0 THEN n = arity ELSE n >= -arity

-----------------------------------------------------------------------------
(* do_cmd of the commands a connection answers by itself. *)

PingCmd(client, argv) ==
    IF Len(argv) = 1 THEN set_reply(client, SimpleString(<<"PONG">>))
    ELSE IF Len(argv) = 2 THEN set_reply(client, BulkString(argv[2]))
    ELSE Refused(client, "ERR wrong number of arguments")

AuthCmd(client, argv) ==
    IF Len(argv) = 2
    THEN IF requirepass = NoPassword THEN Refused(client, "ERR AUTH without password")
         ELSE IF argv[2] = requirepass
         THEN set_reply([client EXCEPT !.authenticated = TRUE], SimpleString(<<"OK">>))
         ELSE Refused(client, "WRONGPASS")
    ELSE IF Len(argv) = 3 THEN Refused(client, "ERR ACL not supported")
    ELSE Refused(client, "ERR wrong number of arguments")

CmdClientGetname(client, argv) ==
    IF check_arg(2, Len(argv)) THEN set_reply(client, BulkString(client.name))
    ELSE Refused(client, "ERR wrong number of arguments")
CmdClientSetname(client, argv) ==
    IF check_arg(3, Len(argv))
    THEN set_reply([client EXCEPT !.name = argv[3]], SimpleString(<<"OK">>))
    ELSE Refused(client, "ERR wrong number of arguments")

\* The subcommand checks its own arity; its flags are not looked at.
BaseCmdGroup(client, argv) ==
    LET sub == to_lowercase(argv[2])
    IN  IF sub = <<"getname">> THEN CmdClientGetname(client, argv)
        ELSE IF sub = <<"setname">> THEN CmdClientSetname(client, argv)
        ELSE Refused(client, "ERR unknown subcommand")

\* The closure HELLO hands to the negotiation: only the default user exists.
authenticate(user, password) ==
    IF user # <<"default">> THEN "WrongPassword"
    ELSE IF requirepass = NoPassword THEN "NoPasswordConfigured"
    ELSE IF password = requirepass THEN "Authenticated" ELSE "WrongPassword"

\* The clauses after the version: what they ask for, or the first error.
RECURSIVE hello_clauses(_, _)
hello_clauses(args, found) ==
    IF args = <<>> THEN found
    ELSE IF to_lowercase(args[1]) = <<"auth">>
    THEN IF Len(args) < 3 THEN [found EXCEPT !.error = "AUTH requires username and password"]
         ELSE IF authenticate(args[2], args[3]) = "Authenticated"
         THEN hello_clauses(From(args, 4), [found EXCEPT !.attempted = TRUE])
         ELSE [found EXCEPT !.error = authenticate(args[2], args[3])]
    ELSE IF to_lowercase(args[1]) = <<"setname">>
    THEN IF Len(args) < 2 THEN [found EXCEPT !.error = "SETNAME requires client name"]
         ELSE hello_clauses(From(args, 3), [found EXCEPT !.name = args[2]])
    ELSE [found EXCEPT !.error = "Unknown HELLO argument"]

\* The answers, without the fields whose contents never change.
HelloPairs(version) ==
    << <<BulkString(<<"server">>), BulkString(<<"kiwi">>)>>,
       <<BulkString(<<"proto">>), Integer(version)>>,
       <<BulkString(<<"modules">>), Array(<<>>)>> >>
build_resp2_hello_response == Array(Flattened(HelloPairs(RESP2)))
build_resp3_hello_response == Map(HelloPairs(RESP3))

\* HELLO with the clauses already read: nothing is changed unless all is well.
HelloAccepted(client, version, found) ==
    IF found.error # "none" THEN Refused(client, found.error)
    ELSE IF requirepass # NoPassword /\ ~found.attempted /\ ~client.authenticated
    THEN Refused(client, "NOAUTH")
    ELSE set_reply([client EXCEPT !.authenticated = TRUE, !.version = version, !.name = found.name],
                   IF version = RESP3 THEN build_resp3_hello_response
                   ELSE build_resp2_hello_response)
handle_hello(client, args) ==
    LET asked == args # <<>> /\ args[1] \in {<<"2">>, <<"3">>}
        version == IF ~asked THEN client.version ELSE IF args[1] = <<"3">> THEN RESP3 ELSE RESP2
    IN  HelloAccepted(client, version,
            hello_clauses(IF asked THEN Tail(args) ELSE args,
                          [error |-> "none", attempted |-> FALSE, name |-> client.name]))
HelloCmd(client, argv) == handle_hello(client, Tail(argv))

LocalCommands == {<<"ping">>, <<"auth">>, <<"client">>, <<"hello">>}
execute_local_command(client, argv) ==
    LET name == to_lowercase(argv[1])
    IN  CASE name = <<"ping">> -> PingCmd(client, argv)
          [] name = <<"auth">> -> AuthCmd(client, argv)
          [] name = <<"client">> -> BaseCmdGroup(client, argv)
          [] OTHER -> HelloCmd(client, argv)

=============================================================================
