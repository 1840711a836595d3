-------------------------------- MODULE Cmd --------------------------------
(***************************************************************************)
(* What the command layer does before and after it calls the storage.       *)
(*                                                                          *)
(* A command line is a tuple: the name, then the arguments.  Keys, fields   *)
(* and members are integers; every other argument is a value of RedisStore, *)
(* a word, or a pattern, so that what parses as a number is told apart from *)
(* what does not.                                                           *)
(***************************************************************************)
EXTENDS RedisStore

Word(w) == <<"word", w>>

WrongArity == Err("wrong number of arguments")
SyntaxError == Err("syntax error")
NotInteger == Err("value is not an integer or out of range")
NotFloat == Err("value is not a valid float")

\* Cmd::check_arg: the name of the command is counted.
check_arg(arity, n) == IF arity > 0 THEN n = arity ELSE n >= -arity

\* Cmd::execute for commands whose do_initial accepts every line.
execute(s, argv, arity, done) ==
    IF check_arg(arity, Len(argv)) THEN done ELSE Result(s, WrongArity)

\* do_initial refuses the line without setting a reply.
NoReply == <<"no reply">>

\* The same for commands that do not write.
query(s, argv, arity, reply) == execute(s, argv, arity, Result(s, reply))

\* The arguments from the n-th on, and the pairs they form.
From(argv, n) == SubSeq(argv, n, Len(argv))
Pairs(args) == [i \in 1..Len(args) \div 2 |-> <<args[2 * i - 1], args[2 * i]>>]

AllParseInt(toks) == \A t \in ToSet(toks) : ParsesInt(t)
AllParseFloat(toks) == \A t \in ToSet(toks) : ParsesFloat(t)

-----------------------------------------------------------------------------
(* [MATCH pattern] [COUNT count] of the scan commands. *)

RECURSIVE scan_options(_, _)
scan_options(args, found) ==
    IF args = <<>> THEN found
    ELSE IF args[1] \notin {Word("MATCH"), Word("COUNT")} \/ Len(args) = 1 THEN SyntaxError
    ELSE IF args[1] = Word("MATCH")
    THEN scan_options(From(args, 3), [found EXCEPT ![3] = args[2]])
    ELSE IF ParsesInt(args[2]) /\ IntOf(args[2]) > 0
    THEN scan_options(From(args, 3), [found EXCEPT ![4] = IntOf(args[2])])
    ELSE NotInteger

DefaultCount == 10

\* <<"options", cursor, pattern, count>> or an error.
parse_scan_options(cursor, args) ==
    IF ParsesInt(cursor) /\ IntOf(cursor) >= 0
    THEN scan_options(args, <<"options", IntOf(cursor), NoPattern, DefaultCount>>)
    ELSE Err("invalid cursor")

=============================================================================
