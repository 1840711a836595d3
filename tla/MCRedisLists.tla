---------------------------- MODULE MCRedisLists ----------------------------
(***************************************************************************)
(* An instance of RedisLists for TLC.                                       *)
(***************************************************************************)
EXTENDS RedisLists, TLC

ListSymmetry == Permutations(Keys)

MCPushArgs == {<<"a", "b">>}

\* The last two elements, all but the last one, and the first one.
MCRanges == {<<-2, -1>>, <<0, -2>>, <<0, 0>>}

=============================================================================
