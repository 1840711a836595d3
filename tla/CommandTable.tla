---------------------------- MODULE CommandTable ----------------------------
(***************************************************************************)
(* The command table: what a command line does to the database.  Every       *)
(* command returns the set of its possible results.                          *)
(***************************************************************************)
EXTENDS StringCmds, RedisHashes, RedisZSets, SetStore, ListStore, RedisVectors

CONSTANTS           \* CommandTableGates
    ClusterFlushAllowed,
    VectorEnabled,
    VectorClusterAllowed

-----------------------------------------------------------------------------
(* The names of the table, by the module that has the command. *)

HashNames == {"hset", "hget", "hdel", "hexists", "hlen", "hkeys", "hmset", "hmget", "hgetall",
              "hvals", "hincrby", "hincrbyfloat", "hsetnx", "hstrlen", "hscan"}
ListNames == {"lpush", "rpush", "lpop", "rpop", "llen", "lindex", "lrange", "lset", "ltrim",
              "lrem", "lpushx", "rpushx", "linsert"}
SetNames == {"sadd", "scard", "sismember", "smembers", "smismember", "spop", "srandmember",
             "srem", "sscan"}
SetsNames == {"sdiff", "sdiffstore", "sinter", "sinterstore", "smove", "sunion", "sunionstore"}
ZSetNames == {"zadd", "zcard", "zcount", "zincrby", "zlexcount", "zmscore", "zrank", "zrem",
              "zrevrank", "zscan", "zscore"}
ZSetRangeNames == {"zinterstore", "zrange", "zrangebylex", "zrangebyscore", "zremrangebylex",
                   "zremrangebyrank", "zremrangebyscore", "zrevrange", "zrevrangebyscore",
                   "zunionstore"}
VectorNames == {"vadd", "vsim", "vrem", "vcard", "vdim", "vemb", "vinfo", "vismember"}

\* A command on one key runs in the instance of its key.
Single(db, argv, result) == {Routed(db, argv[2], result)}
Several(db, argv, results) == {Routed(db, argv[2], r) : r \in results}

HashCommand(db, argv) ==
    LET s == InstanceOf(db, argv[2])
    IN  Single(db, argv,
        CASE argv[1] = "hset" -> HSetCmd(s, argv)
          [] argv[1] = "hget" -> HGetCmd(s, argv)
          [] argv[1] = "hdel" -> HDelCmd(s, argv)
          [] argv[1] = "hexists" -> HExistsCmd(s, argv)
          [] argv[1] = "hlen" -> HLenCmd(s, argv)
          [] argv[1] = "hkeys" -> HKeysCmd(s, argv)
          [] argv[1] = "hmset" -> HMSetCmd(s, argv)
          [] argv[1] = "hmget" -> HMGetCmd(s, argv)
          [] argv[1] = "hgetall" -> HGetAllCmd(s, argv)
          [] argv[1] = "hvals" -> HValsCmd(s, argv)
          [] argv[1] = "hincrby" -> HIncrByCmd(s, argv)
          [] argv[1] = "hincrbyfloat" -> HIncrByFloatCmd(s, argv)
          [] argv[1] = "hsetnx" -> HSetNXCmd(s, argv)
          [] argv[1] = "hstrlen" -> HStrlenCmd(s, argv)
          [] argv[1] = "hscan" -> HScanCmd(s, argv))

ListCommand(db, argv) ==
    LET s == InstanceOf(db, argv[2])
    IN  Single(db, argv,
        CASE argv[1] = "lpush" -> LPushCmd(s, argv)
          [] argv[1] = "rpush" -> RPushCmd(s, argv)
          [] argv[1] = "lpop" -> LPopCmd(s, argv)
          [] argv[1] = "rpop" -> RPopCmd(s, argv)
          [] argv[1] = "llen" -> LLenCmd(s, argv)
          [] argv[1] = "lindex" -> LIndexCmd(s, argv)
          [] argv[1] = "lrange" -> LRangeCmd(s, argv)
          [] argv[1] = "lset" -> LSetCmd(s, argv)
          [] argv[1] = "ltrim" -> LTrimCmd(s, argv)
          [] argv[1] = "lrem" -> LRemCmd(s, argv)
          [] argv[1] = "lpushx" -> LPushxCmd(s, argv)
          [] argv[1] = "rpushx" -> RPushxCmd(s, argv)
          [] argv[1] = "linsert" -> LInsertCmd(s, argv))

SetCommand(db, argv) ==
    LET s == InstanceOf(db, argv[2])
    IN  Several(db, argv,
        CASE argv[1] = "sadd" -> SaddCmd(s, argv)
          [] argv[1] = "scard" -> ScardCmd(s, argv)
          [] argv[1] = "sismember" -> SismemberCmd(s, argv)
          [] argv[1] = "smembers" -> SmembersCmd(s, argv)
          [] argv[1] = "smismember" -> SmismemberCmd(s, argv)
          [] argv[1] = "spop" -> SpopCmd(s, argv)
          [] argv[1] = "srandmember" -> SrandmemberCmd(s, argv)
          [] argv[1] = "srem" -> SremCmd(s, argv)
          [] argv[1] = "sscan" -> SscanCmd(s, argv))

SetsCommand(db, argv) ==
    LET s == InstanceOf(db, argv[2])
    IN  Several(db, argv,
        CASE argv[1] = "sdiff" -> SdiffCmd(s, argv)
          [] argv[1] = "sdiffstore" -> SdiffstoreCmd(s, argv)
          [] argv[1] = "sinter" -> SinterCmd(s, argv)
          [] argv[1] = "sinterstore" -> SinterstoreCmd(s, argv)
          [] argv[1] = "smove" -> SmoveCmd(s, argv)
          [] argv[1] = "sunion" -> SunionCmd(s, argv)
          [] argv[1] = "sunionstore" -> SunionstoreCmd(s, argv))

ZSetCommand(db, argv) ==
    LET s == InstanceOf(db, argv[2])
    IN  Single(db, argv,
        CASE argv[1] = "zadd" -> ZaddCmd(s, argv)
          [] argv[1] = "zcard" -> ZcardCmd(s, argv)
          [] argv[1] = "zcount" -> ZcountCmd(s, argv)
          [] argv[1] = "zincrby" -> ZincrbyCmd(s, argv)
          [] argv[1] = "zlexcount" -> ZlexcountCmd(s, argv)
          [] argv[1] = "zmscore" -> ZmscoreCmd(s, argv)
          [] argv[1] = "zrank" -> ZrankCmd(s, argv)
          [] argv[1] = "zrem" -> ZremCmd(s, argv)
          [] argv[1] = "zrevrank" -> ZrevrankCmd(s, argv)
          [] argv[1] = "zscan" -> ZscanCmd(s, argv)
          [] argv[1] = "zscore" -> ZscoreCmd(s, argv))

ZSetRangeCommand(db, argv) ==
    LET s == InstanceOf(db, argv[2])
    IN  Single(db, argv,
        CASE argv[1] = "zinterstore" -> ZinterstoreCmd(s, argv)
          [] argv[1] = "zrange" -> ZrangeCmd(s, argv)
          [] argv[1] = "zrangebylex" -> ZrangebylexCmd(s, argv)
          [] argv[1] = "zrangebyscore" -> ZrangebyscoreCmd(s, argv)
          [] argv[1] = "zremrangebylex" -> ZremrangebylexCmd(s, argv)
          [] argv[1] = "zremrangebyrank" -> ZremrangebyrankCmd(s, argv)
          [] argv[1] = "zremrangebyscore" -> ZremrangebyscoreCmd(s, argv)
          [] argv[1] = "zrevrange" -> ZrevrangeCmd(s, argv)
          [] argv[1] = "zrevrangebyscore" -> ZrevrangebyscoreCmd(s, argv)
          [] argv[1] = "zunionstore" -> ZunionstoreCmd(s, argv))

\* GatedCmd: the outer gate is asked after the inner one has let the command be
\* routed.
VectorCommand(db, argv) ==
    LET s == InstanceOf(db, argv[2])
    IN  Single(db, argv,
        CASE ~VectorClusterAllowed -> Result(s, Err("not supported in cluster mode yet"))
          [] ~VectorEnabled -> Result(s, Err("vector support is disabled"))
          [] argv[1] = "vadd" -> VAddCmd(s, argv)
          [] argv[1] = "vsim" -> VSimCmd(s, argv)
          [] argv[1] = "vrem" -> VRemCmd(s, argv)
          [] argv[1] = "vcard" -> VCardCmd(s, argv)
          [] argv[1] = "vdim" -> VDimCmd(s, argv)
          [] argv[1] = "vemb" -> VEmbCmd(s, argv)
          [] argv[1] = "vinfo" -> VInfoCmd(s, argv)
          [] argv[1] = "vismember" -> VIsMemberCmd(s, argv))

\* The commands of the strings, of the bits and of all keys.
StringCommand(db, argv) ==
    CASE argv[1] = "get" -> GetCmd(db, argv)
      [] argv[1] = "set" -> SetCmd(db, argv)
      [] argv[1] = "append" -> AppendCmd(db, argv)
      [] argv[1] = "incr" -> IncrCmd(db, argv)
      [] argv[1] = "incrby" -> IncrbyCmd(db, argv)
      [] argv[1] = "incrbyfloat" -> IncrbyFloatCmd(db, argv)
      [] argv[1] = "decr" -> DecrCmd(db, argv)
      [] argv[1] = "decrby" -> DecrbyCmd(db, argv)
      [] argv[1] = "strlen" -> StrlenCmd(db, argv)
      [] argv[1] = "substr" -> SubstrCmd(db, argv)
      [] argv[1] = "getrange" -> GetrangeCmd(db, argv)
      [] argv[1] = "setrange" -> SetrangeCmd(db, argv)
      [] argv[1] = "setex" -> SetexCmd(db, argv)
      [] argv[1] = "psetex" -> PsetexCmd(db, argv)
      [] argv[1] = "setnx" -> SetnxCmd(db, argv)
      [] argv[1] = "getset" -> GetsetCmd(db, argv)
      [] argv[1] = "mget" -> MgetCmd(db, argv)
      [] argv[1] = "mset" -> MsetCmd(db, argv)
      [] argv[1] = "msetnx" -> MsetnxCmd(db, argv)
      [] argv[1] = "setbit" -> SetbitCmd(db, argv)
      [] argv[1] = "getbit" -> GetbitCmd(db, argv)
      [] argv[1] = "bitcount" -> BitcountCmd(db, argv)
      [] argv[1] = "bitpos" -> BitposCmd(db, argv)
      [] argv[1] = "bitop" -> BitopCmd(db, argv)
      [] OTHER -> Result(db, Err("unknown command"))

KeyCommand(db, argv) ==
    CASE argv[1] = "del" -> DelCmd(db, argv)
      [] argv[1] = "exists" -> ExistsCmd(db, argv)
      [] argv[1] = "scan" -> ScanCmd(db, argv)
      [] argv[1] = "expire" -> ExpireCmd(db, argv)
      [] argv[1] = "expireat" -> ExpireatCmd(db, argv)
      [] argv[1] = "pexpire" -> PexpireCmd(db, argv)
      [] argv[1] = "pexpireat" -> PexpireatCmd(db, argv)
      [] argv[1] = "ttl" -> TtlCmd(db, argv)
      [] argv[1] = "pttl" -> PttlCmd(db, argv)
      [] argv[1] = "persist" -> PersistCmd(db, argv)
      [] argv[1] = "type" -> TypeCmd(db, argv)
      [] argv[1] = "keys" -> KeysCmd(db, argv)
      [] argv[1] = "randomkey" -> RandomkeyCmd(db, argv)

KeyNames == {"del", "exists", "scan", "expire", "expireat", "pexpire", "pexpireat", "ttl", "pttl",
             "persist", "type", "keys", "randomkey"}

\* GatedCmd::do_initial: FLUSHDB and FLUSHALL where they are not allowed.
FlushCommand(db, argv) ==
    IF ~check_arg(1, Len(argv)) THEN Result(db, WrongArity)
    ELSE IF ~ClusterFlushAllowed THEN Result(db, Err("not supported in cluster mode yet"))
    ELSE IF argv[1] = "flushdb" THEN FlushdbCmd(db, argv) ELSE FlushallCmd(db, argv)

-----------------------------------------------------------------------------
(* Commands on several keys. *)

\* The keys of a set command on several sets share a slot.
SetKeys(argv) == IF argv[1] = "smove" THEN SubSeq(argv, 2, 3) ELSE From(argv, 2)
CrossSlot(argv) == \E k \in ToSet(SetKeys(argv)) : key_to_slot_id[k] # key_to_slot_id[argv[2]]

RPopLPush(db, argv) ==
    IF check_arg(3, Len(argv)) /\ get_instance_id(argv[2]) # get_instance_id(argv[3])
    THEN Result(db, Err("Cross-slot RPOPLPUSH operations are not supported"))
    ELSE Routed(db, argv[2], RPoplpushCmd(InstanceOf(db, argv[2]), argv))

Run(db, argv) ==
    CASE argv[1] \in {"flushdb", "flushall"} -> {FlushCommand(db, argv)}
      [] argv[1] \in KeyNames -> {KeyCommand(db, argv)}
      [] argv[1] \in HashNames -> HashCommand(db, argv)
      [] argv[1] \in ZSetNames -> ZSetCommand(db, argv)
      [] argv[1] \in ZSetRangeNames -> ZSetRangeCommand(db, argv)
      [] argv[1] \in ListNames -> ListCommand(db, argv)
      [] argv[1] \in VectorNames -> VectorCommand(db, argv)
      [] argv[1] \in SetNames -> SetCommand(db, argv)
      [] argv[1] \in SetsNames /\ CrossSlot(argv) -> {Result(db, Err("CROSSSLOT"))}
      [] argv[1] \in SetsNames /\ ~CrossSlot(argv) -> SetsCommand(db, argv)
      [] argv[1] = "rpoplpush" -> {RPopLPush(db, argv)}
      [] OTHER -> {StringCommand(db, argv)}
=============================================================================
