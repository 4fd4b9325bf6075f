--------------------------- MODULE RedisCommands ---------------------------
(* The Redis commands of src/tools/redis.ts and of                           *)
(* src/drivers/redis/redis-driver.ts: which tool or pipeline entry sends     *)
(* which command, what the driver refuses before it sends anything, and what *)
(* a command does to its key at the server.                                  *)
(*                                                                           *)
(* A command is [op, key, fit]; "fit" tells that the arguments of a pipeline *)
(* entry have the types its command wants.  A hash has one field, a set and  *)
(* a sorted set one member, and the value a call writes is its own number.   *)
EXTENDS Naturals, Sequences

CONSTANTS
  Keys,        \* the keys of the server
  Own          \* the keys that start with the keyPrefix of the connection

ASSUME OwnAssumption == Own \subseteq Keys

-----------------------------------------------------------------------------
(* The tools.  Each resolves the connection and calls the method of its name. *)

StringTools == {"get", "set", "del"}
HashTools   == {"hget", "hset", "hgetall", "hdel"}
ListTools   == {"lpush", "rpush", "lpop", "rpop", "lrange", "llen"}
SetTools    == {"sadd", "smembers", "srem", "scard", "sismember"}
ZsetTools   == {"zadd", "zrange", "zrem", "zcard", "zscore"}
KeyTools    == {"type", "expire", "ttl"}
KeylessTools == {"scan", "ping"}

KeyedTools == StringTools \cup HashTools \cup ListTools \cup SetTools \cup ZsetTools \cup KeyTools

\* The commands redis_pipeline accepts, and some of those it does not.
AllowedInPipeline == KeyedTools
Blocked == {"flushall"}
Unsupported == {"incr"}

\* Those the arguments of which may be missing or of another type.
WithArguments == {"set", "hget", "hset", "hdel", "lpush", "rpush", "lrange", "sadd", "srem",
                  "sismember", "zadd", "zrange", "zrem", "zscore", "expire"}

PipelineEntries ==
  {cmd \in [op : AllowedInPipeline \cup Blocked \cup Unsupported, key : Keys, fit : BOOLEAN] :
     cmd.fit \/ cmd.op \in WithArguments}

-----------------------------------------------------------------------------
(* What the methods of the driver test first.                                *)

\* The methods that refuse on a read-only connection.
StringWrites == {"set", "del"}
HashWrites   == {"hset", "hdel"}
ListWrites   == {"lpush", "rpush", "lpop", "rpop"}
SetWrites    == {"sadd", "srem"}
ZsetWrites   == {"zadd", "zrem"}
KeyWrites    == {"expire"}

\* Faulty variant: the methods on lists refuse only pushes.
PopsUnguarded == StringWrites \cup HashWrites \cup {"lpush", "rpush"} \cup SetWrites
                   \cup ZsetWrites \cup KeyWrites

GuardedMethods == StringWrites \cup HashWrites \cup ListWrites \cup SetWrites
                    \cup ZsetWrites \cup KeyWrites

\* The list of its own by which pipeline refuses writes.
PipelineWriteCommands ==
  {"set", "del", "hset", "hdel", "lpush", "rpush", "lpop", "rpop", "sadd", "srem",
   "zadd", "zrem", "expire"}

HasPrefix(cmd) == cmd.key \in Own

\* A method called by a tool; scan and ping test nothing.
MethodAccepts(cmd, readonly) ==
  \/ cmd.op \in KeylessTools
  \/ /\ cmd.op \in KeyedTools /\ cmd.fit
     /\ readonly => cmd.op \notin GuardedMethods
     /\ HasPrefix(cmd)

\* parseRedisPipelineCommands, then the loop of pipeline, which adds the entries one by
\* one and executes only after the last.
Parses(cmds) == \A i \in DOMAIN cmds : cmds[i].op \in AllowedInPipeline \ Blocked

EntryFits(cmd, readonly) ==
  /\ HasPrefix(cmd)
  /\ ~(readonly /\ cmd.op \in PipelineWriteCommands)
  /\ cmd.fit

PipelineAccepts(cmds, readonly) ==
  cmds # <<>> /\ Parses(cmds) /\ \A i \in DOMAIN cmds : EntryFits(cmds[i], readonly)

-----------------------------------------------------------------------------
(* What a command does to its key.  A command on a value of another type is  *)
(* answered with an error and does nothing.                                  *)

Nothing == [type |-> "none", val |-> <<>>, ttl |-> FALSE]
Str(v)  == [type |-> "string", val |-> <<v>>, ttl |-> FALSE]

TypeWanted(op) ==
  CASE op \in {"get"}   -> "string"
    [] op \in HashTools -> "hash"
    [] op \in ListTools -> "list"
    [] op \in SetTools  -> "set"
    [] op \in ZsetTools -> "zset"
    [] OTHER            -> "any"

RightType(op, held) == held.type = "none" \/ TypeWanted(op) \in {held.type, "any"}

\* The value made of what is held, which is gone when nothing is left in it.
Holding(held, type, val) ==
  IF val = <<>> THEN Nothing ELSE [type |-> type, val |-> val, ttl |-> held.ttl]

DropFirst(s) == IF s = <<>> THEN <<>> ELSE Tail(s)
DropLast(s)  == IF s = <<>> THEN <<>> ELSE SubSeq(s, 1, Len(s) - 1)

\* The key after command op of call c.
After(op, c, held) ==
  IF ~RightType(op, held) THEN held
  ELSE CASE op = "set"    -> Str(c)
         [] op = "del"    -> Nothing
         [] op = "hset"   -> Holding(held, "hash", <<c>>)
         [] op = "sadd"   -> Holding(held, "set", <<0>>)
         [] op = "zadd"   -> Holding(held, "zset", <<c>>)
         [] op \in {"hdel", "srem", "zrem"} -> Nothing
         [] op = "lpush"  -> Holding(held, "list", <<c>> \o held.val)
         [] op = "rpush"  -> Holding(held, "list", held.val \o <<c>>)
         [] op = "lpop"   -> Holding(held, "list", DropFirst(held.val))
         [] op = "rpop"   -> Holding(held, "list", DropLast(held.val))
         [] op = "expire" -> [held EXCEPT !.ttl = held.type # "none"]
         [] OTHER         -> held
=============================================================================
