---------------------------- MODULE RedisCommands ----------------------------
(***************************************************************************)
(* The commands of the Redis front end as functions of their argument      *)
(* vector: string2Ops and the handlers of src/server/src/handler.cpp, and  *)
(* the methods of RedisWrapper they call                                   *)
(* (src/src/redis_wrapper/redis_wrapper.cpp).  args[0] is the name of the  *)
(* command, so n, the size of the vector, is one more than the number of   *)
(* operands.  A string is the sequence of its parts that matter.           *)
(***************************************************************************)
EXTENDS Naturals, Sequences, FiniteSets

BasicOps == {"get", "set", "del", "incr", "decr", "expire", "ttl"}
HashOps  == {"hset", "hget", "hdel", "hkeys"}
ListOps  == {"lpush", "rpush", "lpop", "rpop", "llen", "lrange"}
ZsetOps  == {"zadd", "zrem", "zrange", "zcard", "zscore", "zincrby", "zrank"}
SetOps   == {"sadd", "srem", "sismember", "scard", "smembers"}
StoreOps == {"flushall", "save"}

OPS == BasicOps \cup HashOps \cup ListOps \cup ZsetOps \cup SetOps \cup StoreOps
         \cup {"ping", "unknown"}

\* The name as the client spells it: its letters and whether any is a capital.
toLower(word) == [word EXCEPT !.capital = FALSE]

string2Ops(word) ==
  IF toLower(word) \in [letters : OPS \ {"unknown"}, capital : {FALSE}]
  THEN word.letters ELSE "unknown"

-----------------------------------------------------------------------------
(* The argument vectors that a handler passes on to the wrapper; it        *)
(* answers every other one with an error.                                  *)

BasicAccepts(op, n) ==
  \/ op \in {"get", "incr", "decr", "ttl"} /\ n = 2
  \/ op \in {"set", "expire"} /\ n = 3
  \/ op = "del" /\ n >= 2

HashAccepts(op, n) ==
  \/ op = "hkeys" /\ n = 2
  \/ op \in {"hget", "hdel"} /\ n = 3
  \/ op = "hset" /\ n >= 4

\* Fault: lrange may leave out its last operand.
ListAcceptsShort(op, n) ==
  \/ op \in {"lpop", "rpop"} /\ n = 2
  \/ op \in {"lpush", "rpush", "llen"} /\ n = 3
  \/ op = "lrange" /\ n \in {3, 4}

\* llen asks for a third argument, which nothing reads.
ListAccepts(op, n) ==
  \/ op \in {"lpop", "rpop"} /\ n = 2
  \/ op \in {"lpush", "rpush", "llen"} /\ n = 3
  \/ op = "lrange" /\ n = 4

ZsetAccepts(op, n) ==
  \/ op = "zcard" /\ n = 2
  \/ op \in {"zscore", "zrank"} /\ n = 3
  \/ op = "zincrby" /\ n = 4
  \/ op = "zrem" /\ n >= 3
  \/ op = "zrange" /\ n >= 4
  \/ op = "zadd" /\ n >= 4 /\ (n - 2) % 2 = 0

SetAccepts(op, n) ==
  \/ op \in {"scard", "smembers"} /\ n = 2
  \/ op = "sismember" /\ n = 3
  \/ op \in {"sadd", "srem"} /\ n >= 3

HandlerAccepts(op, n) ==
  \/ op \in StoreOps
  \/ BasicAccepts(op, n) \/ HashAccepts(op, n) \/ ListAccepts(op, n)
  \/ ZsetAccepts(op, n) \/ SetAccepts(op, n)

-----------------------------------------------------------------------------
(* The indices of args that a method of the wrapper reads, and for those   *)
(* that pass the vector on (the count is checked, the operands are not     *)
(* looked at) none.                                                        *)

BasicReads(op) ==
  CASE op \in {"set", "expire"} -> {1, 2}
    [] op = "del" -> {}
    [] OTHER -> {1}

\* hset counts again, and then pairs the operands behind the key.
HsetAccepts(n) == n >= 4 /\ (n - 1) % 2 = 1

HsetPairs(n) == {<<i, i + 1>> : i \in {j \in 2 .. n - 1 : j % 2 = 0 /\ j + 1 < n}}

HashReads(op, n) ==
  CASE op = "hset" -> IF HsetAccepts(n)
                      THEN {1} \cup UNION {{p[1], p[2]} : p \in HsetPairs(n)}
                      ELSE {}
    [] op = "hkeys" -> {1}
    [] OTHER -> {1, 2}

ListReads(op) ==
  CASE op \in {"lpush", "rpush"} -> {1, 2}
    [] op = "lrange" -> {1, 2, 3}
    [] OTHER -> {1}

ZsetReads(op) ==
  CASE op = "zincrby" -> {1, 2, 3}
    [] op \in {"zscore", "zrank"} -> {1, 2}
    [] op = "zcard" -> {1}
    [] OTHER -> {}

SetReads(op) ==
  CASE op = "sismember" -> {1, 2}
    [] op \in {"scard", "smembers"} -> {1}
    [] OTHER -> {}

WrapperReads(op, n) ==
  CASE op \in BasicOps -> BasicReads(op)
    [] op \in HashOps -> HashReads(op, n)
    [] op \in ListOps -> ListReads(op)
    [] op \in ZsetOps -> ZsetReads(op)
    [] op \in SetOps -> SetReads(op)
    [] OTHER -> {}

\* lrange turns two operands into numbers; std::stoi throws on other text.
WrapperThrows(op, numeric) == op = "lrange" /\ ~numeric

-----------------------------------------------------------------------------
(* Replies.  The commands have no bodies yet; each answers as for a store  *)
(* that holds nothing.  Only incr and decr leave the framing to their      *)
(* handler.                                                                *)

CRLF == "CRLF"
Error(text)  == <<"-", text, CRLF>>
Simple(text) == <<"+", text, CRLF>>
Integer(digits)  == <<":", digits, CRLF>>
NullBulk     == <<"$", "-1", CRLF>>
EmptyArray   == <<"*", "0", CRLF>>

BasicReply(op) ==
  CASE op = "set" -> Simple("OK")
    [] op = "get" -> NullBulk
    [] op = "del" -> Integer("0")
    [] op \in {"expire", "ttl"} -> Integer("1")
    [] op = "incr" -> <<"1">>
    [] op = "decr" -> <<"-1">>

HashReply(op, n) ==
  CASE op = "hset" -> IF HsetAccepts(n) THEN Integer("0") ELSE Error("arguments")
    [] op = "hget" -> NullBulk
    [] op = "hdel" -> Integer("1")
    [] op = "hkeys" -> EmptyArray

ListReply(op) ==
  CASE op \in {"lpush", "rpush", "llen"} -> Integer("1")
    [] op \in {"lpop", "rpop"} -> NullBulk
    [] op = "lrange" -> EmptyArray

ZsetReply(op) ==
  CASE op \in {"zadd", "zcard"} -> Integer("1")
    [] op = "zrem" -> Integer("0")
    [] op = "zrange" -> EmptyArray
    [] op \in {"zscore", "zincrby", "zrank"} -> NullBulk

SetReply(op) ==
  CASE op \in {"sadd", "sismember", "scard"} -> Integer("1")
    [] op = "srem" -> Integer("0")
    [] op = "smembers" -> EmptyArray

WrapperReply(op, n) ==
  CASE op \in BasicOps -> BasicReply(op)
    [] op \in HashOps -> HashReply(op, n)
    [] op \in ListOps -> ListReply(op)
    [] op \in ZsetOps -> ZsetReply(op)
    [] op \in SetOps -> SetReply(op)

\* Fault: the handler of incr trusts the wrapper with the framing.
UnframedHandlerReply(op, n) ==
  IF ~HandlerAccepts(op, n) THEN Error("arguments")
  ELSE IF op \in StoreOps THEN Simple("OK")
  ELSE WrapperReply(op, n)

HandlerReply(op, n) ==
  IF ~HandlerAccepts(op, n) THEN Error("arguments")
  ELSE CASE op \in StoreOps -> Simple("OK")
         [] op \in {"incr", "decr"} -> <<":">> \o WrapperReply(op, n) \o <<CRLF>>
         [] OTHER -> WrapperReply(op, n)

\* A reply is one value of the protocol.
Framed(reply) ==
  /\ Len(reply) = 3
  /\ reply[1] \in {"+", "-", ":", "$", "*"}
  /\ reply[3] = CRLF
  /\ reply[2] # CRLF
==============================================================================
