---------------------------- MODULE MCRedisServer ----------------------------
(* Instance of RedisServer for TLC: one client pipelines requests of every  *)
(* form, or sends one command with any number of arguments; the other makes *)
(* one request beside it.                                                   *)
EXTENDS RedisServer

Request(form, word, n, numeric, breaks) ==
  [form |-> form, word |-> word, n |-> n, numeric |-> numeric, breaks |-> breaks]
Word(letters) == [letters |-> letters, capital |-> TRUE]

Get    == Request("array", Word("get"), 2, FALSE, FALSE)
Incr   == Request("array", Word("incr"), 2, FALSE, FALSE)
Broken == Request("array", Word("get"), 1, FALSE, TRUE)
Ping   == Request("ping", Word("ping"), 0, FALSE, FALSE)
PingLF == Request("pingLF", Word("ping"), 0, FALSE, FALSE)
Junk   == Request("junk", Word("ping"), 0, FALSE, FALSE)

Plays(s1, s2, n) ==
  [sends |-> [c \in {"c1", "c2"} |-> IF c = "c1" THEN s1 ELSE s2],
   cuts  |-> [c \in {"c1", "c2"} |-> IF c = "c1" THEN n ELSE 0]]

MixedScripts ==
  << <<Ping, PingLF, Get>>, <<Get, Incr>>, <<Broken, Get>>, <<Junk, Incr>> >>

\* Every command with one to five elements.
Names == <<"get", "set", "del", "incr", "decr", "expire", "ttl", "hset", "hget",
  "hdel", "hkeys", "lpush", "rpush", "lpop", "rpop", "llen", "lrange", "zadd",
  "zrem", "zrange", "zcard", "zscore", "zincrby", "zrank", "sadd", "srem",
  "sismember", "scard", "smembers", "flushall", "save", "ping", "strlen">>
Command(i) ==
  Request("array", Word(Names[1 + (i \div 5)]), 1 + (i % 5), TRUE, FALSE)
TextRange == Request("array", Word("lrange"), 4, FALSE, FALSE)

MCScripts ==
  [i \in 1 .. 4 |-> Plays(MixedScripts[i], << >>, 1)]
  \o <<Plays(<<Get>>, <<PingLF, Ping>>, 0), Plays(<<TextRange>>, <<Ping>>, 0)>>
  \o [i \in 1 .. 5 * Len(Names) |-> Plays(<<Command(i - 1)>>, << >>, 0)]
==============================================================================
