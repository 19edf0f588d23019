--------------------------- MODULE MCInterpreter ----------------------------
(***************************************************************************)
(* An instance of Interpreter with all commands, strings that are and are  *)
(* not numbers, and 2-bit integers.                                        *)
(***************************************************************************)
EXTENDS Interpreter

CONSTANT word

AllOps ==
  {"set", "get", "mset", "mget", "incr", "decr", "incrby", "decrby", "strlen",
   "del", "exists", "type",
   "hset", "hget", "hdel", "hgetall", "hexists", "hkeys", "hvals", "hmget", "hlen",
   "lpush", "lpop", "rpush", "rpop", "llen", "lindex", "lrange", "lset", "lrem", "lpos",
   "sadd", "srem", "sismember", "smembers", "smismember"}

MCWords == {word, EMPTY}
\* 3 is out of the range of 2-bit integers, and of the lists.
Numerals == {-1, 1, 3, word}
MCStrLen == [s \in MCWords \cup (-4 .. 3) |->
               IF s = EMPTY THEN 0 ELSE IF s = word THEN 5 ELSE IF s < 0 THEN 2 ELSE 1]

\* No action reads the last answer: two states that differ in it only have the
\* same steps, and the properties speak of the answer a step gives.
AllButReply == <<db, run, status>>
=============================================================================
