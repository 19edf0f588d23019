---------------------------- MODULE Interpreter -----------------------------
(***************************************************************************)
(* The commands of src/interpreter.c over the keyspace of src/htable.c. A  *)
(* key holds a string, a hash, a list or a set. The keyspace and a hash    *)
(* behave as KVMap!LossySpec, a set as LooseSet and a list as ListSpec:    *)
(* what HTable, OpenSet and LinkedList are shown to implement. So a rehash *)
(* may drop a key, field or member of Shaky, a set may hold a member twice *)
(* and lose the copies in a rehash, and "used" hears nothing of that.      *)
(*                                                                         *)
(* A command that loops over its arguments and writes is one action per    *)
(* iteration. Every other command is one action.                           *)
(*                                                                         *)
(* A string is an integer (its decimal numeral), EMPTY, or another member  *)
(* of Words. EMPTY is the empty string; like a lone "-", it passes         *)
(* is_number and reads as 0.                                               *)
(***************************************************************************)
EXTENDS CInt, ListOps, Functions

CONSTANTS Ops,     \* the commands in use
          Keys,    \* the keys clients use
          Data,    \* the strings clients store: values, fields, members
          Numbers, \* the strings clients give as number, index or count
          Words,   \* the strings that are no numeral
          Shaky,   \* the keys and strings a table may refuse or lose
          EMPTY,
          StrLen,  \* the length of each string
          GARBAGE, \* what reading a container as a C string gives
          MaxArgs, \* bound: arguments of a command
          MaxLen,  \* bound: elements of a list
          MaxUsed, \* bound: items a hash or a set counts
          NULL

ASSUME InterpreterAssumption ==
  /\ EMPTY \in Words
  /\ Data \subseteq Int \cup Words /\ Numbers \subseteq Int \cup Words
  /\ NULL \notin Keys /\ MaxArgs \in Nat /\ MaxLen \in Nat /\ MaxUsed \in Nat

VARIABLES db,     \* key -> [type, val], or NULL when the key is absent
          run,    \* the command whose loop is under way, or NULL
          status, \* "up", or why the process crashed
          reply   \* the answer to the last command, Nil while it loops

vars == <<db, run, status, reply>>
-----------------------------------------------------------------------------
is_number(s) == s \notin Words \/ s = EMPTY
strtoi(s) == IF s = EMPTY THEN 0 ELSE AsInt(s)

\* What a table may be left with when it should hold the keys of D: a key of
\* Shaky is refused or dropped, in favour of another one.
Kept(D) == {F \in SUBSET D : D \ Shaky \subseteq F /\ (D # {} => F # {})}

Present(d) == {k \in Keys : d[k] # NULL}

\* The keyspace after it was to become d: an insertion or a deletion may come
\* with a rehash, an overwritten value does not.
Outcomes(d) ==
  IF Present(d) = Present(db) THEN {d}
  ELSE {[k \in Keys |-> IF k \in F THEN d[k] ELSE NULL] : F \in Kept(Present(d))}

Ready(op) == op \in Ops /\ status = "up" /\ run = NULL

Reply(op, ans) == reply' = [op |-> op, ans |-> ans]
Read(op, ans) == Reply(op, ans) /\ UNCHANGED <<db, run, status>>
Write(op, d, ans) == db' \in Outcomes(d) /\ Reply(op, ans) /\ UNCHANGED <<run, status>>
Crash(why) == status' = why /\ UNCHANGED <<db, run, reply>>

Ok == <<"ok">>
Nil == <<"nil">>
Integer(n) == <<"int", n>>
Err(kind) == <<"err", kind>>
Array(elems) == <<"array", elems>>
reply_string(s) == IF s = NULL THEN Nil ELSE <<"str", s>>

\* reply_array and reply_array_n answer a numeral as an integer.
element(s) == IF s # NULL /\ s # GARBAGE /\ is_number(s)
              THEN Integer(strtoi(s)) ELSE reply_string(s)

htable_type(k) == IF db[k] = NULL THEN "none" ELSE db[k].type
is_type(k, type) == htable_type(k) \in {type, "none"}

Typed(op, k, type, Command) ==
  \/ is_type(k, type) /\ Command
  \/ ~is_type(k, type) /\ Read(op, Err("type"))

\* What a key holds; an absent container reads as an empty one.
Str(s) == [type |-> "string", val |-> s]
Held(c, default) == IF c = NULL THEN default ELSE c.val
val(k, default) == Held(db[k], default)

\* Mutant of Stored: the emptied container stays.
StoredAsIs(d, k, type, v) == [d EXCEPT ![k] = [type |-> type, val |-> v]]

\* A container goes back under its key, and the key goes when the container
\* counts nothing any more: len is 0, or used is.
Stored(d, k, type, v) ==
  LET empty == IF type = "list" THEN Len(v) = 0 ELSE v.used = 0
  IN  [d EXCEPT ![k] = IF empty THEN NULL ELSE [type |-> type, val |-> v]]

\* Mutant of htable_set: the type of what is there does not matter.
set_always(d, k, v) == [d EXCEPT ![k] = Str(v)]

htable_set(d, k, v) ==
  IF d[k] = NULL \/ d[k].type = "string" THEN [d EXCEPT ![k] = Str(v)] ELSE d
-----------------------------------------------------------------------------
\* The number of arguments each command takes.
ArgcOK(op, n) ==
  CASE op = "set" -> n \in 0 .. 2
    [] op \in {"type", "get", "incr", "decr", "strlen", "hgetall", "hkeys", "hvals",
               "hlen", "lpop", "rpop", "llen", "smembers"} -> n = 1
    [] op \in {"incrby", "decrby", "hget", "hexists", "lindex", "lpos", "sismember"} -> n = 2
    [] op \in {"lrange", "lset", "lrem"} -> n = 3
    [] op \in {"del", "exists", "mget"} -> n >= 1
    [] op \in {"hdel", "hmget", "lpush", "rpush", "sadd", "srem", "smismember"} -> n >= 2
    [] op = "mset" -> n >= 2 /\ n % 2 = 0
    [] op = "hset" -> n >= 3 /\ n % 2 = 1

reply_err_argc(op) ==
  Ready(op) /\ (\E n \in 0 .. 4 : ~ArgcOK(op, n)) /\ Read(op, Err("argc"))
-----------------------------------------------------------------------------
\* Commands on keys and strings.
exec_exists(ks) ==
  Ready("exists") /\ Read("exists", Integer(Len(SelectSeq(ks, LAMBDA k : db[k] # NULL))))

exec_type(k) == Ready("type") /\ Read("type", <<"type", htable_type(k)>>)

exec_set(k, v) == Ready("set") /\ Write("set", htable_set(db, k, v), Ok)

\* With no argument at all there is nothing to set.
exec_set_nothing == Ready("set") /\ Read("set", Ok)

exec_get(k) == Ready("get") /\ Typed("get", k, "string",
                                     Read("get", reply_string(val(k, NULL))))

\* Only the first key is checked; a container under another key is read as if
\* its struct were a string.
exec_mget(ks) ==
  Ready("mget") /\ Typed("mget", ks[1], "string",
    Read("mget", Array([i \in DOMAIN ks |->
      element(IF is_type(ks[i], "string") THEN val(ks[i], NULL) ELSE GARBAGE)])))

\* exec_incr and exec_decr; a missing key starts at n.
AddConstant(op, k, n) ==
  Ready(op) /\ Typed(op, k, "string",
    \/ db[k] = NULL /\ Write(op, htable_set(db, k, n), Integer(n))
    \/ /\ db[k] # NULL /\ is_number(db[k].val)
       /\ LET sum == AsInt(strtoi(db[k].val) + n)
          IN  Write(op, htable_set(db, k, sum), Integer(sum))
    \/ db[k] # NULL /\ ~is_number(db[k].val) /\ Read(op, Err("intid")))

exec_incr(k) == AddConstant("incr", k, 1)
exec_decr(k) == AddConstant("decr", k, -1)

\* exec_incrby and exec_decrby; a missing key takes the operand, whatever the
\* sign, and with an operand that is no number is_number reads a null pointer.
AddOperand(op, k, a, sign) ==
  Ready(op) /\ Typed(op, k, "string",
    \/ /\ db[k] = NULL /\ is_number(a)
       /\ Write(op, htable_set(db, k, strtoi(a)), Integer(strtoi(a)))
    \/ db[k] = NULL /\ ~is_number(a) /\ Crash("null number")
    \/ /\ db[k] # NULL /\ is_number(db[k].val) /\ is_number(a)
       /\ LET sum == AsInt(strtoi(db[k].val) + sign * strtoi(a))
          IN  Write(op, htable_set(db, k, sum), Integer(sum))
    \/ /\ db[k] # NULL /\ ~(is_number(db[k].val) /\ is_number(a))
       /\ Read(op, Err("intid")))

exec_incrby(k, a) == AddOperand("incrby", k, a, 1)
exec_decrby(k, a) == AddOperand("decrby", k, a, -1)

exec_strlen(k) ==
  Ready("strlen") /\ Typed("strlen", k, "string",
    Read("strlen", Integer(IF db[k] = NULL THEN 0 ELSE StrLen[db[k].val])))
-----------------------------------------------------------------------------
\* Commands on hashes. A hash is a table of strings with its count. The order
\* in which it is listed is left open: the answer is a function on the fields.
NoFields == [f \in {} |-> NULL]
EmptyHash == [fields |-> NoFields, used |-> 0]

htable_hget(k, f) ==
  LET h == val(k, EmptyHash).fields IN IF f \in DOMAIN h THEN h[f] ELSE NULL

exec_hget(k, f) ==
  Ready("hget") /\ Typed("hget", k, "hash", Read("hget", reply_string(htable_hget(k, f))))

exec_hexists(k, f) ==
  Ready("hexists") /\ Typed("hexists", k, "hash",
    Read("hexists", Integer(IF htable_hget(k, f) = NULL THEN 0 ELSE 1)))

\* htable_hgetall and htable_hkeyvals list the fields once they have met "used"
\* of them, and nothing when they never do.
Listed(k) ==
  LET h == val(k, EmptyHash)
  IN  IF Cardinality(DOMAIN h.fields) = h.used THEN h.fields ELSE NoFields

htable_hgetall(k) ==
  LET h == Listed(k) IN [f \in DOMAIN h |-> <<element(f), element(h[f])>>]

exec_hgetall(k) ==
  Ready("hgetall") /\ Typed("hgetall", k, "hash", Read("hgetall", Array(htable_hgetall(k))))

exec_hkeys(k) ==
  Ready("hkeys") /\ Typed("hkeys", k, "hash",
    Read("hkeys", Array([f \in DOMAIN Listed(k) |-> element(f)])))

exec_hvals(k) ==
  Ready("hvals") /\ Typed("hvals", k, "hash",
    LET h == Listed(k) IN Read("hvals", Array([f \in DOMAIN h |-> element(h[f])])))

htable_hlen(k) == val(k, EmptyHash).used

exec_hlen(k) ==
  Ready("hlen") /\ Typed("hlen", k, "hash", Read("hlen", Integer(htable_hlen(k))))

exec_hmget(k, fs) ==
  Ready("hmget") /\ Typed("hmget", k, "hash",
    Read("hmget", Array(IF db[k] = NULL THEN <<>>
                        ELSE [i \in DOMAIN fs |-> element(htable_hget(k, fs[i]))])))
-----------------------------------------------------------------------------
\* Commands on lists. htable_pop takes the value of the node that list_lpop or
\* list_rpop returns without asking whether there is one: CountedContainers.
Pop(op, k, dir) ==
  Ready(op) /\ Typed(op, k, "list",
    \/ db[k] = NULL /\ Read(op, Nil)
    \/ /\ db[k] # NULL
       /\ LET s == db[k].val
          IN  Write(op, Stored(db, k, "list", IF dir = "LEFT" THEN Tail(s) ELSE Front(s)),
                    reply_string(IF dir = "LEFT" THEN Head(s) ELSE Last(s))))

exec_lpop(k) == Pop("lpop", k, "LEFT")
exec_rpop(k) == Pop("rpop", k, "RIGHT")

htable_llen(k) == Len(val(k, <<>>))

exec_llen(k) ==
  Ready("llen") /\ Typed("llen", k, "list", Read("llen", Integer(htable_llen(k))))

\* htable_check_id: the place of index a, once a is known to be a number.
PlaceOf(k, a) == Place(db[k].val, strtoi(a))
InList(k, a) == is_number(a) /\ (db[k] # NULL => PlaceOf(k, a) \in DOMAIN db[k].val)

htable_lindex(k, a) == db[k].val[PlaceOf(k, a)]

exec_lindex(k, a) ==
  Ready("lindex") /\ Typed("lindex", k, "list",
    Read("lindex", IF ~InList(k, a) THEN Err("intid")
                   ELSE IF db[k] = NULL THEN Nil
                   ELSE reply_string(htable_lindex(k, a))))

htable_lrange(k, a, b) == SubSeq(db[k].val, PlaceOf(k, a), PlaceOf(k, b))

exec_lrange(k, a, b) ==
  Ready("lrange") /\ Typed("lrange", k, "list",
    Read("lrange",
         IF ~InList(k, a) \/ ~InList(k, b) THEN Err("intid")
         ELSE IF db[k] = NULL THEN Array(<<>>)
         ELSE IF PlaceOf(k, a) > PlaceOf(k, b) THEN Err("intid")
         ELSE LET s == htable_lrange(k, a, b)
              IN  Array([i \in DOMAIN s |-> element(s[i])])))

htable_lset(k, a, v) == [db EXCEPT ![k].val[PlaceOf(k, a)] = v]

exec_lset(k, a, v) ==
  Ready("lset") /\ Typed("lset", k, "list",
    \/ ~InList(k, a) /\ Read("lset", Err("intid"))
    \/ InList(k, a) /\ db[k] = NULL /\ Read("lset", Nil)
    \/ /\ InList(k, a) /\ db[k] # NULL
       /\ Write("lset", htable_lset(k, a, v), Ok))

htable_lrem(k, a, v) == Stored(db, k, "list", Without(db[k].val, strtoi(a), v))

exec_lrem(k, a, v) ==
  Ready("lrem") /\ Typed("lrem", k, "list",
    \/ ~is_number(a) /\ Read("lrem", Err("intid"))
    \/ is_number(a) /\ db[k] = NULL /\ Read("lrem", Integer(0))
    \/ /\ is_number(a) /\ db[k] # NULL
       /\ Write("lrem", htable_lrem(k, a, v),
                Integer(Cardinality(Doomed(db[k].val, strtoi(a), v)))))

htable_lpos(k, v) == IndexOf(val(k, <<>>), v)

exec_lpos(k, v) ==
  Ready("lpos") /\ Typed("lpos", k, "list",
    LET i == htable_lpos(k, v) IN Read("lpos", IF i < 0 THEN Nil ELSE Integer(i)))
-----------------------------------------------------------------------------
\* Commands on sets that only read. A set keeps the number of copies of each
\* string, its count, and whether it may have tombstones.
EmptySet == [copies |-> [m \in Data |-> 0], used |-> 0, stones |-> FALSE]

Members(s) == {m \in Data : s.copies[m] > 0}

htable_sismember(k, m) == IF m \in Members(val(k, EmptySet)) THEN 1 ELSE 0

exec_sismember(k, m) ==
  Ready("sismember") /\ Typed("sismember", k, "set",
    Read("sismember", Integer(htable_sismember(k, m))))

\* A member is listed as often as it is held.
htable_smembers(k) ==
  LET s == val(k, EmptySet) IN [m \in Members(s) |-> <<element(m), s.copies[m]>>]

exec_smembers(k) ==
  Ready("smembers") /\ Typed("smembers", k, "set",
    Read("smembers", Array(htable_smembers(k))))

exec_smismember(k, ms) ==
  Ready("smismember") /\ Typed("smismember", k, "set",
    Read("smismember", Array(IF db[k] = NULL THEN <<>>
                             ELSE [i \in DOMAIN ms |-> Integer(htable_sismember(k, ms[i]))])))
-----------------------------------------------------------------------------
\* Commands that write in a loop: the arguments are checked, and the loop
\* begins. An argument of hset and mset is a pair.
LoopFrom(op, k, args, i) ==
  /\ run' = [op |-> op, key |-> k, args |-> args, i |-> i, result |-> 0, before |-> db]
  /\ Reply(op, Nil) /\ UNCHANGED <<db, status>>

\* Mutant of Begin: the loop starts at the command's name.
BeginAtName(op, k, args) == LoopFrom(op, k, args, 0)

Begin(op, k, args) == LoopFrom(op, k, args, 1)

exec_del(ks) == Ready("del") /\ Begin("del", NULL, ks)
exec_mset(pairs) == Ready("mset") /\ Begin("mset", NULL, pairs)
exec_hset(k, pairs) ==
  Ready("hset") /\ Typed("hset", k, "hash",
    val(k, EmptyHash).used + Len(pairs) <= MaxUsed /\ Begin("hset", k, pairs))
exec_hdel(k, fs) == Ready("hdel") /\ Typed("hdel", k, "hash", Begin("hdel", k, fs))
exec_sadd(k, ms) ==
  Ready("sadd") /\ Typed("sadd", k, "set",
    val(k, EmptySet).used + Len(ms) <= MaxUsed /\ Begin("sadd", k, ms))
exec_srem(k, ms) == Ready("srem") /\ Typed("srem", k, "set", Begin("srem", k, ms))
exec_push(op, k, vs) ==
  Ready(op) /\ Typed(op, k, "list",
    Len(val(k, <<>>)) + Len(vs) <= MaxLen /\ Begin(op, k, vs))

\* Mutant of Tally: the count is not carried over to the next iteration.
TallyLast(oks) == oks

\* oks += ...
Tally(oks) == run.result + oks

\* The rest of an iteration: the next argument, or the answer.
Iterate(d, result) ==
  /\ db' \in Outcomes(d) /\ UNCHANGED status
  /\ \/ /\ run.i < Len(run.args)
        /\ run' = [run EXCEPT !.i = @ + 1, !.result = result]
        /\ UNCHANGED reply
     \/ /\ run.i = Len(run.args)
        /\ run' = NULL
        /\ Reply(run.op, IF run.op = "mset" THEN Ok ELSE Integer(result))

Looping(op) == status = "up" /\ run # NULL /\ run.op = op
arg == run.args[run.i]

htable_del == /\ Looping("del")
              /\ Iterate([db EXCEPT ![arg] = NULL],
                         Tally(IF db[arg] = NULL THEN 0 ELSE 1))

mset_pair == /\ Looping("mset")
             /\ Iterate(htable_set(db, arg[1], arg[2]), 0)

Updated(type, v) == [db EXCEPT ![run.key] = [type |-> type, val |-> v]]

\* The hash after htable_set of a field: a new field may be refused, or come
\* with a rehash.
htable_update_hash(h, f, v) ==
  LET with == [g \in DOMAIN h.fields \cup {f} |-> IF g = f THEN v ELSE h.fields[g]]
  IN  IF f \in DOMAIN h.fields THEN {[h EXCEPT !.fields = with]}
      ELSE {[fields |-> Restrict(with, F), used |-> h.used + 1] : F \in Kept(DOMAIN with)}
             \cup {g \in {h} : f \in Shaky /\ DOMAIN h.fields # {}}

\* htable_set returns true whatever it did.
htable_hset ==
  /\ Looping("hset")
  /\ \E h \in htable_update_hash(val(run.key, EmptyHash), arg[1], arg[2]) :
       Iterate(Updated("hash", h), Tally(1))

htable_hdel ==
  /\ Looping("hdel")
  /\ LET h == val(run.key, EmptyHash)
     IN  \/ /\ arg \in DOMAIN h.fields
            /\ \E F \in Kept(DOMAIN h.fields \ {arg}) :
                 Iterate(Stored(db, run.key, "hash",
                                [fields |-> Restrict(h.fields, F), used |-> h.used - 1]),
                         Tally(1))
         \/ arg \notin DOMAIN h.fields /\ Iterate(db, Tally(0))

htable_update_list(dir) ==
  IF dir = "LEFT" THEN <<arg>> \o val(run.key, <<>>) ELSE Append(val(run.key, <<>>), arg)

\* The answer is the length after the last push.
htable_push ==
  \E op \in {"lpush", "rpush"} :
    /\ Looping(op)
    /\ LET s == htable_update_list(IF op = "lpush" THEN "LEFT" ELSE "RIGHT")
       IN  Iterate(Updated("list", s), Len(s))

\* A set as it is, or after a rehash: no tombstones, one copy of what it keeps,
\* and the count of before.
Resized(s) ==
  {s} \cup {[copies |-> [m \in Data |-> IF m \in F THEN 1 ELSE 0],
            used |-> s.used, stones |-> FALSE] : F \in Kept(Members(s))}

\* set_add takes the first slot that is free, also when it finds a tombstone
\* before the copy that is there.
htable_update_set(s, m) ==
  IF s.copies[m] > 0 => s.stones
  THEN Resized([s EXCEPT !.copies[m] = @ + 1, !.used = @ + 1])
  ELSE {}

\* It meets a copy, or a string of Shaky finds its slot taken.
set_refuses(s, m) == m \in Members(s) \/ (m \in Shaky /\ Members(s) # {})

htable_sadd ==
  /\ Looping("sadd")
  /\ LET s == val(run.key, EmptySet)
     IN  \/ \E t \in htable_update_set(s, arg) : Iterate(Updated("set", t), Tally(1))
         \/ set_refuses(s, arg) /\ Iterate(db, Tally(0))

\* set_rem takes one copy.
htable_srem ==
  /\ Looping("srem")
  /\ LET s == val(run.key, EmptySet)
     IN  \/ /\ arg \in Members(s)
            /\ \E t \in Resized([copies |-> [s.copies EXCEPT ![arg] = @ - 1],
                                 used |-> s.used - 1, stones |-> TRUE]) :
                 Iterate(Stored(db, run.key, "set", t), Tally(1))
         \/ arg \notin Members(s) /\ Iterate(db, Tally(0))
-----------------------------------------------------------------------------
Init == /\ db = [k \in Keys |-> NULL]
        /\ run = NULL /\ status = "up"
        /\ reply = [op |-> "none", ans |-> Nil]

Some(S) == UNION {[1 .. n -> S] : n \in 1 .. MaxArgs}

OnKeysAndStrings ==
  \/ \E op \in Ops : reply_err_argc(op)
  \/ \E ks \in Some(Keys) : exec_del(ks) \/ exec_exists(ks) \/ exec_mget(ks)
  \/ \E pairs \in Some(Keys \X Data) : exec_mset(pairs)
  \/ \E k \in Keys, v \in Data \cup {EMPTY} : exec_set(k, v)
  \/ exec_set_nothing
  \/ \E k \in Keys : exec_type(k) \/ exec_get(k) \/ exec_incr(k) \/ exec_decr(k) \/ exec_strlen(k)
  \/ \E k \in Keys, a \in Numbers : exec_incrby(k, a) \/ exec_decrby(k, a)
  \/ htable_del \/ mset_pair

OnHashes ==
  \/ \E k \in Keys, f \in Data : exec_hget(k, f) \/ exec_hexists(k, f)
  \/ \E k \in Keys : exec_hgetall(k) \/ exec_hkeys(k) \/ exec_hvals(k) \/ exec_hlen(k)
  \/ \E k \in Keys, fs \in Some(Data) : exec_hmget(k, fs) \/ exec_hdel(k, fs)
  \/ \E k \in Keys, pairs \in Some(Data \X Data) : exec_hset(k, pairs)
  \/ htable_hset \/ htable_hdel

OnLists ==
  \/ \E k \in Keys : exec_lpop(k) \/ exec_rpop(k) \/ exec_llen(k)
  \/ \E k \in Keys, a \in Numbers : exec_lindex(k, a)
  \/ \E k \in Keys, a, b \in Numbers : exec_lrange(k, a, b)
  \/ \E k \in Keys, a \in Numbers, v \in Data : exec_lset(k, a, v) \/ exec_lrem(k, a, v)
  \/ \E k \in Keys, v \in Data : exec_lpos(k, v)
  \/ \E op \in {"lpush", "rpush"}, k \in Keys, vs \in Some(Data) : exec_push(op, k, vs)
  \/ htable_push

OnSets ==
  \/ \E k \in Keys, m \in Data : exec_sismember(k, m)
  \/ \E k \in Keys : exec_smembers(k)
  \/ \E k \in Keys, ms \in Some(Data) : exec_smismember(k, ms) \/ exec_sadd(k, ms) \/ exec_srem(k, ms)
  \/ htable_sadd \/ htable_srem

Next == OnKeysAndStrings \/ OnHashes \/ OnLists \/ OnSets

Spec == Init /\ [][Next]_vars
-----------------------------------------------------------------------------
Strings == Data \cup Numbers \cup IntRange \cup {EMPTY}

Hashes == [fields : UNION {[F -> Data] : F \in SUBSET Data}, used : Nat]
Lists == UNION {[1 .. n -> Data] : n \in 0 .. MaxLen}
Sets == [copies : [Data -> Nat], used : Nat, stones : BOOLEAN]

Contents ==
  [type : {"string"}, val : Strings] \cup [type : {"hash"}, val : Hashes]
    \cup [type : {"list"}, val : Lists] \cup [type : {"set"}, val : Sets]

\* A command whose loop is under way.
Underway ==
  [op : Ops, key : Keys \cup {NULL}, i : Nat, result : Nat,
   args : Seq(Keys \cup Data) \cup Seq((Keys \cup Data) \X Data),
   before : [Keys -> Contents \cup {NULL}]]

\* No value and no command is taken for the absence of one.
ASSUME NullAssumption == NULL \notin Contents /\ NULL \notin Underway

\* Each key holds a value of one of the four types, and a command that loops
\* is at one of its arguments.
TypeOK ==
  /\ db \in [Keys -> Contents \cup {NULL}]
  /\ run # NULL => run.op \in Ops /\ run.i \in DOMAIN run.args /\ run.result \in Nat
  /\ status \in {"up", "null number"}
  /\ reply.op \in Ops \cup {"none"}

\* What a hash or a set holds, a set every copy: the items "used" should count.
Items(c) ==
  IF c.type = "hash" THEN DOMAIN c.val.fields
  ELSE UNION {{m} \X (1 .. c.val.copies[m]) : m \in Data}

\* A key that is there has a list with an element, which htable_pop follows
\* without looking, or a hash or set that counts something; and the count is
\* never below the items, also when rehashes have lost or merged some. So a key
\* that htable_hdel or htable_srem drops for used = 0 takes no item along, and
\* the arrays of htable_hgetall and htable_hkeyvals have room.
CountedContainers ==
  \A k \in Keys : db[k] # NULL =>
    /\ db[k].type = "list" => db[k].val # <<>>
    /\ db[k].type \in {"hash", "set"} =>
         db[k].val.used > 0 /\ Cardinality(Items(db[k])) <= db[k].val.used

\* What a key holds never changes type, except by way of the key's absence.
TypeStable ==
  [][\A k \in Keys : db[k] # NULL /\ db'[k] # NULL => db'[k].type = db[k].type]_db
-----------------------------------------------------------------------------
(* What a command that loops has done to the keyspace b once it has worked  *)
(* through args: the keyspace is d, and n is its answer.                    *)

Named(args) == {args[i] : i \in DOMAIN args}
Firsts(pairs) == {pairs[i][1] : i \in DOMAIN pairs}

\* The value that the last pair for x gives it.
LastFor(x, pairs) == LET i == Max({j \in DOMAIN pairs : pairs[j][1] = x}) IN pairs[i][2]

\* n counts the items of X: those of Shaky may have been lost before.
Counts(n, X) == n \in Cardinality(X \ Shaky) .. Cardinality(X)

\* D is what became of the keys of E: those of Shaky may have been lost.
Remains(D, E) == D \subseteq E /\ E \ Shaky \subseteq D

\* A command on one key only loses keys of Shaky besides.
SameOrLost(k, b, d) == d[k] = b[k] \/ (k \in Shaky /\ d[k] = NULL)

DelEffect(args, b, d, n) ==
  /\ \A k \in Keys : IF k \in Named(args) THEN d[k] = NULL ELSE SameOrLost(k, b, d)
  /\ Counts(n, Named(args) \cap Present(b))

\* Containers stay. One that is lost on the way may come back as a string.
MSetEffect(pairs, b, d) ==
  LET Container(k) == b[k] # NULL /\ b[k].type # "string"
  IN  \A k \in Keys :
        \/ k \in Shaky /\ d[k] = NULL
        \/ d[k] = b[k] /\ (k \in Firsts(pairs) => Container(k))
        \/ /\ k \in Firsts(pairs) /\ d[k] = Str(LastFor(k, pairs))
           /\ Container(k) => k \in Shaky

HSetEffect(pairs, h0, h, n) ==
  /\ Remains(DOMAIN h.fields, DOMAIN h0.fields \cup Firsts(pairs))
  /\ \A f \in DOMAIN h.fields :
       h.fields[f] = IF f \in Firsts(pairs) THEN LastFor(f, pairs) ELSE h0.fields[f]
  /\ h.used \in h0.used .. h0.used + Len(pairs)
  /\ n = Len(pairs)

HDelEffect(args, h0, h, n) ==
  /\ Remains(DOMAIN h.fields, DOMAIN h0.fields \ Named(args))
  /\ \A f \in DOMAIN h.fields : h.fields[f] = h0.fields[f]
  /\ h.used = h0.used - n
  /\ Counts(n, DOMAIN h0.fields \cap Named(args))

\* The answer is the length after the last push.
PushEffect(op, args, s0, s, n) ==
  /\ s = IF op = "lpush" THEN Reverse(args) \o s0 ELSE s0 \o args
  /\ args # <<>> => n = Len(s)

\* The count is exact for a set without tombstones.
SAddEffect(args, s0, s, n) ==
  LET new == Named(args) \ Members(s0)
  IN  /\ Remains(Members(s), Members(s0) \cup Named(args))
      /\ s.used = s0.used + n /\ (s.stones => s0.stones)
      /\ n \in Cardinality(new \ Shaky) .. Len(args)
      /\ ~s0.stones /\ Named(args) \cap Shaky = {} => n = Cardinality(new)

\* The count is that of the members for a set that holds none of them twice.
SRemEffect(args, s0, s, n) ==
  LET gone == Named(args) \cap Members(s0)
  IN  /\ \A m \in Data : s.copies[m] <= s0.copies[m]
      /\ \A m \in gone : s.copies[m] < s0.copies[m]
      /\ Members(s0) \ (Named(args) \cup Shaky) \subseteq Members(s)
      /\ s.used = s0.used - n
      /\ n \in Cardinality(gone \ Shaky) .. Len(args)
      /\ (\A m \in Data : s0.copies[m] <= 1) => n <= Cardinality(gone)

\* The effect on what the key of a command holds.
OnKey(op, args, c0, c, n) ==
  CASE op = "hset" -> HSetEffect(args, Held(c0, EmptyHash), Held(c, EmptyHash), n)
    [] op = "hdel" -> HDelEffect(args, Held(c0, EmptyHash), Held(c, EmptyHash), n)
    [] op = "sadd" -> SAddEffect(args, Held(c0, EmptySet), Held(c, EmptySet), n)
    [] op = "srem" -> SRemEffect(args, Held(c0, EmptySet), Held(c, EmptySet), n)
    [] op \in {"lpush", "rpush"} -> PushEffect(op, args, Held(c0, <<>>), Held(c, <<>>), n)

\* Nothing is said of a key of Shaky that was not there, which may be created,
\* refused and created again.
Effect(op, k, args, b, d, n) ==
  CASE op = "del" -> DelEffect(args, b, d, n)
    [] op = "mset" -> MSetEffect(args, b, d)
    [] OTHER -> /\ \A j \in Keys \ {k} : SameOrLost(j, b, d)
                /\ ~(k \in Shaky /\ b[k] = NULL) => OnKey(op, args, b[k], d[k], n)

\* A command that works through its arguments one by one, and may lose its key
\* on the way, has the effect and the count of treating all of them at once, up
\* to what rehashes lose meanwhile.
BatchEffect ==
  [][run # NULL /\ run' = NULL =>
       LET n == reply'.ans[2]
       IN  /\ Effect(run.op, run.key, run.args, run.before, db', n)
           /\ reply'.ans = IF run.op = "mset" THEN Ok ELSE Integer(n)]_vars
=============================================================================
