# HyperKV in TLA+

A specification of HyperKV, an in-memory key-value server in C with Redis-like
commands, with TLC configurations that check it on small instances and TLAPS
proofs of what holds for all of them. Paths below are relative to the
repository; the definitions name the C functions they stand for.

## The system

| part | code | state | operations |
|---|---|---|---|
| hash functions | `helper.c` | none | `next_prime`, `djb2`, `sdbm`, `hash_func` |
| hash table | `htable.c` | `size`, `used`, `items` | insert, search, delete, update, resize |
| set | `set.c` | `size`, `used`, `members` | add, remove, test, resize |
| list | `list.c` | `len`, `head`, `tail`, nodes | push, pop, index, range, set, position, remove |
| keyspace and commands | `interpreter.c`, `htable.c` | one hash table whose values are strings, hash tables, lists and sets | the 36 commands on data |
| server | `hyperkv.c`, `server.c` | the connection it serves, the backlog | accept, read, interpret, write, close |
| client | `client.c` | its prompt | connect, write a line, read a reply |
| parser | `parser.c` | position in a line | tokens, argument count |
| replies | `interpreter.c`, `helper.c`, `client.c` | the buffers they are printed in | print, size, read back |
| logger, option handling, benchmarks | `log*.c`, `hyperkv-cli.c`, `benchmarks/` | | |

The server is one process with one thread. `main` accepts a connection and
serves it in `rediskw` until it quits: `readline`, `parse`, `interpret`,
`writeline`. The other connections wait in the backlog. `interpret` calls one
`exec_*` function, which calls the `htable_*` functions on the keyspace, which
call those of the nested table, list or set. Nothing is persisted.

What is hard in it: the open-addressing tables (tombstones, rehashes in which
two tables own the values, a probe sequence that need not cover the table, a
counter that a rehash does not recompute); list removal that frees nodes as it
walks; commands that write argument by argument and may lose their key half
way; int arithmetic that wraps; a protocol in which both sides only take turns,
over streams with reads of a fixed size and ends of stream nobody looks for; a
parser that scans each line twice and trusts the two scans to agree; replies
printed into buffers whose sizes are sums of digits and spare bytes.
`PROJECT.json` lists each of these hazards with its line and the properties
aimed at it.

## The modules

| module | models |
|---|---|
| `Hashing`, `StringHash` | `is_prime`, `next_prime`, `hash_func` over hashes given as constants; `djb2` and `sdbm` on strings, to tabulate those constants |
| `CInt`, `HashWidth` | the wrapping int; `hash_func` in ints |
| `Probing` | what the probe loops of `htable.c` and `set.c` find, as predicates over the slots; the keys that probe some table with step 0 (`Shaky`) |
| `HTable` | the hash table: one action per operation, one per slot in the loop of `htable_resize`. Values are heap handles, so that frees and leaks show |
| `KVMap` | what a hash table promises: a map with a count (`Spec`), and what it keeps: a map that may refuse or lose the keys of `Shaky`, of which the count hears nothing (`LossySpec`) |
| `OpenSet`, `LooseSet` | `set.c` in the same way, and what it implements: a bag with a count and tombstones, which may hold a member twice, merges copies in a rehash and may refuse or lose the strings of `Shaky` |
| `ListOps`, `LinkedList`, `ListSpec` | what indices and counts mean; the nodes and pointers of `list.c`, with `list_rem` one node at a time; the sequence that they implement |
| `Interpreter` | the commands, over what the modules above are shown to keep: a keyspace and hashes that behave as `KVMap!LossySpec`, sets that behave as `LooseSet`, lists that are sequences. A loop that writes takes one action per argument; every other command is one action |
| `Server` | the start of the server, accept loop, sessions, prompts, streams, resets and SIGPIPE |
| `Chars`, `Parser` | characters and texts; `parse`, with `get_next_token` one character at a time and the second scan of `get_argc` |
| `Replies` | the texts the `reply_*` functions print, with what they leave of their buffers; the integer conversions of `helper.c`; what the `parse_*` functions of `client.c` read |
| `Exchange` | one line at a time from the prompt to the parser and its reply back, in bytes: composes `Parser` and `Replies` |
| `MC*` | the instances for TLC |
| `Probing_proofs` | lemmas on slots, loads and probe paths, for both tables; which probe sequences visit every slot; the int `hash_func` |
| `HTable_proofs` | theorems about `HTable`: invariants, the lossy map, the exact map |
| `OpenSet_proofs` | theorems about `OpenSet`: invariants, the bag |
| `ListOps_proofs`, `LinkedList_proofs` | lemmas on places in a sequence; theorems about `LinkedList`: invariants, the sequence, the end of a removal |
| `Interpreter_proofs` | theorems about `Interpreter`: types, containers, what loops have done |
| `Server_proofs` | theorems about `Server` |
| `Exchange_proofs` | theorems about `Exchange`: what the parser finds, what the prompt shows, the limits of texts and buffers |

`HTable`, `OpenSet` and `LinkedList` are composed with the layer above by
refinement: each is shown to implement an abstract module, and `Interpreter` is
written over what those abstract modules keep, with their faults. A table under
it may refuse or drop a key of `Shaky`; a set may hold copies and merge them; and
the counts, by which `htable_hdel` and `htable_srem` decide whether a key is to
go, follow the insertions and deletions only, as `used` does in the code. The
conditions under which one of these happens are those of the abstract modules:
a key or string is refused or lost only for another one, a copy needs a
tombstone, a rehash leaves one of each string.

`Server` treats commands as numbered requests, since their order and number is
what it is about. `Exchange` takes the other half: a single session, one line
after the other, down to the characters, with any of the kinds of answer that
`interpret` gives.

### How state and actions correspond

- `HTable`: `items[p]` is the key of `ht->items[p]`, `NULL`, or `DELETED` for
  `&HT_DELETED`; `vals[p]` is `item->value`. During a resize `nitems`, `nvals`,
  `nsize` and `nused` are the `new_ht` of `htable_resize`, and `cursor` is its
  loop index. `htable_set`, `htable_create` (the insertions of `htable_hset`,
  `htable_push` and `htable_sadd`), `htable_del` and `htable_get` are actions,
  and each includes the start of the resize it triggers; `item_swap` moves one
  slot, or skips one; `FinishResize` swaps the tables and frees the old one.
- `OpenSet` is built the same way; `MoveMember` is the loop of `set_resize`.
- `LinkedList`: `next`, `prev` and `value` are the fields of the nodes in
  `allocated`; `rem` is the state of a `list_rem` in progress. `reply` names the
  last command with its arguments beside its answer, so that `IsSequence` ties
  each answer to what was asked.
- `Interpreter`: `db` is the keyspace. A hash under a key is its `fields` and
  its `used`; a set is the number of `copies` of each string, its `used`, and
  whether it may have tombstones (`stones`). `Outcomes`, `Kept` and `Resized` say
  what a table or a set may be after an insertion or deletion and the rehash that
  may come with it. `Stored` drops the key at `used == 0`, and that of a list at
  `len == 0`. `Listed` gives up where `htable_hgetall` and `htable_hkeyvals` do.
  `run` is the loop of the command under way, with the keyspace from before it
  (`before`, used by a property only).
- `Server`: `pc` is where the server is (`accept` in `main`, `read` and `write`
  in `rediskw`); `up` and `down` are the bytes in the two directions of a
  connection, in cells; a command line is one cell or several (`Lines`). A read
  of either end takes `ReadCap` cells, the 1024 bytes of `readline`, goes by what
  begins at the first of them, and leaves what is behind them: it loses the lines
  it took besides, and may cut one, whose rest the next read takes for a line of
  its own (`Parsed`). A socket closed with data unread in it resets its
  connection. `client[c]` is where `repl` is; `shown`, `sent` and `done` record
  what was shown, sent and run. `init_server` may fail; a client that connects
  while the server starts gives up. After `end_of_input` a prompt sends "junk"
  lines, the buffer as `malloc` gave it. An answer is a run of cells
  (`Cells`), one at least: the line end and the NUL that `writeline` adds.
- `Parser`: `string`, `parser` and `dup` are the message and the positions of
  the two `Parser` structs of `parse`; `scan` says for whom `get_next_token`
  runs and `mode` which of its loops it is in. Each action is one turn of a loop
  or one return; `Return` holds what the caller does with the token. `crashed`
  is the `strdup` of a token that is not there.
- `Exchange`: the `Type*` actions build a line word by word and record in
  `words` what it means; `Enter` is `fgets`, the client's `writeline` and the
  server's `readline`; `exec_noop`, `exec_unknown` and `interpret` print an
  answer into its `reply` buffer; `repl` is the way back and `parse_resp`. A
  read that fills its buffer without a NUL ends in `overrun`, after which
  nothing is claimed.

## The runs

| run | instance | shows |
|---|---|---|
| `htable_exact` | 4 one-character keys whose probe sequences cover tables of 2, 5, 11 and 23 slots | the table is a map with a map's answers, also across resizes (`IsMap`); it lists all its keys (`EnumerationComplete`); nothing leaks (`NoLeak`) |
| `htable_lossy` | 4 keys, two with a step of 0 in 5 slots and two on the same path there; strings and lists | the table may refuse or lose a key and does nothing worse (`IsLossyMap`): what is in it is found (`Findable`), owned once (`Ownership`) and counted (`CountBound`), the load stays below the limit (`Headroom`) and resizes do not nest (`NeverNested`) |
| `htable_acked` | the same keys, strings | violation: `htable_set` returns true for a key it did not store |
| `htable_enumeration` | the same | violation: after a rehash dropped a key, `hgetall`, `hkeys` and `hvals` find nothing |
| `set_bag` | 3 keys, one with a step of 0 in 5 slots and two on the same path there | a set is a bag (`IsBag`): no stranger is a member, no member is lost but one with step 0 for another, a rehash merges copies (`RehashMerges`), members are reachable, and `used` is never below the copies (`CountBound`) |
| `set_removed` | 3 keys that cover, 2 of them on the same path | violation: a member is there after its removal |
| `set_emptied` | the same, up to 23 slots | violation: a set that lost its last member counts some, and would keep its key |
| `list` | 4 nodes, 2 values | the list is a sequence (`IsSequence`), its links are consistent in the middle of `list_rem` (`WellLinked`), no node is used after its free or lost, `list_rem` returns |
| `commands` | 2 keys, of which the keyspace may lose one; 2 data strings, of which hashes and sets may lose one; 2-bit ints, 2 arguments per command, lists of 2, counts up to 3 | types change only by way of absence (`TypeStable`); a list under a key has an element, a hash or set a count above 0 and never below its items (`CountedContainers`); a command that loops has the effect and the count of one step, up to what rehashes lose meanwhile (`BatchEffect`) |
| `server_sessions` | 2 clients: one whose input may end, one with replies of two reads that may be killed at any time; a server that may fail to start or to accept | a client whose replies fit a read is shown the answer to its last command (`Lockstep`); what runs, runs once and in order, though reads take several lines or a part of one (`InOrder`); client and server never both wait (`NoStandoff`); a connection in the backlog is served, unless the server ends or serves a prompt whose input ended (`Served`) |
| `server_outlives` | 2 clients | violation: a client that ends without a quit kills the server |
| `exchange` | lines of up to 5 characters behind 0 or 4 blanks, over two letters, both quotes and three blanks; buffers of 10 | the command and its arguments are the words typed (`TokensAreTheWords`), the two scans agree (`NoNullArgument`), only what exceeds the read buffers by their exact limits overruns (`OnlyLongTextsOverrun`), the prompt shows the answer (`AnswerShown`), the computed sizes suffice for all but the least int (`BuffersSuffice`), every line is answered (`Returns`) |

### Bounds

- `MaxRequest = 22` lets tables grow from 2 to 5, 11 and 23 slots: with four
  keys and one tombstone or lost key, every resize up and down that those keys
  can cause happens. Five handles allow a leak beside four live values.
- The hash values are those of the real functions (`MCHTable` checks its table
  against `djb2` and `sdbm`). Keys with step 0 are common: one key in `size`.
- Four nodes give removals at the head, inside, and at the tail, of none, some
  and all matches, from both ends, with a node on each side of a freed one.
- Two arguments per command let a command lose its key at its first argument
  and find it gone at its second, or name the same argument twice. `IntMax = 1`
  reaches both ends of the range in two steps. With counts up to 3 (`MaxUsed`), a
  set holds two members of which one twice, and keeps its key when all of them
  are gone but the count is not 0. One key and one string of `Shaky` stand beside
  one each that is not. The run compares states without the last answer (`VIEW`):
  no action reads it, and the properties speak of the answer of the step they
  are about.
- Reads take 2 cells where a reply has at most 4 and a line of data 1 or 2: a
  read takes a line, two lines, or a line and the first half of the next. Lines
  of the other commands are one cell. Three commands per client suffice for a
  client to fall behind and have its next ones merged or cut.
- `Exchange`: five characters hold two words with a quote inside the first, or a
  string with a blank, and an unclosed one behind a word. With a buffer of 10,
  five characters fit it and their reply need not; the 4 leading blanks bring a
  line to its limit and beyond. One letter is a digit, so that answers may look
  like numbers. `IntMax = 10` has ints of one and two digits and both ends of
  the range, and the text `77` wraps to the least int; `MCExchange` checks `intostr`, `reply_integer`, `strtoi` and
  `parse_int` on all of them.

### Fairness

`list_rem` is weakly fair: it runs in the server's only thread. The server's
steps and a client's read are weakly fair, and so is the junk line of a prompt
at the end of its input, since no user is asked: the processes are scheduled. A
user's quit is strongly fair, for as long as the input lasts. In `Exchange` the
steps of client and server are weakly fair, those of the user are not. The code
gives a session no limit, so a client that stays keeps every other one waiting;
`Served` says that nothing else does.

## The proofs

They hold for all values of the constants, within the named assumptions:
hashes are natural numbers, a prime lies between x and 2x for the sizes in use
(checked by TLC up to the bound), the largest int is positive, blanks, quotes
and letters are different characters, and `NULL` and the tombstone are no data.
A buffer counts its bytes in an int and holds every reply that varies in an int
alone (`BufferAssumption`; in the program an int has at most 11 characters, and
1024 is far from `INT_MAX`).
For the last, the modules say what `NULL` may not be: a node or a value, the
state of a removal (`Removal`) or of a command under way (`Underway`), a text
over the characters that can be typed (`Typable`).

**The hash table** (`HTable_proofs`), for every set of keys, every pair of hash
functions, every heap and every bound on growth:

- `TypeCorrect`: `Spec => []TypeOK`.
- `CountNeverShort`: `Spec => []CountBound`; the buffers of `htable_hgetall`
  and `htable_hkeyvals`, sized by `used`, are not overrun.
- `ResizeNeverNests`: `Spec => []NeverNested`.
- `LoadIsLimited`: `Spec => []Headroom`.
- `NothingHidden`: `Spec => []Findable`.
- `OneOwner`: `Spec => []Ownership`.

The first four follow from one inductive invariant, `Core`, of three parts.
`TablesOK` are the types. `ResizeInv` says of a rehash under way which sizes it
may have and how much of the old table can still arrive. `CountInv` counts: the
items of the old table not yet moved and those in the new one are together at
most `used`, so that the insertions of a rehash stay below the limit of
`htable_resize_up`, and `used` stays an upper bound when a rehash drops items.
`NeverNested` alone is not inductive, since it depends on how many items are
still to come. `FindInv` adds that an item is found at its own slot in the old
table and in the new one, and that no key is both still to be moved and moved
already; without the last part a move could meet an item of its own key.
`OwnInv` says that the blocks of all items that count are allocated and
distinct, with those already moved no longer in the old table.

**It implements a map** (same module):

- `ImplementsLossyMap`: `Spec => IsLossyMap`, for all keys and hash functions.
  The table may refuse a key or lose it in a rehash, if it is in `Shaky` and for
  another key; nothing else is lost, no key comes back, answers for another, or
  changes its value unasked; `used` is the insertions less the deletions. That a
  key outside `Shaky` finds room is where coverage comes in
  (`CoveredUnlessStepZero`): the load limit leaves a slot that is not in use, and
  its probe sequence visits it. `FindInv` and `OwnInv` make the
  refinement mapping a function: `Reads` says, item by item, what it maps a
  key to.
- `ImplementsMap`, `NothingLeaks`, `EveryKeyListed`: `IsMap`, `NoLeak` and
  `EnumerationComplete` where `Shaky` is empty, that is where `sdbm` of no key is
  a multiple of a size the table can have. Then no insertion and no move fails
  and `used` is exact. TLC checks that for the keys of `htable_exact`; the runs
  `htable_acked` and `htable_enumeration` show what happens otherwise.

`Sizes` may be any set that holds the sizes a table can have
(`SizesAssumption`).

**Sets** (`OpenSet_proofs`), for all strings and hash functions: `TypeCorrect`,
`CountNeverShort` (`CountBound`), `ResizeNeverNests` (`NeverNested`),
`ResizeMerges` (`RehashMerges`) and `NothingHidden` (`Reachable`). The argument
is that of the hash table; the count is only an upper bound once a rehash has
merged copies, and `PathInv` says that no unused slot comes before a stored
string on its path, since copies of the string itself may. On these rests
`ImplementsBag`: `Spec => IsBag`, with nothing assumed of the strings. What a
table refuses is stored in it or in `Shaky`, so that a rehash drops a string
outside `Shaky` only where another copy has arrived. A new copy needs a
tombstone, and after a rehash there are neither copies nor tombstones: that is
what lets `Interpreter` say when the count of a `sadd` is exact.

**The server** (`Server_proofs`), for any number of clients, any backlog, any
lengths of replies and reads, and any clients that die or run out of input:

- `TypeCorrect`: `Spec => []TypeOK`.
- `NeverBothWait`: `Spec => []NoStandoff`. Inductive is `Awaited`, that every
  client that reads from an open connection, served or not, has its command or
  its answer under way. It needs `Queued`: a connection is held by one place at
  most, the backlog or the loop of `rediskw`, is open there, and is not reset
  while its client lives.
- `RunsInOrder`: `Spec => []InOrder`. `Ordered` adds that whatever is in the
  stream of a client comes after everything of it that ran, and nothing runs
  that was not sent. A read may leave the rest of a line in the stream, never of
  the line that it runs: the cells of one line are less than a read apart
  (`Spaced`).

- `KeepInStep`: `Spec => []Lockstep`, for each client whose replies fit a read
  (`Fits`), beside others whose replies do not, or who die. Inductive is `InStep`,
  the turns of one client: at its prompt nothing is on its way and all it sent has
  run; when it reads, exactly one of its command in the stream (`Asked`), the
  server about to write (`Answering`) and the whole answer in the stream
  (`Answered`) is the case. A read that took only a part of an answer would leave
  the rest for the next one; that is where `Fits` is needed.

**The list** (`LinkedList_proofs`), for every heap, all strings and all counts:

- `ListTypes`, `ListsAreLinked`, `ListsLeakNothing`, `RemovalsStandOnNodes`:
  `TypeOK`, `WellLinked`, `NoLeak` and `NoUseAfterFree`. `WellLinked` walks along
  `next` and counts, so it says little of what one step does to the pointers.
  Inductive is that there is a `Chain`: a one-to-one sequence of the allocated
  nodes, each linked to its neighbours in both directions. Each operation is one
  on chains (`LinkFirst`, `LinkFinal`, `Unlink`), and the walk of `list_hop` is
  shown to visit the chain in its order.
- `ListsAreSequences`: `Spec => IsSequence`. A step of `list_rem` maps to a
  stutter, its return to the removal. `Standing` says what a removal half way has
  done: of the places it began with, it has kept those that are not to go and all
  that it has not passed; the chain holds the strings of the kept places in their
  order, and what is left of `count` is what it has not removed. At the end these
  are the places that `Without` keeps, from either end of the list.
- `RemovalsEnd`: a turn of the loop leaves one node less `Ahead`, of at most
  `len`. This is the part of `RemReturns` that does not depend on fairness.

**The commands** (`Interpreter_proofs`), for all keys and data, any width of
int, any number of arguments:

- `InterpreterTypes`, `ContainersAreCounted`, `TypesAreStable`: `TypeOK`,
  `CountedContainers` and `TypeStable`. Every step leaves the keyspace alone or
  makes one `Legal` change to it, after which keys of `Shaky` may be missing: a
  key goes, or gets a value of the type it has whose count is above 0 and at
  least its items. The invariant (`IInv`) needs `RunOK`: the key of a command
  under way cannot have got another type in the middle of it, and its list has
  room for the rest of the arguments.
- `BatchesAreWhole`: `Spec => BatchEffect`. Inductive is `HalfDone`: after n
  arguments, keyspace and count are what the first n arguments mean for the
  keyspace the command began with (`SoFar`). For `hdel` and `srem` this includes
  that the key went when the count came to 0 and the other arguments found
  nothing. `Effect` says how far the faults of the tables may carry. The answer to
  `del` or `hdel` is short by keys of `Shaky` at most. `sadd` counts no less than
  the new members and is exact on a set without tombstones. `srem` takes a copy at
  least of each member it names, counts as many as the count of the set goes down,
  and counts no member twice if the set holds none twice. Outside `Shaky`, no
  member and no field is lost that was not named.

**The parser** (`Exchange_proofs`), for lines of any length over any
characters:

- `WordsArrive`, `NoArgumentIsMissing`, `ExchangeTypes`: `TokensAreTheWords`,
  `NoNullArgument` and `TypeOK`. A line has its `Spans` from the time it is
  typed: for each word, where it begins, where its text ends, where it ends
  itself, with blanks between. What is typed later leaves those of the earlier
  words as they are (`Lined`), since a word that could go on is followed by a
  blank. `At` says where a scan of the message is between these marks, and which
  part of a word it has read. `Progress` puts the scans together: `get_argc` has
  counted as many tokens as it has passed words, so that its count is one more
  than the arguments that the other scan has in front of it. `TokensAreTheWords`
  by itself speaks of the end of a parse only.
- `ParsesEnd`: a turn of a loop leaves less of what there is to do (`Left`), at
  most `6 * Len(string) + 5` turns in all. Again the part of `Returns` that does
  not depend on fairness.

**The replies** (same module), for texts of any length, ints of any width and
buffers of any size within `BufferAssumption`:

- `OnlyLongTexts`, `AnswersAreShown`, `OnlyTheLeastIntOverflows`:
  `OnlyLongTextsOverrun`, `AnswerShown` and `BuffersSuffice`. Inductive with the
  invariant of the parser is `Held`: an answer on its way has the text that its
  `reply_*` function prints (`Replied`). What follows from that is `ReplyKnown`,
  the length of the text and what is left of its buffer, and `Headed`, what the
  prompt finds when it takes the text apart at its first line end.
- `IntsReturn`: `parse_int` undoes `reply_integer`, and `strtoi` undoes `intostr`.
  `Decimal` and `Value` are recursive functions. That they satisfy their
  definitions (`DecimalIs`, `ValueRuns`) is proved by making them up from their
  beginnings, by induction on the set of numbers where that is possible
  (`Induction`); that what is printed is read back (`PrintedReads`), the wrap at
  the least int included, by induction on the digits.

`BuffersSuffice` holds for arrays in the form it has since the proof asked for
it: an element overflows if it reads as the least int, and `strtoi` wraps, so
that its text may be another numeral.

**Probe sequences** (`Probing_proofs`), for all sizes and hash functions:

- `PrimesCover`: in a table whose size `next_prime` returns, the probe sequence
  of a key visits every slot unless its step `sdbm % size` is 0. `is_prime`
  divides only up to the root, but a divisor beyond it has a cofactor below it
  (`PrimeHasNoDivisor`); a prime that divides no step below it divides no
  multiple `d * step` with `0 < d < size` (`NoEarlyReturn`), so no two attempts
  meet (`ProbesDiffer`), and as many attempts as slots visit them all.
- `CoveredUnlessStepZero`: in a table whose size is a prime, coverage
  (`Covers`) is exactly the absence of a step 0. A key with step 0 sees one slot
  only, and nothing in the code rules it out; these keys are the `Shaky` ones.

**Int arithmetic** (`Probing_proofs`): `HashFits`, that in a table with
`size * (size - 1)` at most `INT_MAX`, the int `hash_func` equals the unbounded
one and gives a slot of the table. With 32-bit ints that covers tables up to
25717 slots, the size that holds up to 18259 keys; the next size is 51437.

Only model-checked are the liveness properties `RemReturns`, `Served` and
`Returns`, which rest on fairness and are out of the prover's reach; `RemovalsEnd`
and `ParsesEnd` bound the loops behind two of them. Every invariant and every
refinement of a passing run is a theorem, those of `htable_exact` for tables
without keys of `Shaky`.

## Where the code departs from its tests and docs

`PROJECT.json` lists these as findings, each with the run that shows it:
acknowledged keys that are not stored and enumerations that come out empty
(`htable.c`), members added twice and present after their removal, sets that
count members when they are empty and so keep their keys (`set.c`), and the
server ended by a client that vanishes (`server.c`).

Modelled as they are, with no run of their own: `mget` checks the type of its
first key only; `decrby` of a missing key stores its operand unnegated; `set`
and `mset` answer OK for a key of another type that they leave alone; `incr`
wraps at the end of int; `incrby` and `decrby` of a missing key read a null
pointer if their operand is no number; a hash emptied after a rehash dropped a
field keeps its key like a set; `srem`
of a member that a set holds twice, named twice, counts 2, and `sadd` of a member
behind a tombstone counts 1; a client whose replies exceed 1024 bytes sees
answers late and may have a command skipped; after a quit the client prompts on
until SIGPIPE ends it; at the end of its input a prompt sends what `malloc` gave
it, for ever; a string that fits a line may not fit a reply, and overruns the
buffer of the client; the prompt shows nothing for an array or an empty reply;
`parse_err` leaves its text without a NUL; the least int has no digits for
`ndigits`, so that its buffers are too small; `is_number` takes the empty string
and a lone sign for numbers; either quote ends a string that the other began.

## Not modelled

- In `Interpreter`, text: numerals are integers there, so leading zeros and `-0`
  are not told apart from the number. Anywhere, the wording of replies and
  errors, and the order in which a table or set is listed.
- What a read does after it has filled its buffer without a NUL: `Exchange`
  stops there. Commands in `Server` are numbers, those in `Exchange` answer
  anything of their kind; no module joins sessions, text and data.
- Clients other than `hyperkv-cli`, which may send in fragments.
- Memory that `exec_*` functions, `parse` and `rediskw` leak, and running out of
  it.
- Logging (`log.c` is a third-party logger, and no lock is set in a program with
  one thread), command-line options, benchmarks.

## Plan

1. `Hashing`, `HTable`, `KVMap` with the proofs of types, counts, loads, probe
   sequences and paths, ownership and both refinements: done.
2. `OpenSet`: done, with the proofs of its invariants and of the refinement.
3. `LinkedList`, `Interpreter`: done, with the proofs of their invariants, of
   the sequence, of the end of `list_rem` and of `BatchEffect`.
4. `Server`: done, with the proofs of its invariants.
5. `Parser`, `Replies`, `Exchange`: done, with the proofs of their invariants, of
   the exact limits of lines and replies, and of the end of a parse.
6. `Interpreter` over lossy tables and bags, so that keys which stay with an
   empty set or hash, and counts that are off, are in the model: done, with the
   proofs of `CountedContainers` and `BatchEffect`.
7. Left: a refinement from a keyspace of `HTable` with nested `OpenSet`s and
   hashes down to the slots, which would tie rehashes of a nested table to those
   of the keyspace; errors compared beyond their prefix in `Exchange`.
