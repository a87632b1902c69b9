# A verification project for luamongo

luamongo binds the MongoDB C++ driver to Lua. A script runs on one thread; every
call enters a C++ handler that reads the Lua stack, calls the driver, and returns
results. What is hard here is not parallelism within the program but ownership,
order and failure that no test of the repository reaches:

- two memory managers own one object graph: Lua's collector decides when a native
  object is deleted, natives point to one another with raw pointers that the
  collector does not see;
- a result is read by several consumers through one cursor, in batches, with
  has-more questions answered before the document is taken;
- documents are converted by recursive functions that address tables by their
  position on the Lua stack, over graphs of tables that may be cyclic, and values
  change their type on the way;
- exceptions of the driver, Lua errors (which jump over C++ code) and early
  returns end a handler in the middle, over a connection that may break and be
  made again;
- a file in GridFS is many requests, between which other clients' requests come.

## Inventory

| Part (source) | State | Operations | Interacts with | What is hard | Correct when |
|---|---|---|---|---|---|
| Userdata of all classes (`mongo_connection.cpp`, `mongo_replicaset.cpp`, `mongo_query.cpp`, `mongo_cursor.cpp`, `mongo_gridfs.cpp`, `mongo_gridfile.cpp`, `mongo_gridfschunk.cpp`, `mongo_gridfilebuilder.cpp`) | one pointer in each box; raw pointers between natives | constructors, methods, `__gc` | Lua's collector, the driver's destructors | order of finalizers, incremental cycles, constructors that throw, `lua_close` | no pointer to a deleted native is followed; nothing leaks; nothing is deleted twice |
| Cursor (`mongo_cursor.cpp`) | the driver's current batch and position | `next`, `results`, `has_more`, `itcount` | every consumer that holds it, the server | batch boundaries, empty last batch, tailable cursors, shared cursors, exceptions | a loop that ends has left nothing; an announced document is delivered |
| BSON to Lua (`utils.cpp`, `mongo_bsontypes.cpp`) | the Lua stack, the tables being filled | `bson_to_lua`, `bson_to_table`, `bson_to_array`, `lua_push_value`, `push_bsontype_table` | cursor, `find_one`, GridFS, commands | stack positions, stack slots, types without a case | the table holds the document; no other table is touched; slots suffice |
| Lua to BSON (`utils.cpp`) | the registry table of visited tables, builders | `lua_to_bson`, `lua_append_bson` | every call that takes a table | cycles, shared tables, arrays, an exception in the recursion | it ends; what can be reached is embedded once; registry references are given back |
| BSON type tables and values (`mongo_bsontypes.cpp`, `utils.cpp`) | the table of each typed value | `mongo.Date` ..., their `__call`, `mongo.tonumber` | both conversions | widths, rounding, types with one form on one side only, names of keys | what is saved and loaded is the same, or as good as the types allow; neighbours are untouched; order is kept |
| DBClient calls (`mongo_dbclient.cpp`) | temporaries made with `new`, the Lua stack, the driver's connection | insert, update, remove, query, commands, indexes | conversions, driver, server | exceptions outside `try`, Lua errors past C++ code, partial batches, lost acknowledgements | a report agrees with what was executed; a failure is returned; nothing is left over |
| Connect (`mongo_connection.cpp`, `mongo_replicaset.cpp`) | the driver's failed flag | `connect`, auto-reconnect | server | reconnect between two writes | a broken connection leaves one write in doubt at most |
| Query builder (`mongo_query.cpp`) | one `Query` object | `where`, `sort`, `hint`, `explain`, ... | `query`, `find_one`, `remove`, `update` | conversions that throw | a modifier is there exactly when its call reported success |
| GridFS transfer (`mongo_gridfs.cpp`, `mongo_gridfile.cpp`, `mongo_gridfilebuilder.cpp`, `mongo_gridfschunk.cpp`) | chunks and file entries on the server; the builder's pending data; the local file | store, build, find, read, write, remove | other clients | reading, replacing and removing at the same time, requests that break in between | files come and go, and are read, as a whole; only failed calls leave chunks behind |
| Module loading (`main.cpp`) | the driver's global instance | `luaopen_mongo`, `mongo.sleep`, `mongo.time` | every state of the process | loading twice | one instance for the process |

`PROJECT.json` lists every part, the tests and the build files among them, with
what is modelled of it, and every hazard with the properties that watch it.

## Modules

| Module | Role |
|---|---|
| `NativeOrder` | abstract: natives are built over live pointees and destroyed after all that points to them |
| `Userdata`, `MCUserdata` | every class's constructors, methods and `__gc`; Lua's collector; `lua_close`. Implements `NativeOrder` for a careful script |
| `UserdataProofs` | its theorems |
| `ResultStream` | abstract: one sequence of documents, each goes to one consumer, in order |
| `Cursor`, `MCCursor` | `mongo_cursor.cpp` and the batches behind it. Implements `ResultStream` |
| `CursorProofs` | its theorems |
| `BsonToLua` | decoding over the Lua stack |
| `BsonToLuaProofs` | its theorems |
| `LuaToBson`, `MCLuaToBson` | encoding of graphs of tables |
| `LuaToBsonProofs` | its theorems |
| `Scalars` | single values: what `lua_append_bson` and `lua_push_value` make of each type, the casts, and the functions of the type tables |
| `RoundTrips`, `MCRoundTrips` | a table saved, loaded, changed and saved again, over `Scalars` |
| `RoundTripsProofs` | its theorems |
| `CallSteps` | what a handler is built from: arguments, conversions, requests, try blocks |
| `Handlers` | the steps of each registered method, in the order of the code |
| `Calls`, `MCCalls` | a script that calls methods over one connection. `Calls` knows of a handler only that it has steps; `MCCalls` brings the two together |
| `CallsProofs` | theorems of `Calls`, for any handlers of the shape it assumes |
| `HandlersProofs` | theorems of `MCCalls`, for the handlers of luamongo |
| `FileStore` | abstract: files that are published, found, given and withdrawn as a whole |
| `GridFS`, `MCGridFS` | uploads, removals and reads request by request. Implements `FileStore` |
| `GridFSProofs` | its theorems |

### Userdata

A box is a number, given in creation order. `native[o]` is what the pointer in box
`o` points to: nothing, an object, or a deleted object. `parent[o]` is the raw
pointer the native itself keeps: `cursor_create`, `enumerate_indexes`,
`gridfs_list` and `gridfs_new` make a native that points to the client,
`gridfile_create` and `gridfilebuilder_new` one that points to the GridFS.
`tagged` are the boxes that have their metatable, which is what makes the
collector call `__gc`. There is one action per constructor, with the failing path
in which the box was allocated and the native was not (`Abandoned`), and one per
group of methods that dereference the same natives: `DBClientCall`,
`GridFSTransfer`, `GridFileChunk`, `CursorAdvance`, `LocalUse`. `Chain` is what a
call follows; it is at most three long because GridFile -> GridFS -> client is the
longest chain there is. `Gc` is a finalizer, with what the destructor itself
follows (`DestructorReach`: a cursor's destructor tells the server, through the
client). `Mark`, `Separate` and `FirstPending` are Lua's collector: boxes marked
earlier in a cycle survive it although they were dropped since, and finalizers of
one cycle run newest first.

The constant `Scripts` is a set of scripts, of which a behaviour has one
(`script`). `discipline` is what it promises: nothing ("none"); to let go of an
object before what it was made from ("ordered"); to keep what an object was made
from until the object is finalized ("kept"). `incremental` says whether collection
cycles are spread over its steps, as they are by default. The binding itself keeps
no reference from box to box, so some promise is necessary. `Safe` says which is
enough: "kept", or "ordered" with cycles that are not spread. That "ordered" is not
enough under Lua's default collector is what `userdata_incremental` shows.

### Cursor

`pos` counts the documents taken, `fetched` those in the batches received,
`produced` those in the server's result; `live` says whether the driver still has
a cursor id. `More` is the driver's `more()`, which asks for the next batch when
the current one is used up. Handlers are single steps since Lua runs one at a
time; consumers interleave between them. `promise` and `surprised` record what
`has_more()` announced and whether the next `next()` of that consumer kept to it.
`blank` documents have no field: `bson_to_lua` makes nil of them, which a `for`
loop takes for the end. No handler has a `try` block, so a failing getMore ends
the process (`UncaughtException`).

### BsonToLua

`stack` is the handler's Lua stack, `calls` the C++ calls of `bson_to_table` and
`bson_to_array` in progress with their locals. `RawSet` and `RawSetI` take the
table, key and value from where the code does: counted from the top. The document
is chosen as it is read. `doc` is what the tables should hold by the
elements read; `tab` is what they do hold. `room` and `overrun` count the slots
`lua_checkstack` was asked for and those used beyond.

### LuaToBson

`heap` gives each table its entries in `lua_next`'s order. `frames` are the loops
in progress, `visited` the registry table of the call, `image` what each builder
was given. The builder of a table met on the way is named by that table; the
table that was passed has the builder `Result` and is not marked, as in the code,
so it may be embedded in itself once. Entries are taken one at a time: an action
is one turn of a loop.

Number keys are counted in halves, since the scan for an array compares
`lua_tointeger(key)` (`Dense`): a nested `{[1.5] = t}` passes for an array, the loop
over it reads `lua_rawgeti(1)` (`Item`), and `t` is lost with all that it leads to;
null is stored in its place. `ToInteger` cuts the fraction off, as a build with
doubles in SSE registers does. Other keys are told apart by identity here; that two
of them may be written alike is in `RoundTrips`.

### Scalars and RoundTrips

Where the two modules above tell values apart by identity, these look at the
values. A Lua number is a double; numbers are counted in halves, so that there are
some which are not whole. The widths of the integers, the set of doubles and the
functions that round to one and that write one in six or fourteen digits are
constants. A text is what it reads as up to the first zero byte and what is behind
it, since `c_str()` stops there (`Cut`). `Encode` is `lua_append_bson` for one
value and `Decode` is `lua_push_value` for one element, case by case: a Timestamp
is stored empty and loaded as a Date, a NumberLong is loaded as a number, a box
that holds what is no text is left out. A cast of a number that does not fit has
any outcome in `Junk`.

`table` is the script's table, `stored` the document on the server as a sequence of
fields, `side` who has the last word. `Save` is the loop of `lua_to_bson` in any
order of `lua_next`, with the scan that decides between array and object
(`Dense`); `Load` is `bson_to_table` or `bson_to_array`. Between them the script
assigns an entry (`Assign`), calls a box (`Call`) or makes a number of it
(`MakeNumber`). The document may also be one that another client wrote.

### CallSteps, Handlers and Calls

A handler is a sequence of steps. A step says where each case of what it meets
leads: on (`goes`), on with a BSONObj made by `new` (`makes`), to a returned failure,
to a Lua error (`lua`), or to an exception, of which the try block around the step
(`try`) makes nil or false and a message, or which escapes. Arguments are looked at
one after the other, each of any kind (`Kinds`); the chains of `lua_type` tests in
the code are functions over the kinds (`Document`, `DocumentOrQuery`,
`HeapDocument`, `Lenient`, `Optional`). `Handlers` writes down each method in this
form, in the order of its code. A method of the cursor (`CursorMethods`) is there
twice: as it is when the driver must ask for another batch, which may throw and is
in no try block, and, for all of them, with a document at hand (`CursorAtHand`).

`Calls` runs any handler: `Begin` is the script's call, `TakeArgument`,
`TakeElements`, `ReadsServer`, `WritesServer`, `Connects`, `ComputesLocally`,
`ModifiesQuery`, `PushesResult` and `FreesTemporaries` are the kinds of step,
`Returns` is the `return`. `temps` and `refs` are what was made with `new` and taken
from the registry and not given back. `LuaError` leaves them, since a longjmp runs
no destructor and no `delete`; `Fails` frees the temporaries where the code does.
The connection has the driver's `failed` flag: a call that breaks sets it, and the
next one fails at once, or makes the connection again if `auto` is on. A write that
broke was executed or not; a batch was executed up to some document. The histories
`count`, `success`, `failure`, `garbled`, `doubts` and `cuts` keep the accounts that
the properties compare. `refusal` is the position and kind of the argument that
ended a call, whichever way: an error that is returned, an exception or a Lua error.

### GridFS

Every handler is one driver call, but that call is many requests: `InsertChunk` and
`InsertEntry` for an upload, `RemoveEntry` and `RemoveChunks` for each file that
`remove_file` met, `ReadChunk` for each chunk of `write` and `data`. `entry`, `num`
and `chunks` are `fs.files` and `fs.chunks`. A client is in one call (`op`), and
other clients' requests come between its own. Each request may break (`Breaks`): it
was executed or not, and the handler's catch clause returns the failure
(`UploadFails`, `RemoveFails`, `ReadFails`). `box` is the client's GridFile, a copy of
an entry; `out` is the local file or the stream; a builder keeps back what does not
fill a chunk (`AppendReturns` may come at any time) and is given up by `BuilderGc`.
`published`, `abandoned` and `found` are histories. `text`, `visible`, `held` and
`given` of `FileStore` are the contents of published files, the files with an entry,
the boxes, and what a read returned. Which requests a call makes, and in which order, is
the driver's doing and not the binding's: the mutants `InsertEntryEarly`,
`RemoveEntryOnly`, `ReadChunkOfName` and `RemoveChunksAgain`, like `ReachesOverBroken`
of `Calls`, show what the binding relies on the driver for. What the binding adds,
reporting a failure and holding a copy of the entry, has mutants of its own.

### How the modules fit together

Each module looks at the same calls from one side: `Calls` at the control of a
handler, `LuaToBson`, `BsonToLua` and `Scalars` at the conversions it makes,
`Cursor` and `GridFS` at the requests behind it, `Userdata` at the natives it
follows. What one assumes of the others is small and stated: a conversion in
`Calls` succeeds, throws an assertion with a registry reference left (`badref`), or
refuses its argument, which are the ways a call of `LuaToBson` ends; a cursor in
`Calls` is opened by one request, and is then what `Cursor` starts with.
`RoundTrips` is the composition of both conversions over whole tables, `MCCalls`
that of the control with the handlers.

## What the runs check

| Run | Question | Answer |
|---|---|---|
| `userdata` | three scripts: one without a promise, and the two that are `Safe` | the safe ones never follow a dangling pointer and implement `NativeOrder`; whatever the script does, finalizers and natives match, a pointee goes first only if an earlier cycle found it |
| `userdata_incremental` | the order that should help, under the default collector | violated: a marked cursor outlives the client, which the FIXME of `mongo_gridfs.cpp:7` fears |
| `cursor_shared` | two consumers with all loops | loops that end have left nothing (blank documents aside); implements `ResultStream`; every loop ends, or the process does |
| `cursor_blank` | the loop of README.md:86-90 | violated: it ends at an empty document |
| `bson_to_lua` | nested documents | exact for the types with an exact case; the slots suffice always |
| `bson_to_lua_code` | README.md:109-110, "fully marshalled" | violated: a type without a case shifts the stack |
| `lua_to_bson` | graphs of tables, two calls | ends, embeds what can be reached once, loses only repeated references |
| `round_trips` | tables saved, loaded, changed and saved again | what survives: proper values, the second trip, the neighbours of what was changed, the order of numbers and dates |
| `calls` | any three calls of any methods with any arguments, over a connection that breaks | reports agree with executions; a connection leaves one write in doubt; leaks, escapes and foreign results are those that are named |
| `calls_escape` | what the comments of 18 handlers say of a failure: it is the second value | violated: `enumerate_indexes` and others call the driver outside of every `try` |
| `calls_omitted` | the brackets in the comments above the handlers: such an argument may be left out | violated by `create_index`: called without options (`mongo_dbclient.cpp:67`) it returns false and an error (98) |
| `gridfs` | two clients upload, replace, remove and read files of one name, with a request that breaks | files come and go, and are read, as a whole; only failed calls leave chunks; every call returns |

Properties, in the words of the code:

- `SafeScriptNoDanglingUse`, `NativesInOrder`: no handler or destructor follows a
  pointer to a deleted native, if the script is `Safe`. `NoDanglingUse` is the
  same without the condition, and fails.
- `DanglingNeedsEarlierCycle`: what the collector itself assures, for any script.
- `FinalizersMatch`: constructors that fail half-way, and the end of the state.
- `ForLoopSeesAllNonEmpty`, `WhileLoopSeesAll`: a loop that came to its end left
  nothing, across batch boundaries and other consumers.
- `AnnouncedDocument`: after `has_more()` was true, nil from `next()` means an empty
  document or another consumer.
- `ImplementsResultStream`: batches cannot be observed.
- `LoopsEnd`: liveness of loops.
- `HandledMarshalled`, `StackRoom`, `FullyMarshalled`: decoding.
- `DepthBounded`, `EmbeddedOnce`, `ReachableEmbedded`, `OnlyFractionsLost`,
  `RefsReleased`: encoding. `ReachableEmbedded` says that the embedded tables are
  exactly those the passed table leads to, by comparing with every closed set.
  Both except, and name, what an array has under a key with a fraction (`Lost`):
  those entries are null in the document, and all others are there.
- `ValuesSurvive`: a `Proper` value comes back, in a list under its place and else
  under the text of its key. In a list what a fraction is the key of is lost, and
  where several keys are written as one text one of their values is there. What is
  not proper is what the code changes: a string with a zero byte, a Timestamp,
  integers outside of their type, boxes that hold the wrong type.
- `Settled`: what was loaded, saved and loaded again is the same: the losses of the
  first trip do not go on.
- `Untouched`: a script that changes one entry of another client's document leaves
  the other fields as they were, type and all, if the type is `Exact`.
- `OrderKept`: loading keeps the order of numbers and dates, although they are
  rounded, and of timestamps of one second. A timestamp becomes a date of its seconds
  plus its increment, so between two seconds the order may be lost: `(1, 100)` comes
  after `(2, 0)` (`utils.cpp:79`, listed as a hazard that no property can exclude).
- `ReportsMatchExecutions`, `OneDoubtPerConnection`: what a script may conclude from
  what it is told. The exception they name is `insert_batch` with an argument too
  many, which stores that argument and reports success (`garbled`).
- `KnownLeaks`, `KnownEscapes`, `OwnResults`: among the 64 courses of the handlers,
  only those named lose a temporary, let an exception out, or return what is not
  theirs. A new handler with one of these faults breaks the property. `KnownLeaks`
  is about what was made with `new`; registry references are in `RefsReleased`.
  The cursor's `next`, `results`, `has_more` and `itcount` are among `Unprotected`.
- `BracketsAreOptional`: no call is refused, by a returned error, an exception or a
  Lua error, because an argument that the handler's comment puts in brackets was
  left out or nil. `create_index` breaks it, and `OmittedArguments` says that
  nothing else does.
- `VisibleComplete`, `OrphansExplained`: entries and chunks on the server.
- `ReportsHold`: a reported upload can be found until its name is removed, and a
  reported removal has left nothing that it met.
- `LocalFileIsPrefix`, `FilesComeWhole`: what a reader gets, also when the file is
  replaced or removed under it.
- `CallsReturn`: liveness of transfers.

### Bounds

- `MaxObjects` 3: the longest chain of pointers is three natives, so three boxes
  hold a whole chain. All class combinations and all interleavings with marks and
  cycles occur.
- `NumDocs` 2 with `BatchSize` 2: a batch may have fewer documents, so there is a
  batch boundary inside the result and one at its end, and empty batches where the
  server may send them. Two consumers: one can take what the other was promised.
- `MaxTables` 3, `MaxElements` 4: a table in a table in a table with a
  scalar beside them. `MinStack` is 4 instead of Lua's 20, which moves the depth at
  which slots run out to where a small document reaches it.
- Three Lua tables of at most two entries, two calls: sharing, self-reference,
  cycles with and without the passed table, keys without text, and marks or
  references left over from the call before.
- `IntMax` 3, `LongMax` 15, doubles of three significant bits up to 64, in halves:
  integers of the shorter type are doubles, the largest of the longer are not and
  are rounded out of its range, as with 32, 64 and 53 bits. `MaxEntries` 2 and one
  change after a load: two keys of one name, an array with a hole, a neighbour of
  what was changed; a second change would meet nothing that the first does not.
- `MaxCalls` 3 and two writes: a failure, its retry and one more, and batches of two
  that are cut in the middle; `calls_escape` and `calls_omitted` need one call. Each argument has every
  kind.
- `MaxFiles` 2, `MaxChunks` 2, `MaxFaults` 1, two clients and one name: a file
  that replaces another while it is read, two removals of the same file, a builder
  beside a `store_data`, a request that breaks anywhere. `Roles` lets one client use
  a builder and the other read, which exchanging the clients makes no different.

`Junk` in `round_trips` and `Parts` and `Texts` in `gridfs` are samples of what a
conversion out of range may give and of what files contain; the theorems are for any.

### Fairness

A consumer that began a loop goes on with it (`FairSpec`
of `Cursor`): the loop is straight Lua code between two handler calls. A request of
GridFS is answered or fails: after the connection's `rw_timeout`
(`mongo_connection.cpp:34`), or, if the script gave none, when the network reports
it; a network that is silent for ever is excluded. The handler goes on by itself (`FairSpec` of
`GridFS`, weak fairness of `Continue` for each client); nothing makes a script begin
a call. `AppendReturns` is always enabled in `append`, but it is a disjunct of
`Continue` like the others: the number of chunks is what bounds the loop.

## What is proved

TLAPS proves, for every value of the constants:

- `UserdataProofs`: types; `FinalizersMatch`; `ReceiverAlive` (what a script can
  still reach is alive); `DanglingNeedsEarlierCycle`; `SafeScriptNoDanglingUse`; and
  that `Userdata` implements `NativeOrder` for a `Safe` script. Every step is
  first brought to one of a few shapes (`StepShape`), so that the invariants are
  shown once per shape and not once per constructor. `Lifetimes` holds for any
  script: boxes have a metatable exactly when their native was constructed, a
  pointer leads to an older box that was constructed, what the script reaches is
  alive and was not found by any cycle, only what a cycle found is deleted, and
  `lua_close` finds everything. It gives all but the last two theorems. `Careful`
  adds, for a safe script, that the pointee of a live native is alive and found no
  earlier than the native itself (`PointeeOutlives`). That is not inductive alone:
  a cycle could find the pointee of a box that is black. `PointeeHeld` excludes
  it: under "kept" the pointee of every live native is held, under "ordered" that
  of every reachable one, and there nothing stays marked between steps (`NoMarks`).
- `CursorProofs`: types; both loop properties; `AnnouncedDocument`; and that
  `Cursor` implements `ResultStream`. The properties need that a cursor the server
  has dropped has been fetched to its end (`Drained`), that exactly the documents
  up to the position have an owner (`Owned`), and that a document which was
  announced is in the batch, and taken by another if it was passed (`PromiseKept`).
  `LoopsComeNearer`: a loop over a result that is not tailable has three steps at
  most for each document ahead of the cursor and two for its end (`LoopBudget`); every
  step of the loop lowers that, and no other consumer raises it.
- `BsonToLuaProofs`: types; `StackRoom`; `HandledMarshalled`, for documents of any
  size and depth. The invariant describes the stack as the calls see it: the
  table of each call lies where the call put it, above it the key it is about to
  store under, and nothing else until the next call's table (`Shape`). It holds, and
  the tables hold what the document does, as long as all elements were exact
  (`Aligned`). The slots need no such condition (`Room`): a call leaves at least one
  slot of those it asked for, and an unhandled type only makes the stack lower.
- `LuaToBsonProofs`: types; `DepthBounded`; `RefsReleased`, for any finite set of
  tables. The invariant `FInv` says that loops other than the first belong to
  distinct marked tables and that a loop is past the entry which leads to the
  next (`Frames`, `Pending`). Over it: `EmbeddedOnce`, since an embedded table is
  marked and its only loop is over (`EmbeddedAreFinished`); `ReachableEmbedded`,
  since a marked table whose loop is over has been embedded and leads to marked
  tables only (`FinishedEmbedded`, `FinishedClosed`, from what loops in progress have
  dealt with, `Dealt`), and every closed set around the passed table holds all marked
  tables (`OnlyReachable`); `OnlyFractionsLost`, since a builder is given only what it
  should be (`Faithful`) and all scalars and nulls its loop is past
  (`LeavesGiven`), and the tables it lacks are embedded by the theorem before.
  What a loop reads (`Item`) is tied to the keys of its table by `ArrayItem`: in an
  array, entry i is found if its key is i, and nothing is found if it is i and a
  half. `ConversionsEnd`: the
  entries still to be dealt with, of loops in progress and of tables not yet marked,
  count twice and a loop once (`Budget`), and every step of a conversion lowers the
  sum. So it ends on any finite graph of tables, whatever cycles they form.
- `RoundTripsProofs`: types, and all four properties of `RoundTrips`, for integers of
  any width, any doubles with every whole number of the shorter integers among them,
  any monotone rounding that keeps whole numbers whole, and any way to write
  numbers. First single values (what `Decode` makes of `Encode` and the reverse),
  then documents as sequences of fields, then the specification. The invariant
  keeps what the histories are for: a document that is the script's own is what its
  table was stored as in some order of `lua_next` (`Faithful`), a loaded table is what
  its document gives (`Decoded`), and of a changed one the fields that were not
  assigned (`Remembered`).
- `CallsProofs`: types, `ReportsMatchExecutions`, `OneDoubtPerConnection`, and that a
  call which returned its result has freed its temporaries and holds no registry
  reference (`SuccessLeavesNothing`). They hold for any set of handlers of the shape
  that `ShapeAssumption` states: one step at most changes anything, behind it nothing
  fails, and what is made with `new` is freed further on. TLC evaluates that
  assumption for the handlers of luamongo. The invariant follows the call in
  progress: before its changing step it has executed nothing (`Progress`), what it
  executed and has not yet reported is one share of each account (`Part`,
  `Accounts`), and temporaries are there only before a step that frees them (`Held`).
- `HandlersProofs`: `KnownEscapes`, `KnownLeaks`, `OwnResults` and
  `OmittedArguments`, for any number of calls and any writes, with the handlers of
  `Handlers` (`LuamongoAssumption`, which TLC evaluates in `calls`). First, for any
  handlers: what a call ended with, lost, returned and refused is traced to a step
  of its handler (`Traced`: `Ended`, `Making`, `Pushing`, `Stale`, `Refused`). So
  only steps remain to be looked at. They are sorted into sets by where they may
  lead (`StepsTo`, `Caught`, `Plain`, `Sure`, `Lax`), one lemma for each group
  of handlers says in which sets all their steps are, and the tables of methods
  put the groups together.
- `GridFSProofs`: types, all four invariants of `GridFS` but liveness, both parts of
  `ReportsHold`, and that `GridFS` implements `FileStore`, for any number of
  clients, names, files, chunks and broken requests and for scripts that do
  anything (`Roles`). There is one lemma for each way a handler or request may go.
  The invariant says whose file is whose: an id not given out is blank (`Fresh`); a
  file is uploaded by one client at most, which has neither failed nor published it
  (`Owned`); its chunks on the server are the first `stored` of its content unless
  somebody failed at it (`Sent`); an entry is there only after all of them
  (`Complete`); a removal takes entries before their chunks (`Removing`); and a
  reader's copy and output are those of a published file (`BoxKnown`, `Reading`).
  `CallsComeNearer`: the requests a call has still to make are a natural number
  (`Counted`), every request of the call lowers it, and no other client raises it.

The proofs assume what the modules assume of their constants (`ASSUME` in each)
and nothing else.

Only model-checked: `LoopsEnd` and `CallsReturn`, since liveness is out of the
prover's reach. The half of each that needs no fairness is proved, for every value
of the constants: `LoopsComeNearer` and `GridFSProofs!CallsComeNearer` say that every
step brings the end nearer by a measure that cannot fall for ever. What stays with TLC is that such a step remains possible
(`ENABLED`) and that fairness takes it. No run has a liveness property of a
conversion or of a handler alone: their steps follow each other in one thread.
`ConversionsEnd` bounds those of a conversion, and a handler is a finite sequence of
steps that is gone through once.

## What is not modelled, and why

- What `eval`, `run_command` and `mapreduce` do on the server: any command can do
  anything. Their arguments, exceptions and results are in `Calls`.
- How values look: `__tostring`, `mongo.type`, `mongo.tonumber` of a base other than
  ten, and the text of `mongo.tojson` and `mongo.fromjson` (as handlers they are in
  `Calls`).
- Integers of Lua 5.3 as a type of their own: the models have the doubles of 5.1
  and 5.2, which the code goes through in every version.
- The builder after a call on it failed: what the driver keeps of it cannot be seen
  from here.
- The receiver checks (`luaL_checkudata`, `userdata_to_dbclient`): a wrong receiver is
  a Lua error before any state changes.
- Errors of the local disk: `write` of a GridFile leaves the local file to the
  driver (`mongo_gridfile.cpp:176`), and the binding reports what that throws and
  looks at nothing else. In `GridFS` only the requests to the server fail.
- Out of memory, and Lua errors raised by Lua itself inside a `try` block.
- The driver and the server, except as the environment of the models.
- `main.cpp`: `luaopen_mongo` runs once in a process with one Lua state; that a second
  state loses the first global instance takes an embedding program, and is listed
  as a hazard. `mongo.time` reads a clock. `mongo.sleep` scales the fraction of a
  second by 1e6 into a field of nanoseconds, so that fractions are a thousandth of
  what was asked for; there is no state that this reaches.
- The compatibility macros, the tests, the build.

## Plan

Done, in this order: the lifetime of userdata; the cursor; both conversions; the
control of every handler over a connection that breaks; values and their round
trips; GridFS between several clients; the invariants and action properties of all
of them proved, with the handlers of luamongo in place of arbitrary ones, and the
three refinements; that everything which should end comes nearer to its end.

What is left is small, and none of it state of its own: Lua 5.3's integers as a
second number type in `Scalars`; a builder that is used again after a failure,
once the driver's version pins down what it keeps; and the handlers' shared
`Query` object, whose modifiers `Calls` counts but does not tell apart.
