# Verification of jsfw

jsfw forwards evdev devices over TCP.  A server finds the devices of its
configuration under `/sys/class/input` and hands them to the slots that clients
request; a client creates a virtual device per slot and replays the reports.
Both sides read JSON configurations; their messages are C code that a schema
compiler, `ser/`, generates from `net.ser`.  This directory has TLA+ models of the
server, the client, the wire format, JSON and the compiler, the TLC configurations
that check them, and TLAPS proofs about the pool, the server, the client, the way of an
event, the JSON parser, and the compiler's hash map, lexer and order of definitions.

## Inventory

| Part | State | Operations | Interacts with |
|---|---|---|---|
| Device pool (`hid.c`) | `known_devices`, `available_devices`, `cloneable_devices`, two mutexes, one condition variable | `poll_devices` (hid thread), `get_device`, `return_device`, `forget_device`, `apply_controller_state` | kernel (devices come and go at any time), device threads, connection threads |
| Server (`server.c`) | per connection: socket, `closed`, `got_request`, vectors of threads and of controller pointers; per slot: `DeviceThreadArgs`; per process: the handler of SIGTERM | accept, poll/recv loop, request, controller state, `conn_end`; `device_thread`; `device_thread_exit` as function and as signal handler | pool, clients over TCP, threads among themselves by `pthread_kill` and `pthread_join` |
| Client (`client.c`) | a uinput descriptor and the last info per slot, socket, fifo | info, report, destroy, fifo message, reconnection | server, kernel |
| Wire format (`net.c`, generated from `net.ser`) | none | serialize, deserialize, free for five messages | both sides |
| JSON (`json.c`) | parser state, output buffer | `json_parse`, `json_adapt` | configurations and fifo |
| `vec.c`, `util.c`, `const.c`, `main.c` | vectors | push, remove, insert, extend; conversions; start-up | everything |
| `ser/` | hash map, arena, tokens, syntax tree, resolved definitions | lexer, parser, evaluation, layout, code generation | produces `net.c` and `net.h` |

What is hard here is the concurrency of the server.  A hid thread, one thread per
connection and one per requested slot share the pool under two mutexes taken at
different moments; the kernel reuses `eventN` numbers; a connection ends its
slots' threads with SIGTERM, whose handler runs wherever they are.  The client
is single threaded, and what is hard about it is the message stream and
reconnection.  The compiler in `ser/` is sequential: the hazards there are cycles,
layouts and a hash map with removal.

What makes each part correct:

* pool: a device that is not cloneable is with one thread or in the queue, never
  both; no known device is lost; no wake-up is lost; descriptors are closed
  exactly when their controller goes; a waiting client is served;
* server: device threads keep the contract of the pool however connections end;
  memory of a connection outlives its threads; the messages about a slot come in
  an order a client can follow; connections end;
* client: the virtual device of a slot is the one last announced; nothing
  survives a reconnection; the stream stays in step;
* wire format: deserialize inverts serialize, both within the buffer;
* JSON: the output is well formed, within the buffer, and adapters find what was
  parsed;
* ser: every cycle is found, layouts respect alignment and size, the hash map
  behaves as a map.

`PROJECT.json` lists the hazards one by one, at their lines, with the properties
that cover them.

## Modules

| Module | What it is | Source |
|---|---|---|
| `HidPool` | the pool, under callers that keep its contract | `hid.c` |
| `DeviceAlloc` | what the pool promises: an allocator of devices | |
| `HidPoolProofs` | theorems about `HidPool`, which implements `DeviceAlloc` | |
| `Server` | connection threads, device threads and SIGTERM, on top of `HidPool` | `server.c` |
| `ServerProofs` | theorems about `Server`, on top of those about the pool | |
| `Client` | the client's loop, its virtual devices, its fifo and its connection | `client.c` |
| `ClientProofs` | theorems about `Client` | |
| `Forward` | an input event on its way from the kernel to the virtual device | `hid.c`, `server.c`, `client.c` |
| `ForwardProofs` | theorems about `Forward` | |
| `Layout` | how a type is laid out in a message | `ser/eval.c`, `ser/codegen.h` |
| `CodegenC`, `CodegenPython` | what the generated C and Python code does | `ser/codegen_c.c`, `ser/codegen_python.c` |
| `Net` | the checked-in `net.c`, and the types of `net.ser` | `net.c`, `net.ser` |
| `Codec` | a message that is written, sent, read and freed; composes the five above | `client.c`, `server.c` |
| `JsonParse` | the parser, a step per piece of the text | `json.c` |
| `JsonProofs` | theorems about `JsonParse` | |
| `Json`, `Config` | `json_adapt`; a text that is parsed and adapted, with the adapters of client and server | `json.c`, `util.c`, `client.c`, `server.c` |
| `Hashmap` | the hash map of the compiler | `ser/hashmap.c` |
| `KeyedMap` | what a hash map promises: a map | |
| `HashmapProofs` | theorems about `Hashmap`, which implements `KeyedMap` | |
| `SetLemmas` | least and greatest elements, for the proofs | |
| `Lexer` | the lexer, a step per lexeme | `ser/lexer.c` |
| `Parser`, `Eval` | the parser and the stages of the evaluation, as operators | `ser/parser.c`, `ser/eval.c` |
| `Define` | the order of definitions, a step per pass of `define_structs` | `ser/codegen.c` |
| `SerProofs` | theorems about `Lexer` and `Define` | |
| `Ser` | the compiler: the stages in their order | `ser/main.c`, `ser/codegen.c` |
| `MC...` | instances for TLC | |

`Layout`, `CodegenC`, `CodegenPython`, `Net`, `Json`, `Config`, `Parser`, `Eval` and `Ser` use
RECURSIVE operators, because the code recurses over types and trees; they are for
TLC only.  Where the recursion or the loop of the code can be taken apart into steps it
is (`JsonParse`, `Lexer`, `Define`), so that it can be proved about.  A definition named like another one with an ending (`Taken`, `TakenAll`)
and marked "Bug:" is a plausible mistake: put in the place of the other it makes TLC
report the property `PROJECT.json` lists with it under "mutants".

### HidPool

`plugged` is the kernel's view: which device is behind each entry.  A device has a
number `gen` that is new with every plug, while the entry, which is the `id` the
code uses, is used again.  `known`, `available`, `cloneable`, `devices_mutex` and
`known_mutex` are the variables of `hid.c`; `open` is the set of `gen`s whose
descriptors are open and whose name is allocated.  `pc`, `ctr`, `ref_index` and
`stop` belong to the device threads, `hid` to the hid thread.

There is one action per stretch of code between two points where another thread
can see a difference: a lock, an unlock, a blocking call, or a change of shared
state.  `poll_devices` is `PollStart`, `PollOpen`, `PollFilter`, `PollCheckKnown`,
`PollHidraw`, `PollPushKnown`, `PollPublish` and `PollEnd`; the label `skip` is the
operator `Skip`.  `get_device` is `GetLock`, `GetScan`, `GetUnlock` and `GetSpurious`,
`return_device` is `ReturnLock` and `ReturnPush`, `forget_device` is `ForgetLock`,
`ForgetClose` and `ForgetRemove`.  `forget_device` touches `cloneable_devices` under
the other mutex; as the access itself is a wild read, nothing is lost by not
splitting it.

Which filter accepts a device is data: a plugged device carries the index of the
first matching entry of the configuration (0 for none).  `filter_event` on a device
that has vanished reads uninitialised ids, so its answer is nondeterministic, and
with `js` it calls `readdir(NULL)`, unless another device is behind the entry by then.  Undefined behaviour that ends the process is
recorded in `fault`.  `dev.name` of a device that vanished before `EVIOCGNAME` is
not assigned (`named`).  Devices that are there have a name.

The caller actions (`CallGet`, `CallForget`, `CallReturn`, `Abandon`, `Close`, `Reopen`)
are the contract: get a device, then return it or, when it is gone, forget it.

### Server

`Server` extends `HidPool` with `at`, the position of a device thread in `server.c`
(`pc` stays its position in the pool's functions), `slot` (`*args->controller`),
`sig`, `relock`, `handler`, `wire` (the device announced to the client for the slot),
and for connections `conn`, `got`, `sock`, `inbox`, `ids`.  `clean` is a history
variable: it becomes false when SIGTERM ends a thread inside a call of the pool, or
when `device_thread_exit` returns a controller that was already forgotten or
returned.

`Signal` is the delivery of SIGTERM.  It may come at any point of a thread that has
one pending.  `device_thread_exit` does not return, so what the thread was doing
ends there, with its mutexes held.  A thread interrupted in `pthread_cond_wait`
runs that call's cleanup when it calls `pthread_exit`; with glibc this locks the mutex again
(`relock`, `Unwind`).  A thread may run `device_thread_exit` on its own and be
interrupted by the handler; a handler is not interrupted by the same signal.

`ConnRecv` takes at least one message off the socket and possibly more, and handles
the first only, as the code does; a message that arrives in pieces is lost.  A
write to a socket whose client is gone may succeed or fail; after `shutdown` it
fails.  Reading events and sending reports changes no state that is modelled.

`ServerNext` reuses the pool's actions (`InPool`) and replaces its caller actions by
the steps of `device_thread`.

### Client and Forward

The client is one thread: `pc` is where it is in its loop (`poll`, `fifo`, `socket`,
`discard`, `connect`, `request`).  A message is two pieces, so that it can arrive in
part: `Peeked` is what `recv(MSG_PEEK)` shows, `Taken` what is then taken off, and
`Discard` the second `recv` after a message that did not parse, which may take bytes
that came in between.  `lost` is a history variable: something was thrown away on this
connection.  `device` has the virtual device of each slot, with the connection and the
number of the physical device it stands for; `announced` is what the server says.
A `send` to a closed connection returns or ends the client by SIGPIPE.  The server is
any program that announces a device before it reports on it and takes it back before
the next one, which is `Announced` of `Server`.
A request that does not fit the buffer of 2048 bytes is never sent (`RequestFits`).

`Forward` follows one slot in detail: `setup_device` numbers the codes of a device,
the device thread stores events in a report and sends it at EV_SYN, the client maps
the numbers back.  A code's number is the count of codes up to it, as the counters of
`setup_device` give it, which stop short of the last code there is (`KeyMax`, `Looked`).
The kernel's queue overflows at `Buffer` events.

A device lives longer than its use by a thread: it is in the pool with the events it
makes there, a thread gets it (`Acquire`, the next `gen`) with an empty report, and a
killed thread returns it with events unread and keys held down (`Return`).  The next
thread does not know of those until they move again.  `heard` has the codes read in this
use, `frames` the states of the device at the ends of packets as far as those codes
show them, `dropped` the uses in which the kernel dropped events.  An event without an
index is written outside of the report (`WriteOutside`), and the model ends there.

### Layout, CodegenC, CodegenPython, Net and Codec

The generators print programs; the modules say what these programs do.  A type is
flattened into accessors, sorted (`qsort` may keep or reverse equal ones, so `ties`
is chosen), and packed.  Memory is a function from addresses to cells that know which
scalar and which of its bytes they are, so that a scalar read at a wrong offset, or
half of it from an old message, is not taken for a value.  `Codec` sends a message,
receives it cut, whole or with the next one behind it, into a buffer that still has an
older message in it, reads and frees it.  The buffers lie where their declarations allow
it (`from`, `to`): the server's are aligned to 4 bytes (`server.c:175`, `server.c:301`), the
client's to 8 (`client.c:355`, `client.c:436`).  The generated code rounds addresses up, so
a message with arrays is read back between buffers that lie alike modulo 8
(`SameFooting`), and refused between others, as a server's and a client's may be.  The receiver's schema may lack the message (`reader`),
and its struct still has the tag of the one before (`held`), read and freed, which is what
`deserialize` frees for a tag it does not know.  Of the Python classes, the reader assigns
to the elements of an empty list where the size is fixed (`NoIndex`, `Assigned`).  A pointer to
a fixed number of elements, `T&[n]`, is `HeapFixedArray`; there is no C program to follow for it
(`HasProgram`), and the schemas that have one go through the Python classes only.  `Net` has the offsets of `net.c` as they
stand in that file, and `NetGenerated` compares them with the generator's.

### JsonParse, Json and Config

A text is a sequence of pieces: brackets, commas, words, numbers and strings with
their size in bytes and their escapes.  Words may be misspelt; strings with characters
that `json.c` refuses are left out.  The calls of `json_parse_value` that have not
returned are a stack of the headers they will complete, `pc` is the place in the innermost
one.  The output buffer is a sequence of cells of
eight bytes, headers and data, with its limit, which every branch of the parser
checks on its own.  `json_adapt` walks that buffer and writes bytes at the offsets of
the structs (x86-64), so that properties that overlap are seen to.  A conversion
(`tsf_*`) says which bytes it stores; the one for colors has stored the components before
the digit it refuses (`Converted`).

### Hashmap

The table has its buckets, its capacity and the hash of each key.  The loops that move
entries take one step per entry: `hashmap_take` marks a bucket as free and moves entries
into the hole one by one (`CloseHole`), `hashmap_grow` puts the old entries into new
buckets (`Rehash`) before `hashmap_set` goes on (`Grown`).  `hashmap_take` compares
indices without the wrap around the end, so that a removal while both ends of the table
are occupied may move an entry to where no probe finds it.  Such removals are steps like
any other; the history variable `across` remembers them, until `hashmap_clear` empties the
table.  What holds all the same (the count, the empty half, that probes end)
is claimed of every state; that the table refines `KeyedMap`, while `across` is false.

### Lexer, Parser, Eval, Define and Ser

A text is a sequence of pieces that the lexer cannot split, the tokens have their
places, and errors are kept with theirs.  A step of the lexer is a turn of the loop in
`lexer_lex`, one alternative of `lexer_scan` per case of its `switch`.  The parser's productions return what they
read or add an error; `skip_until` is its recovery.  `Eval` has the four stages of
`resolve_statics` over a graph of type objects, where a reference may be `NULL`; a
stage that reads through it, or does not end, leads to `pc = "lost"`, a block of messages
without its brace at the end of the file to `pc = "hung"`.  `Ser` runs the stages as
`main` does, errors of the evaluation being looked at last; its steps `Lex` and `LexEnd`
are those of `Lexer`, `DefineSome` is `Pass` of `Define`, and the other stages are one
step each.  The structs of a pass are defined in any order, as `struct_object_compare`
takes names for equal of which one starts with the other.  Its reference
definitions (`WellFormed`, `Means`, `Held`) say what a program means without the order in which
it is evaluated.

## Runs

| Run | Checks | Bounds |
|---|---|---|
| `pool_mixed` | `Exclusive`, `KnownAccounted`, `DescriptorsAccounted`, `NoLostWakeup`, `ImplementsAlloc` | 2 threads with different tags, 2 entries, 2 plugs; cloneable and Dualshock 4 entries in the configuration |
| `pool_live` | `Served` | 2 threads, 1 entry, 2 plugs, one tag |
| `server_slots` | `JoinedBeforeFree`, `Announced`, `CleanContract` | a client with 2 slots, 1 entry, 1 plug, every kind of message |
| `server_again` | `Forwarded`, `ConnectionsEnd` | a client with 1 slot that connects twice, 1 entry, 2 plugs, requests only |
| `client` | `Mirrors`, `ReplayedOnItsDevice`, `Reconnects`, `Appears` | 1 slot, 3 devices of 2 shapes, 2 connections, a stream of 4 pieces of which 3 are seen at a time, 1 line in the fifo, an info about a slot the client does not have |
| `forward` | `WholeFrames`, `CaughtUp`, `EventsIndexed` | 2 devices with sparse codes out of 4, of which the last is KEY_MAX, 2 uses, 3 events, a queue of 3 |
| `codec` | `ReadBack`, `RefusedUnlessWhole`, `FreedOnce`, `NetGenerated`, `PythonReadBack` | net.ser and all messages of one or two fields out of 12 types; arrays of up to 2 elements; cuts inside words; buffers at 0 and 4 modulo 8; readers with and without the message |
| `json` | `InBuffer`, `Walkable`, `AcceptedIsWritten`, `FitsOrRefused`, `AdaptedAsWritten` | all texts of up to 5 pieces out of 15, documents for each adapter, whole and damaged, 3 sizes of buffer |
| `hashmap` | `Findable`, `IsMap` | 4 keys, 2 values, tables of 4 and 8 buckets, hashes at both ends, removals anywhere |
| `ser` | `Tiled`, `NumbersRead`, `ParsedAsWritten`, `Judged`, `TypesResolved`, `Meant`, `Strictest`, `DefinedInOrder` | all programs of up to 4 items out of pools about constants and structs, of up to 3 about declarations and messages; two programs with every piece removed or inserted or the end cut off; all texts of up to 4 pieces; numbers around the largest one, here 63 |

What the properties of the newer runs say: the client's devices are the ones the
server has announced on this connection, once what is on its way has arrived
(`Mirrors`), and whatever was thrown away no report is replayed on a device of another
shape or connection (`ReplayedOnItsDevice`); the virtual device shows states of the
physical one only (`WholeFrames`) and reaches the last one (`CaughtUp`), of the codes read
in this use and as long as the kernel dropped nothing in it, and every event
that waits has a place in the report (`EventsIndexed`) unless it is of the last code, which is all that keeps the
server's writes inside it; a message is
read back as it was sent if it is there in full, its reader knows it and the buffers lie
alike or it has no arrays (`ReadBack`), any other is refused (`RefusedUnlessWhole`), and of
the messages the reader knows nothing is leaked or freed twice; the JSON parser stays within its text and its buffer (`InBuffer`), what it
leaves there can be walked by its lengths (`Walkable`), an accepted text is the one that
was written, an adapted struct has its values; the hash map is a map until an
entry is taken across the ends; the compiler covers its text with tokens, reads the numbers it
can represent, accepts exactly the well formed programs, gives every type its strictest alignment and defines structs
before they are used.

Two threads are enough for every pair of calls to meet, with the hid thread as a
third party.  Two plugs let an entry be used again while the old device is queued
or in use, or two devices be there at the same time; more devices and threads are
left to the proofs.  In `server_slots` the second slot is alive while the first one
is killed and joined; in `server_again` the one client leaves at any time and connects
again, so that a slot gets the next device after losing one and the slot of the second connection
the device of the first; with one thread there, which each connection uses in turn, two clients
at once are left to the proofs.  `MaxPlug`,
`MaxInbox` and `MaxIds` cap what is otherwise unbounded.  Entries are
interchangeable, hence the symmetry of `pool_mixed`.  Runs of `Server` do not check
for deadlock, because the server can really come to a halt (see `server_mutex`); the
client may be ended, and `forward`, `codec`, `json` and `ser` come to an end.  Three
devices and two connections of the client are enough for a device to be replaced while
the bytes about it are cut, discarded or from the connection before.  Two fields are
enough for every pair of alignments and of kinds of array to meet, at both addresses modulo
8 that buffers aligned to 4 have; the last of four codes is the one that is not numbered, and two
uses are one of a device that was returned or of two devices; four buckets for a
chain of collisions before and after growth; four items for a cycle of three and its use.

Two runs show what the code does against what it says of itself:

| Run | Property | What happens |
|---|---|---|
| `server_mutex` | `MutexesReleased` | a client leaves while one of its slots is in `get_device`: `devices_mutex` stays locked for good |
| `types_recursive` | `TypesResolved` | `type x = y[]; struct y { f: x }`: the field gets the NULL that stands for `x` while it is resolved, no error is reported, and the alignment is read through it |

Departures that are in the models, or at the edge of them, without a run of their own:

* pool: a device unplugged while nobody uses it keeps its id known, so with two tags
  the next device of that entry is passed over until a client asks for the old tag
  (`hid.c:361`); forgetting a cloneable device reads its descriptors as a pointer
  (`hid.c:249`); `readdir(NULL)` for a `ps4_hidraw` device without hidraw directory
  (`hid.c:380`), and no `closedir` if the directory has no node (`hid.c:388`); a name
  that was never assigned is freed (`fault = "invalid free"`);
* server: SIGTERM during `device_thread_exit` returns a device twice (`server.c:283`); if the
  destroy message fails, a forgotten controller goes back to the queue (`server.c:276`);
  a controller state is applied without a lock to a controller that may be forgotten or
  freed (`server.c:368`); any message restarts the request timeout (`server.c:311`);
  SIGTERM between the scan of `get_device` and `*args->controller = ctr` loses the device,
  and before the first device thread has set its handler ends the server; one `recv`
  may hold several messages, of which the first is handled; a ninth slot moves
  the vector the threads point into (`server.c:393`); sockets are shut down but not
  closed (`server.c:416`); an info of more than 2048 bytes cannot be sent (`server.c:199`);
* reports: relative movements stay in the report and are repeated (`server.c:257`);
  SYN_DROPPED is taken for the end of a packet; the entry -1 of the uint16_t maps is
  never seen as negative (`server.c:243`), and a device with the code KEY_MAX, at which
  `setup_device` stops (`hid.c:85`), has its events written outside of the report; a device that
  is used again starts at rest whatever keys are held (`server.c:206`);
* client: SIGPIPE ends it (`client.c:359`, `client.c:462`); of several lines in the fifo
  the first is parsed (`client.c:447`); what is thrown away after a message in pieces
  may hold an info or a destroy (`client.c:487`); a controller without tag is read
  through NULL (`client.c:397`);
* configuration: the README's `"tag": ["Joystick"]` (`README.md:120`) leaves the controller without
  a tag, because the adapter expects a string and an element of an array has a path of its
  own (`client.c:75`); `AdaptedAsWritten` has it like this;
* JSON: a second `\uXXXX` in a string continues the first (`json.c:84`); a value of the
  wrong type leaves what was never written (`json.c:745`); `.index` is stored as four
  bytes over two (`client.c:66`); a key's quote, digits after a sign, and what follows
  the value are not checked;
* generated code: the length is compared after the message was written
  (`codegen_c.c:761`); addresses, not offsets, are rounded, while the server's buffers
  are aligned to 4 bytes only, and a message with arrays is refused when
  the two lie differently modulo 8; the Python reader raises IndexError at a list of fixed
  size, which it assigns to without having filled it (`codegen_python.c:158`); for a tag that
  the reader's schema lacks `deserialize` frees whatever message its struct held before, also one
  that its caller has freed (`codegen_c.c:821`, `net.c:329`), and what a struct that was never
  written says (`server.c:347`); for `T&[n]` nothing is allocated, and `free(x.data)` of a pointer does not
  compile (`codegen_c.c:476`); the Python classes use big endian magic numbers and tags from 0, and do not
  write the padding after fields of constant size that their own reader skips;
* compiler: `hashmap_take` compares indices without the wrap around (`hashmap.c:268`): with keys
  at home in the first and the last bucket, taking the one in the last moves the other there, and
  it is not found again; `codegen.c:141` takes entries like that; `hashmap_clear` on free
  buckets (`hashmap.c:295`); some overflowing numbers pass (`lexer.c:116`); tokens
  between items are dropped (`parser.c:305`); a block of messages without its brace does
  not end (`parser.c:268`); floats have no layout (`eval.c:1236`).

`CleanContract` says that `clean` names all the ways in which a leaving client
harms the pool: as long as no thread was hit inside a call and nothing was
returned that should not be, every step of the server is a step of `HidPool`.

### Fairness

`FairSpec` and `FairServerSpec` assume that threads are scheduled and that a thread
that keeps finding a mutex free gets it in the end (strong fairness), that a
pending signal is delivered, that `poll` times out when nothing comes in, and that
the hid thread goes on polling.  Nothing is assumed about devices, clients or
spurious wake-ups.  `Client` assumes that the client runs, that TCP delivers what was
written on a connection that stays, and that a server that is gone is started again;
lines in the fifo, broken connections and what the server has to say are not fair.

## Proofs

The proofs hold for any sets of threads, connections, slots, entries, tags, codes,
devices, shapes, keys, hash functions, texts, buffers and programs and for any value of the bounds; the named
assumptions of the modules (`PoolAssumption`, `ServerAssumption`, `ForwardAssumption`,
`ClientAssumption`, `HashmapAssumption`) are all that is assumed, and nothing about texts, buffers and programs.  Each has an inductive
invariant, which TLC checked on the runs' instances before it was proved, a lemma per kind
of step, and one step of proof per action.

| Module | Theorem | What is shown always to hold |
|---|---|---|
| `HidPoolProofs` | `Invariance` | `IInv` |
| | `TypeCorrect`, `Exclusion`, `NothingLost`, `WakeupsKept` | `TypeOK`, `Exclusive`, `KnownAccounted`, `NoLostWakeup` |
| | `DescriptorInvariance` | `DInv` |
| | `DescriptorsKept` | `DescriptorsAccounted` |
| | `Refinement` | `ImplementsAlloc`: the pool implements `DeviceAlloc` |
| `ServerProofs` | `ServerInvariance` | `SInv` |
| | `ServerTypeCorrect`, `Joined`, `AnnouncedFirst` | `ServerTypeOK`, `JoinedBeforeFree`, `Announced` |
| | `Contract` | `CleanContract` |
| | `CleanServer`, `ServerAllocates` | what the pool promises, while `clean`: its invariants, and the steps of `DeviceAlloc` |
| `ClientProofs` | `ClientInvariance` | `CInv` |
| | `Mirrored`, `ReplayedRight` | `Mirrors`, `ReplayedOnItsDevice` |
| `ForwardProofs` | `ForwardInvariance` | `FInv` |
| | `OnlyWholeFrames`, `CatchesUp`, `OnlyLastOutside` | `WholeFrames`, `CaughtUp`, `EventsIndexed` |
| `JsonProofs` | `ParseInvariant` | `ParseInv` |
| | `ParseTypes`, `StaysInBuffer`, `AcceptedIsWalkable` | `ParseTypeOK`, `InBuffer`, `Walkable` |
| `SerProofs` | `LexInvariant` | `LexInv` |
| | `LexerTiles` | `Tiled` |
| | `DefinesInOrder` | `DependenciesFirst` |
| `HashmapProofs` | `HashmapInvariance` | `HInv` |
| | `AlwaysFindable`, `MapRefinement` | `Findable`; `IsMap`: the hash map implements `KeyedMap` while nothing was taken across the ends |

**Pool.**  None of the properties is inductive alone.  `IInv` adds `Locks` (a mutex is held
exactly by the thread whose `pc` is between its lock and unlock), `Kinds` (a thread with a
controller has one of the right type, a duplicate is in `cloneable_devices`, everything in
`available_devices` is not a duplicate), `Apart` (no two places have the same id), `Listed`
(an id that is somewhere is known, and known once) and `Fresh` (between the lookup and the
push, the hid thread's id is not known).  `Fresh` is what makes the gap between the two
critical sections of `poll_devices` harmless: only the hid thread adds ids.  Actions that
only move a thread are covered by `HidMoves`, `ThreadMoves` and `ThreadDrops`, the ones
that change a vector have a lemma each, resting on lemmas about `vec_push`, `vec_remove`
and the linear searches.

**Descriptors.**  Ids are used again, descriptors are not, so that ids being distinct does
not say yet that descriptors are.  `DInv` adds `Origins`: there is a function from the
numbers of devices to the entries they appeared behind, and every controller agrees with
it.  Two controllers with the same descriptors have the same id by it, and `IInv` says that
there is only one.

**Allocator.**  The devices on offer are what is in the two vectors, a thread has what it
holds between `get_device` and the call that gives it up.  `PollPublish` offers,
`GetScan` gives, the return of a device is a `Return` and `ForgetClose` a `Lose`; every
other step changes neither.  That `PollPublish` offers a device nobody has needs `Fresh`, that a device given
away leaves the offer needs `Apart`.

**Server.**  `SInv` says where in `hid.c` a device thread can be for each place in
`server.c` (`Where`), which of a connection's threads exist or have ended in each phase of
its loop (`Phase`), and when signals are pending (`Flags`); and that `DInv` holds as long as
`clean` does and the process runs.  With it every step of a clean server is shown to be
one of `HidPool` (`Contract`), so that the pool's step lemmas, proved without the server,
give `DInv` for the next state.  Types, `JoinedBeforeFree` and `Announced` hold whether the
server is clean or not, and are proved without the pool's invariant.

**Client.**  `Mirrors` speaks of what the messages on their way will make of the devices
(`InForce`: the last message about a slot decides).  `CInv` adds what cuts do: until
something is thrown away the pipe starts at the start of a message and parts alternate,
and a report in the pipe is about the device its slot will then have (`Whole`); everything
is about the present connection (`Current`), and the turns of the loop agree with the
state of the socket (`Turns`).

**Way of an event.**  `FInv` follows a value from the kernel to the client: `Behind` says
that the report, brought up to date with the events that wait, is the state of the device,
and as far as the codes heard of in this use go, and at each end of a packet one of its frames; `Fitting`, that each report on its way fits
the device it will be given to and shows a frame; `InOrder` and `Same`, which device that
is; `Numbered`, that `setup_device` numbers the codes from 1 without gaps and its two
tables are inverse to each other, which is proved by counting; `Settled` is what `CaughtUp`
needs when the last report is still on its way.

**Hash map.**  `HInv` has two parts.  `Sound` holds of every state: entries are counted, at
least half of the buckets are empty, and what a hole or a growing table is in the middle of
agrees with that.  `Order` holds while `across` is false: no empty bucket lies between the home of an
entry and the entry (`Reachable`), keys are there once (`Unique`), a hole is closed in a table
whose ends are not both occupied (`Closing`), and the old buckets still to be rehashed have other keys (`Fresh`).  The hole
counts as filled until it is closed.  `NoWrap` and `HoleCloses` are the argument for
`hashmap_take`: while the ends of the table are not both occupied no entry lies before its
home, so an entry whose probe goes over the hole could still be moved.  `hashmap_clear`
makes `Order` true again.  The theorems are about `Spec`, with removals anywhere.

**JSON.**  Half of a buffer that is still being filled cannot be walked: the containers on
the stack have no lengths yet.  `ParseInv` says what can be said of them.  `Stacked`: the
calls that have not returned are for headers in the buffer, one inside the other.
`Tiles`: a header that is closed ends at another one or at the end of the buffer, and
what starts inside of it ends inside of it.  `Placed`: what was written last, for each
place in the code.  `Pairs`: a key is followed by a value, up to the one that is being
read.  A step adds a header, closes a string, closes a container or only moves on; each
has its lemmas, which speak of the buffer and the stack before and after it.

**Lexer.**  A comment is opened by two pieces, and by a slash alone after a hash, whose
case runs on into that of the slash.  So it is not enough that what has been read is
tiled: `LexInv` says, too, that the place the lexer has come to is in no comment that was
opened before it and is no slash after a hash (`Outside`).  An unexpected character that
joins the error before it must not join it in two places; the errors are in the order of
their places (`InOrder`), so no other one is equal to it.

**Definitions.**  What has been defined is what has left the map, and a struct leaves it
when nothing it depends on is left.  That a pass defines each of its structs once is a
fact about injections of finite sets of the same size.  With no struct held by itself, as
`Judged` says of programs that get that far, the last pass leaves nothing; `DefinedInOrder`
checks it on the run together with the dependencies, which are computed by recursion.

Only model-checked, and why:

* `Served`, `ConnectionsEnd`, `Forwarded`, `Reconnects`, `Appears`: liveness under
  fairness is out of the prover's reach;
* `Codec` (`ReadBack`, `RefusedUnlessWhole`, `FreedOnce`, `NetGenerated`, `PythonReadBack`):
  generated code recurses over types;
* `AcceptedIsWritten`, `FitsOrRefused`, `AdaptedAsWritten`: they compare the parser with a
  document, a tree, and with the size of its encoding, both by recursion;
* `NumbersRead`: the value of a sequence of digits, by induction over its length;
* `ParsedAsWritten`, `Judged`, `TypesResolved`, `Meant`, `Strictest`, `DefinedInOrder`: grammar,
  type graph and reachability are recursive as the code is.

## What is left

1. The parser of the compiler as a machine with a stack, as `JsonParse` is, to prove that
   an accepted tree has the tokens of its text.
2. Lemmas about layouts that need no induction over types (`calign`, `AlignUp`).
3. `Server` with the capacity of its slot vector, and `vec.c` against a sequence.

## Not modelled

The text the generators print (names, declarations, formatting) and the reports of
errors with their excerpts (`source.c`, parts of `lexer.c`, `parser.c` and `eval.c`);
logging (`log.c`, `utils.c`); the command lines; the arena and the generic vectors, which only
allocate; `parse_uniq` and the ioctls; `json_print_value`; signals from outside; and what
`malloc` and `printf` do when a signal handler calls them inside themselves.
Integers of more than 32 bits (lengths of 8 bytes, overflowing literals) are beyond
TLC.
