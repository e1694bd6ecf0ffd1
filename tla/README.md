# A verification project for zeromq-rpc-test

The repository is a collection of RPC stacks built on ZeroMQ and MessagePack.
Requests are mpack arrays; the stacks differ in the sockets that carry them.
This directory holds TLA+ models of the stacks, the TLC configurations that
check them, and TLAPS proofs of what matters most.

    tlc -workers 2 -config MCRpcServer_calls.cfg MCRpcServer.tla
    tlapm RpcServerProofs.tla        (and the other …Proofs modules)

`PROJECT.json` lists the components, the runs with their properties, a mutant
for each property, the source lines each definition stands for, the hazards and
the theorems.

## The system

```
 bus stack (rpcserver/)                    worker stack (rpc/)
 client PUB > XSUB 5555|5556 XPUB > SUB    client REQ > ROUTER|DEALER > REP worker
 client SUB < XPUB 5558|5557 XSUB < PUB
      python      brokers        server    forwarder (newrpc/)
                                           DEALER > ROUTER, PAIR > PAIR handler
```

| component | state | operations | talks to |
|---|---|---|---|
| mpack writer and builder, `rpcserver/mpack/mpack.c` | a buffer, an error, the tracked containers; pages of builds | write, start, build, flush, destroy | flush function, file |
| mpack reader and expect API | a buffer, an error, the tracked containers | read, skip, expect | fill and skip function |
| mpack tree parser | bytes, pages of nodes, a stack of open containers, limits | parse, try to parse, fill | read function |
| mpack node accessors | a parsed tree and its one sticky error | accessors | called by every handler |
| RPC message handler, `rpc_msg_handler` and `rpc_application_add.cpp` | none but the tree's error | handler, method, error reply | PUB socket |
| RPC server, `rpcserver.cpp` | method registry, SUB and PUB socket | register, start, `rpc_handle_req` | brokers, handler |
| brokers, `xpubxsub.cpp` | the queues and subscriptions of two proxies | forward a message, forward a subscription | client, server |
| bus client, `zmq_broker_req_sync2.py` | its call and its subscriptions | send, subscribe, receive, expire | brokers |
| forwarder, `newrpc/router3.cpp` | three threads, ROUTER, PAIR, DEALER | dealer, poll thread, handler thread | each other |
| workers, `rpc/rpcs.cpp`, proxy, `zmq_rpcrouter.cpp` | the REP sockets and the proxy's queues | proxy, receive a frame, reply | REQ clients |
| method registry, `hash/` | an open-addressing table | set, get, has, del, clear, rehash | server |
| socket monitors | none | print events | — |
| Python router and slot, C client | ROUTER, DEALER `SLOT12` | echo | each other |

What is hard in them:

* **mpack** moves the bytes of one element through its buffers in pieces: a write
  may straddle a flush, a read a fill, a node a pause of the stream; heads of built
  containers are put in after their content; limits are counted while a message
  arrives, and errors stay until the end;
* **the handler** has one error for the whole tree, so an accessor that fails
  early silences a reply that is sent late; lengths and texts are read
  separately and may disagree; the boundary of the 128-byte buffers decides
  whether a caller hears its answer;
* **the server** counts frames instead of asking for the end of a message, and a
  receive that fails leaves the rest of the message behind;
* **the bus** has two hops in each direction, drops what nobody is known to want,
  and carries subscriptions against the messages; the client sends first and
  subscribes afterwards, with the same request id every time, and gives up after
  two seconds;
* **the forwarder** is a cycle of two threads and two bounded queues with sends
  that block;
* **the workers** ignore the result of every receive and send, and rely on the
  REP socket to refuse what does not fit;
* **the registry** walks over tombstones and other names, and its rehash moves the
  entries through the array they lie in.

What makes each correct is stated below as the properties of its runs; the list
of hazards in `PROJECT.json` says which property would notice which going wrong.

## The modules

| module | models | state and actions in the code |
|---|---|---|
| `MPackFormat` | the encodings of `mpack.c` | operators from a tag to its bytes, and from a first byte to a tag |
| `MPackTrack` | `mpack_track_*` | operators on a stack of open containers |
| `MPackWriter` | the writer | a record: buffer, what is flushed, error, tracking; one operator per function |
| `MPackBuilder` | the builder | the writer's record with pages and builds; `mpack_builder_resolve` walks them |
| `MPackReader` | the reader | a record: the bytes held, how many are taken, error, tracking |
| `MPackExpect` | the expect API | operators on the reader |
| `MPackWrites` | a program that writes | one call a step to the writer, from a script; what the format makes of the script is stated on the calls |
| `MPackPipe` | that program and one that reads | one read a step, the reader's function chosen freely |
| `MPackTree` | the parser of `mpack_tree_*` | a record; between two calls of the read function its steps are `ParseNode` and `GoOn` |
| `MPackNodeApi` | every accessor of `mpack_node_*` | operators from a tree and a node to the tree and an answer |
| `MPackParse` | a program that parses and looks | the read function brings any number of bytes, or none |
| `MPackNode` | the accessors the RPC handlers call | operators on handles: a node and the error of its tree |
| `RpcHandler` | `rpc_msg_handler` and all it calls | an operator from a payload to the replies it publishes, none or one |
| `RpcContract` | what a payload is to be answered with | stated on the payload, not on the order of the accessors |
| `RpcServer` | `rpcserver.cpp` | `inbox` is the SUB socket, frame by frame; the four ways through `rpc_handle_req` are four actions |
| `RpcService` | abstract: calls served one at a time in order | refined by `RpcServer` |
| `RpcBus` | client, brokers, server as one system | a queue for each hop and direction, one for the subscriptions of each hop |
| `Forwarder` | `router3.cpp` | one program counter for the poll thread, queues for ROUTER and PAIR |
| `EchoQueue` | abstract: a bounded FIFO queue | refined by `Forwarder` |
| `WorkerHandler` | `msg_handler` of `rpcs.cpp` | an operator from a frame to a reply |
| `RpcWorkers` | REQ clients, proxy, REP workers | `owing` is the REP socket's state |
| `RequestReply` | abstract: ask, then hear the answer | refined by `RpcWorkers` |
| `KHash` | `rpc_hash.cpp` over `khash.h` | `flags` and `slots` are the arrays; the loop of `kh_resize` is one action per entry moved, everything else is atomic |
| `Registry` | abstract: a partial function, set one name at a time | refined by `KHash` |
| `MC…` | instances of these for TLC | |
| `…Proofs` | theorems about `RpcContract` and `RpcServer`, `Forwarder`, `RpcBus`, `RpcWorkers`, `KHash`, `MPackParse`, `MPackWrites`, and the lemmas about `MPackNode` they rest on | |

In the `MPack` modules bytes are numbers and messages are sequences of bytes: the
buffers are about bytes. The limits of 32 and 64 bits are scaled (`MPackFormat`
says how) because TLC's integers have 32; every width keeps both sides of its
limit. The tree an RPC handler reads is more abstract: `MPackNode` and
`MPackNodeApi` are two models of the same functions, the first for what a handler
does with a payload, the second for what an accessor answers on any tree.

A payload is a tree of `[type, len, kids, text, nul]` with whether it parses and
how many nodes it takes. Texts are opaque; a `len` is kept beside them because
the code reads it separately. The `len` of a number node is never written by the
parser and the pool is uninitialized stack memory, so it is part of the input
and may be anything. `Mutant:` definitions are plausible faults, used only to
see that the properties notice them.

### What is taken from libzmq

The models of sockets come from how the code uses them: the frames of a message
arrive together; a PUB or XPUB drops what it knows of no subscription for; a SUB
counts its subscriptions and tells upstream of every new one but only of the end
of the last one; an XPUB passes on the first subscription and the end of the
last; a REP socket neither receives while it owes a reply nor sends while it
owes none; a ROUTER drops what is addressed to nobody; a PAIR's send waits for
room. The high-water marks of the bus sockets are left out: with one call under
way they are never near. `main` of `xpubxsub.cpp` calls `test_server`, which does
not return, before it starts the brokers; `RpcBus` models brokers that run, as
they do when built from the other files.

In `RpcWorkers` the DEALER may hand a request to any worker, which includes its
round robin; the code starts one worker, and the run takes two.

## The runs

| run | asks | bounds |
|---|---|---|
| `server_calls` | for each of 22 payloads: replies go to the caller's topic and keep the order, topic and payload stay in step, only a failed receive loses a call, `RpcService` is implemented, every call is answered | 2 messages of 1 to 3 frames, 1 failing receive, of a message of at most 2 frames |
| `forwarder` | the two threads never wait for each other, the whole is a FIFO queue, everything comes back, the dealer is always answered | capacity 2, 7 messages of 1 or 2 data frames: more than the 5 places of the queues and threads |
| `bus` | while the bus is fast each reply is the call's own and at most one heard call expires; whenever calls expire: order, no doubles, bounded lag; every call ends | 8 calls, those from the fifth on may expire early |
| `workers` | no worker receives while it owes, no request is lost or answered twice, the one reply heard is the one the request is to have, each is answered | 2 clients, 2 workers, 7 kinds of frame, 1 or 2 in a request |
| `registry` | no entry is lost or doubled in a rehash, a lookup finds all there is, the counts keep a bucket empty, a set ends, `Registry` is implemented | 4 names with 4 hash functions, 2 values, tables of 4, 8 and 16 buckets |
| `pipe` | what is written is the encoding of the calls or its beginning, every read answers what was written (a match of a string, but for what `match` finds), tracking tells misuse and nothing else | 8 pairs of a writer and a reader, buffers of 31 bytes to 600, pieces of 1, 5 and 40 bytes, flushes that fail at once or at the second call |
| `tree` | the parser stays in its bytes and pages, writes no parsed node again and promises no more nodes than the limit, what is parsed is one tree and is the message however it came, every accessor answers what the message says, an error silences all that are asked after it, parsing ends | pages of 8 nodes, a first buffer of 6 bytes, pieces of any length, 2 pauses, pools of 0 to 18 nodes, limits at both sides |
| `server_answers` | two findings, below | a proper call, three odd request ids, three odd parameter lists |
| `forwarder_identity` | finding, below | 2 messages |
| `builder` | finding, below | builds after 32 to 50 letters in pages of 128 bytes |
| `match` | finding, below | strings of ASCII and of other characters, each matched with itself |
| `tree_limits` | two findings, below | 2 messages within their limits |

Every bound is a constant: `MaxFrames`, `MaxMessages`, `MaxRecvFailures`,
`FailFrames`, `Capacity`, `MaxCalls`, `FirstSlow`, `MaxParts`, `MaxRequests`, `MaxBuckets`,
`PageSize`, `NodesPerPage`, `BufferCapacity`, `MaxPauses`.

* Payloads: the 22 take every path through the handler, with both sides of each
  comparison: ids of 127, 128 and 129 bytes, no id and two, names and
  parameters of the wrong kind or number, a message one node larger than the
  pool. The handler keeps nothing between messages, so two messages are enough
  for their interplay.
* Frames: up to three show what is left in the socket. The properties `InSync`
  and `RepliesInOrder` really do end there: with messages of four frames, or of
  three and a failing receive, the server takes a payload for a topic.
  `FailFrames` is that line: a receive fails only while no message of more than
  two frames has arrived. The contract with the clients is two frames.
* Queues: `Capacity` 2 is the least the argument needs (see the proof); seven
  messages fill every place and leave two waiting.
* Calls: what the bus keeps from earlier calls is subscriptions left behind and
  replies still on their way; three calls show each kind of overtaking, the
  fourth and fifth that nothing adds up. `FirstSlow` is the first call that may
  expire while its reply is on its way: the properties about a fast bus speak of
  the calls before it, the others of all. The theorems hold for any number.
* Requests: after its answer a worker's client is where it began; only the record
  of what was heard has grown, and no action reads it. One request each of two
  clients therefore has every interplay of more.
* Tables: the four hash functions put all names on one bucket, on one of four
  and two of eight, on buckets whose walks meet, and on four apart. Tables of four
  and eight are rehashed in the same size, to be rid of tombstones, and in twice
  the size; entries are kicked out in both. A set that would need 32 buckets does
  not happen.
* Bytes: `pipe` takes numbers at both sides of every limit of every width, heads
  at both sides of every count, text that fits exactly, by one and not at all in
  a buffer of 31 to 37 bytes, UTF-8 that is overlong, cut, a surrogate, and
  fourteen ways to misuse the API; every read is tried with every function that
  takes the element and some that do not. Its pages of 91 bytes hold two builds
  and little content, so that builds begin in every part of a page; 91 is no
  multiple of the alignment of 8, so that no build can end exactly at the end of a
  page. That one case is what `builder` is for, with pages of 128 bytes: it is
  wrong there, as it is with the 4096 of the code.
* Pieces: the stream of `tree` may bring any number of bytes at each call of the
  read function and nothing at two; pages of eight nodes make containers share a
  page, begin a new one, or get one of their own, up to one of seventeen children,
  and lie one in another in a page that is not the first.
  A stream is limited in bytes and nodes at both sides of what its message has;
  `ParsesAlike` lets it be refused then, and `tree_limits` shows when that is
  wrong. The accessors are asked one after the other, in any number, so that one
  may meet the error of another.

`CHECK_DEADLOCK FALSE` is in every configuration: the bounds stop the clients,
and a system with nothing to do rests.

### Fairness

* mpack: `ParseEnds` assumes that the program calls again until a message is
  parsed or an error is flagged, that the parser runs on, and that the stream
  brings something in the end (`MaxPauses`), a byte or its end.
* Server: weak fairness of registration, of the start and of `rpc_handle_req`
  as a whole: the program's thread does one after the other, and its loop polls
  without end. Which way `rpc_handle_req` goes is not chosen by fairness.
  `EveryCallAnswered` is stated without failing receives, for a receive may fail
  for ever.
* Forwarder: each of its three threads runs when it is not blocked.
* Bus: the client's loop, the server's loop and each direction of the proxies.
  Nobody has to start the server: `CallsEnd` holds without one, by the timeout.
  "Faster than the timeout" means that the client expires only when nothing is on
  its way that could still bring a reply (`Quiet`), for the calls before `FirstSlow`.
* Workers: each direction of the proxy and each worker's loop. No client has to
  ask.
* Registry: the loop of `kh_resize` and the rest of the put run on once begun. An
  allocation may fail at any time; the put then writes beyond its array, and the
  model stops (`pc = "wild"`) because what follows is undefined.

### Findings

* `server_answers`: `rpcserver.cpp:202` says "request_id is used as the reply-topic",
  and a call that names its id is not always answered there. The handler stores the
  id's length although the copy of the id failed, so an id of 128 bytes or more, or
  one with a NUL byte, is answered on a topic that is not the id. And a call whose
  parameters are no array is rejected silently, where `rpc_application_add.cpp:54`
  sends "invalid parameters.": the length accessor flags the tree, and the error reply
  then finds no id. Each of `NulId`, `TooLongId`, `OverlongId` and `ParamsNoArray`
  alone violates the run; the other payloads do not.
* `forwarder_identity`: the dealer's identity is eight bytes of a five-byte
  literal. Unless the bytes behind it are zeros, its replies go to an address no
  peer has, and it waits for ever.
* `builder`: `mpack_builder_build` uses a page up to its last byte (`mpack.c:2506`
  tests `>`), `mpack_builder_resolve` does not look there (`mpack.c:2643` tests
  `>=`). A container whose record ends at the end of a page is passed over, and the
  writer ends with `mpack_ok`; "Builder maps and arrays are encoded exactly the same
  as ordinary maps and arrays in the final message" (`mpack.h:3817`).
* `match`: `mpack_expect_str_match` compares a `uint8_t` with a plain `char`
  (`mpack.c:4681`). Where `char` is signed, as with GCC and MSVC on x86, a byte of 128
  or more is never equal, so that a string of other than ASCII does not match itself;
  "Reads a string, ensuring it exactly matches the given string" (`mpack.h:6266`). The
  model takes `char` to be signed (`SignedChar`); the answer `ReadsBack` asks of the
  function is therefore the code's, ASCII only, and `StringsMatch` is the documented one.
* `tree_limits`: a message within the limits of `mpack_tree_init_stream` is refused
  as too big because of the pieces it came in: `mpack.c:4940` counts bytes twice that
  are reserved and already there, and `mpack.c:5131` counts the children of a
  container once more after each pause. Each of the run's two messages shows one.

One smaller difference was met and is not a run: `mpack.h:6403` says that
`mpack_expect_bin_buf` reads "a string or binary blob"; the code takes only a bin.

## The proofs

All are for every value of the constants, from the named assumptions alone:

* `RpcServer`: `BoundsAssumption`, `PayloadsAssumption` (payloads are what the
  parser can leave); `RpcWorkers` has two of the same names;
* `Forwarder`: `CapacityAssumption`, `BoundsAssumption`, `PeersAssumption`;
* `RpcBus`: `BusAssumption`;
* `KHash`: `ValuesAssumption` (the NULL of `rpc_hash_get` is no value),
  `HashAssumption`, `BoundAssumption`: tables have fewer than 2^30 buckets, so that
  the next size always fits the 32 bits of `khint_t`, beyond which `kroundup32` wraps
  around; the model leaves that out;
* `MPackTree` and `MPackParse`: `TreeAssumption` (a page and the buffer hold something) and
  `CasesAssumption` (a tree is as one of the `mpack_tree_init` functions leaves it, limits
  are at least 1 and at most `NoLimit`, bytes are bytes). `NoLimit` stands for `SIZE_MAX`,
  which nothing in memory exceeds: sums of sizes do not wrap around;
* `MPackWrites`: `ScriptsAssumption` (the calls are calls the API has, with any numbers
  and bytes, and a writer is as one of the `mpack_writer_init` functions leaves it) and
  the static assertion about the builder's pages, `PageAssumption`.

`FewFrames` is not an assumption on a constant but the hypothesis of four
theorems: messages have at most two frames, or three and no receive fails while
a message that long is about. Without it they are false, as the bounds above say.

**MPackNodeProofs.** What each accessor does with a handle in error (it stays, with
the same error), with a node of another type, and with the node it wants.

**RpcServerProofs.** About one message: `HandlerKeepsContract`, for every payload the
parser can leave and any registered methods, the code's answer is one the contract
allows; `HandlerUsesOwnTopic`, with a proper id, every reply is on that id. These
proofs follow the tree's error through the accessors in the order of the calls.

About the server: `TypeCorrect`. `Sync`: for messages of at most two frames, or
three and no failing receive. `InSync` alone is not inductive: the invariant also
says that the frames in the socket form a chain (each frame that has a successor
in its message is followed by it). `InOrder` adds that frames are in the order of
their messages and that what was answered is behind what is in the socket.
`OwnTopicUsed` has no bound on frames or failures: it needs only that a frame
carries its message's payload. `ServiceImplemented`: `RpcService` has served what has
no first frame left in the socket, so the number served is counted from the
frames that begin a message. The invariant adds that no message is skipped
(`NoneSkipped`), that a frame without a `more` flag is the last of its message
(`FramesEnd`) and that a started server has all methods (`AllRegistered`); with
`HandlerKeepsContract` each way through `rpc_handle_req` is then a step of the
service. `CallsSurvive` is read off those steps: each loses a call only with a
failing receive, and no more than one.

**ForwarderProofs.** `NoMutualBlocking`: the poll thread takes one reply for each
request it takes, so the number under way grows only when it found the reply
queue empty; the invariant `FewUnderWay` counts that, and two full queues would
need more. `QueueImplemented`: a refinement of `EchoQueue`; the invariant
`NothingLost` says that what was accepted is what was echoed followed by what is
in the four places between. The count needs a capacity of two or more.

**RpcBusProofs.** `InOrder`: the four queues a call goes through form one ascending
line, and what was taken comes before all of it. `Lag`: every ended call was
answered or has expired, so the i-th reply taken belongs to call number i plus
the calls expired before, while it answers at least call i. `Current`: on a fast
bus all that is under way is the current call's. `OneExpires`: the last update on
each subscription hop says what its source is (`UpdatesLead`); when a heard call
expires and nothing is under way, both hops therefore know the client, whose
count of subscriptions never returns to zero (`Leaked`), and from then on a heard
call is always in one of the queues, so that the bus is not quiet before its
reply is taken (`Settled`). `TypeCorrect` rests on `Leaked` too: a client that took
back more than it subscribed to would drive the count below zero.

**RpcWorkersProofs.** `HandlerKeepsPromise` follows the tree's error through the
handler, as for the server. For the rest, `Places` are all positions where a
request or its reply can be: the proxy's queue of requests, the last frame of a
request in a worker's socket, a reply owed, the queue of replies. The inductive invariant has three parts: no two
places hold the same client's (`OnePlaceEach`), a client waits exactly when some
place is its own (`WaitsForPlace`), and what a place holds is the client's request
or the reply promised for it (`Carries`). `OneRequestUnderWay` counts the
places, and each step of the proxy or a worker moves one place, which is a
stutter of `RequestReply`; only asking and hearing are steps of it.
`RepliesBeforeReceiving` needs that handling a request and owing a reply begin and
end together.

**KHashProofs.** The walk of `kh_get` and `kh_put` takes steps of 1, 2, 3 …, and
looks at every bucket before it is back where it began (`EveryBucketMet`): two
buckets of the walk are the same only if a product of two numbers, one even and
one odd, is divisible by twice the number of buckets, a power of two; by Euclid's
lemma one factor then is, and both are too small. The inductive invariant
`InvTable` says that no empty bucket lies on the way to an entry (`InvWays`), in
the table being built while `kh_resize` runs, that no name is in two
buckets or in a bucket and the hand (`InvEntries`), and that `size` and
`n_occupied` count what they should with a bucket left empty (`InvCounts`), so that
every walk ends. A put goes to the first tombstone of a walk that met no such name:
the way to it is part of that walk. From `InvTable`: `EntriesKeptOnce`,
`CountsAreTrue` (which includes that `kh_resize` never refuses a table as too
small), `LookupsFind`, and `RegistryImplemented`: what is held in the two tables
and the hand together is the partial function of `Registry`, and a step of the
rehash leaves it alone. TLC checked `InvTable` on the instance of the run
before it was proved.

**MPackParseProofs.** `StaysInBounds`: the parser works on a count, the bytes that may
still become nodes, and on places in pages; it never compares a position with the
end of its bytes. Why that is enough is the inductive invariant `Inv`:

* what may still become nodes are the bytes held less those parsed and less one
  for every child that a container on the stack still awaits (`Open`); the
  innermost one awaits at least one, so that there is a byte to begin a node with;
* what is reserved is what the head of the node says, its width, and then its
  width and its body (`Stages`): a node that a pause interrupted is begun again from
  its first byte, and comes to the same;
* the children a container awaits have places in one page (`Open`, `RoomFor`), what is
  parsed lies in the bytes parsed and in its page (`Within`), and the bytes held fit the
  buffer (`Fits`), whose capacity doubles until they do (`CapacityType`).

The step that matters is the end of a node (`FinishSound`): what it reserved comes off
the count, but of a container only its head off the bytes not parsed, and its
children become awaited; counting those needs that popping the finished containers
takes nothing that is awaited (`AwaitedKept`). A place for children is in the current
page, in one of their own or in a new one, and each is long enough
(`ChildrenPlaced`), whatever `nodes_left` and the size of a page are. That an accessor
changes nothing of a tree but its error (`PerformIdle`) keeps the rest. Once there is
an error `Stages` need not hold, and nothing is parsed any more. TLC checked `Fits`,
`Within` and `Stages` on the instance of the run before they were proved. `TypeCorrect` is
the other half of the same invariant.

`ParsedNodesStay` and `LimitKept` need a second one, `Neat`, which TLC checked first in the
same way. The places of the nodes parsed, the places each container on the stack
still awaits, and those no container has taken yet lie apart (`Apart`): a child is
parsed to a place that was awaited and is so no more, and the places a container
takes were free (`OpenedApart`), a page being replaced only when what is left of it is
too short, and what is left then never taken. Nodes parsed and awaited are no more
than `node_count`, which `mpack_tree_parse_children` compares with the limit before
anything is promised; the pause that counts a container's children twice (`tree_limits`) makes it larger
and never smaller. This is why the findings of `tree_limits` are about messages that are
refused, and no message with more nodes than its limit is let through.

`ParsedIsOneTree` extends `Neat` by `Settled`: among the places that hold a node or are
awaited (`Known`), all but the root are the child of exactly one node parsed, and every
set of them without the root has a member whose parent is outside of it (`Rooted`). A
node that is parsed adds its children to what is known, and they are nobody's
children before (`ChildrenReserved`); since a parent is parsed before its children,
the new children can close no circle. When the stack is empty, what is known is what is
parsed, and the tree is whole (`NeatWhole`).

`ErrorsAreSilent` follows each accessor from the tree it is given to the tree and the answer
it leaves (`Silent`): none replaces an error (`FlagErr`), and none reads on in a tree
that has one, also when it flagged it itself, or an accessor it calls did
(`AnswerSilent`, `NeedSilent`). A program that copies text into its own buffer is told
nothing then either.

**MPackWritesProofs.** `PlainWritesReference`: every function of the writer is shown to
write its own bytes (`Writes`): behind what was in the output and in the buffer before,
taken together, or with an error, and then the output is the beginning of that. The
relation composes (`WritesThen`), so that each function follows from those it
calls: a flush moves bytes and writes none (`FlushWrites`), a write that straddles the
buffer flushes first and hands its bytes over behind (`NativeWrites`), a string is its head
and its bytes (`StrWrites`). `CallWrites` then says the same of any call of a script, with
what the format makes of the call. The inductive invariant `WriterInv` keeps beside each
other how many calls were made and what is behind the writer; while it lives, a writer
to memory has handed nothing over, without which its teardown could hand over something
else. The format's encoding of the first calls is a recursive function, about which
only what its definition says is needed, and that it has a value (`SomeEncodes`).
The theorem is about scripts that build nothing: `builder` shows why it cannot be about
all. Its calls may break the rules of the API, which the writer leaves to
tracking. `MPackPipe` adds a reader to `MPackWrites` and changes nothing of the writer.

Only model-checked:

* liveness (`EveryCallAnswered`, `EverythingEchoed`, `DealerAnswered`, `CallsEnd`,
  `EveryRequestAnswered`, `SetsEnd`, `ParseEnds`), which is out of the prover's reach;
* `ParsesAlike` of `MPackParse`, its `AccessorsAnswer`, which is about a tree without an
  error, and `ReadsBack` and `TrackingTellsMisuse` of `MPackPipe`. What is read and
  answered is said there by folding over the elements of a message, and that the code's
  buffers and stack compute the same for every input is an induction over data the
  prover does not do. The reader and the expect API also hold RECURSIVE operators, which
  it cannot use;
* `WritesReference` of scripts with builds: the walk that puts their heads in repeats
  the computation of where each was put, which `builder` shows to go wrong at the end
  of a page, and right otherwise only as far as the run goes.

## Not modelled

* mpack: allocations that fail (what follows one in `mpack_builder_build` is
  undefined, see the hazards), extension types and timestamps (`MPACK_EXTENSIONS` is
  0 here), printing and debug output, the platform layer, internal storage of the
  builder, and wrappers that only pass on their arguments. Its documentation, most
  of `mpack.h`, is not code. Functions that differ only in the width of a number
  are one operator. A file that shrinks while it is skipped goes unnoticed until the next read.
* Socket monitors, which print.
* The Python router, its slot and the C client: the router answers each request
  with one fixed reply and keeps nothing between them, so that the slot is never
  asked; what can go wrong, a message of other than three frames, is listed as a
  hazard.
* The echo worker of `rpcs1.cpp`: `RpcWorkers` with a handler that says one thing.
* `wyhash.h`, which nothing calls; test programs and earlier entry points; memory
  (the leak of received messages is listed as a hazard). The copies of the worker
  stack under `rpcserver/` differ from `rpc/` in line ends, comments and one unused
  function.

## Plan

Done, in this order: `MPackNode`, `RpcHandler`, `RpcContract`; `RpcServer` with
`RpcService`; `Forwarder` with `EchoQueue`; `RpcBus`; `RpcWorkers` with
`RequestReply`; `KHash` with `Registry`; the proofs of the first four; then mpack
itself: `MPackFormat`, `MPackTrack`, `MPackWriter`, `MPackBuilder`, `MPackReader` and
`MPackExpect` composed in `MPackWrites` and `MPackPipe`, `MPackTree` and `MPackNodeApi`
in `MPackParse`.

Then the proofs of `RpcWorkers`, of `KHash`, of `RpcServer` implementing
`RpcService`, of `NodesInBounds`, `NodesStay`, `PromisesWithinLimit`, `NodesWhole` and
`ErrorsSilence`, and of `WritesReference` for scripts that build nothing.

Next:

1. of `MPackPipe`, the part of `ReadsBack` that is about the buffer alone: a reader's
   place is within what it holds. `MPackReader` and `MPackExpect` recurse with RECURSIVE
   operators, which the prover does not take: those are to be rewritten first, as the
   writer's were, with functions or `Turns`;
2. `WritesReference` of scripts with builds whose records do not end at the end of a page;
3. `RpcBus` with a broker that restarts, and with a second client that shares the
   request id.
