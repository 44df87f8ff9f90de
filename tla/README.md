# TLA+ models of the PostgreSQL TCP proxy

This directory holds TLA+ specifications of the `io` library and the three
services built on it (`psql_proxy`, `tcp_proxy`, `echo`), TLC configurations
that check them on small instances, and TLAPS proofs. Paths below are relative
to `src/src/`. `PROJECT.json` lists every run, mutant, finding, hazard and
theorem, and maps each definition to the lines it models.

## 1. The system

All requests are handled by one thread that runs a reactor (`io::context::run`
calls `io::bus::wait_events` in a loop); `psql_proxy` has a second thread that
writes the query log. The only state the two threads share is a bipartite
buffer and a stop flag.

| Component | State | Operations | Talks to |
|---|---|---|---|
| `bipartite_buffer` | `_data`, `_r`, `_w`, `_i`, two wrapped flags | `write_acquire`, `write_release`, `read_acquire`, `read_release` | its producer and its consumer, on one thread (`channel`) or two (query log) |
| `query_processor` | a buffer, the separator | `_add_message` (reactor thread), `_process` (writer thread) | handler, `file_writer` |
| `file_writer` | an `ofstream`, time of the last flush | `operator()`, the thread's loop | `data_processor::process`, `context` |
| `context` | bus, `_stop_requested` | `run`, `stop`, `is_stop_requested` | signal handler, both threads |
| `bus` / `epoll` | `_callback_map`, `_callbacks_to_remove`, `_events`, the epoll set | `add_fd`, `del_fd`, `del_fd_callbacks`, `enqueue_event`, `wait_events` | everyone, through callbacks |
| `acceptor` | listening descriptor, callbacks | construction with a scope guard, `_accept_new_client`, destruction | bus, `session_manager` |
| `socket` | descriptor | open, recv, send, close | kernel, bus |
| `channel` | buffer, left and right object, handlers | left handler (recv, handlers, send), right handler (send) | two sockets, bus |
| session, server | descriptors, channels | construction, `start`, error callback | bus, acceptor |
| `psql_proxy::handler` | `_buffer`, `_first_msg_handled` | `operator()` | `query_processor`, bus |
| messages, `endianness` | none | `make_message`, `check_endianness_by_uint32`, decoders | handler |
| `main` of each service | the objects on its stack, the global context | construction, `run`, `join`, destruction, the signal handler | all of the above |

What is hard here:

* **Concurrency**: the buffer's two threads share three atomics and an array
  without a lock; the stop flag is a plain `bool` set by a signal handler.
* **Edge-triggered epoll**: an event not fully served is not reported again. Each
  handler does one `recv`, one `send` or one `accept` per event.
* **Order of callbacks and events**: five callbacks of a session share two
  descriptors; errors are events queued behind others; callbacks are erased, and
  objects destroyed, after a dispatch.
* **Failures half-way**: `recv` fails after `write_acquire`; a handler throws
  between reading and sending; `shutdown` fails before `close`; the target's
  socket throws when the client's exists; epoll refuses a descriptor that is in
  the callback map already; the listener is registered before it is bound.
* **Lifetimes**: the writer thread has plain pointers to objects on main's stack;
  sessions are kept alive by the callbacks they register.
* **Reuse of descriptor numbers** while events of the old owner are queued.
* **Messages cut anywhere** by `recv`, with lengths whose byte order is guessed.

What makes the components correct:

* buffer: producer and consumer never touch the same element; it is a FIFO;
* query log: the log is what was handed in, less the refused pieces; what was
  accepted reaches the disk; a stop ends both threads;
* channel and session: bytes are passed on in order and once; what is sent is
  delivered; a connection that ends closes its session;
* bus and acceptor: map, epoll, open sockets and sessions agree; nobody waits in
  the backlog unnoticed; events reach the session they arose for;
* parser: what is logged depends on the messages, not on how they are cut;
* psql session: a query is given to the logger before it leaves for the server;
* service: the listener is usable while the server exists, and its destructors
  close it and then leave its number alone; a stop ends the process.

## 2. Modules

| Module | Models | Built on |
|---|---|---|
| `BufferIndex` | the index arithmetic of `bipartite_buf_impl.hpp` as operators | |
| `BipartiteBuffer` | both threads' accesses to a shared buffer; inductive invariant | `BufferIndex` |
| `Fifo` | what a single-producer single-consumer buffer promises | |
| `BipartiteBufferProofs` | proofs: the buffer's invariants | `BipartiteBuffer` |
| `BufferRefinementProofs` | proof: the buffer implements `Fifo` | `BipartiteBufferProofs` |
| `QueryLog` | `query_processor`, `file_writer`, `context`, the signal | `BipartiteBuffer` |
| `QueryLogProofs` | proofs | `QueryLog`, `BufferRefinementProofs` |
| `Relay` | one session: sockets, two channels, dispatch of events | `BufferIndex` |
| `RelayProofs` | proofs | `Relay` |
| `Reactor` | bus, epoll, acceptor, sessions that come and go | |
| `ReactorProofs` | proofs | `Reactor` |
| `Endianness` | decoders and guess of the byte order | |
| `Parser` | `psql_proxy::handler` and `make_message` | `Endianness` |
| `ParserProofs` | proofs | `Parser` |
| `Proxy` | a psql session: the parser as the handler of a channel | `Relay`, `Parser` |
| `ProxyProofs` | proofs: both parts hold in the composition, and what follows for it | `Proxy`, `RelayProofs`, `ParserProofs` |
| `Service` | `main` of the three services, the listener's life, the signal | |
| `ServiceProofs` | proofs | `Service` |
| `MC...` | constants that a configuration cannot write down | |

Operators called "mutant" in a comment are not part of a model. Each states a
plausible slip in the definition it stands before; `PROJECT.json` pairs it with a
property that must fail when the slip replaces the definition.

### BipartiteBuffer

One action is one access to an atomic, or the copy of one element. `WriteAcquire`
reads `_r`; `CopyIn` is the caller filling its region; `write_release` is
`WriteReleaseI` (the store of `_i`) and `WriteReleaseW` (the release store of
`_w`); `read_acquire` is `ReadAcquireW` and, when the writer is a lap ahead,
`ReadAcquireI`. `_i` is stored before the release of `_w` and loaded after its
acquire. When the consumer sees a `_w` the `_i` it goes with, or a later one, is
visible; the interleaving of these actions covers all of these outcomes.
`WriteAbandon` and `ReadAbandon` are callers that return without a release
(`channel.cpp:98`, `:134`). `_data` starts with arbitrary values.

`ImplementsFifo` maps the indices and the array to the queue of `Fifo`.

### QueryLog

Extends `BipartiteBuffer`: the reactor thread (`Main`) is its producer, the
writer thread (`Writer`) its consumer. `_add_message` goes through a message in
pieces of at most `CHUNK_SZ + 1` bytes (`std::next(pos + CHUNK_SZ)`) and then a
separator; a refused piece is skipped. `file_writer` checks the flag, processes,
and flushes when it is due; after an empty `process` it sleeps as long as the
flush interval, so the flush is then always due. `sputn` may fall short
`MaxShort` times. The stop flag is unsynchronised; the build has no optimisation,
so every test of it reads memory, and it is modelled as a variable read at the
test.

### Relay

A `wiring`, chosen at the start, gives the channels `lr` and `rl` their left and
right descriptors: client to target and back for the proxies, client to client
twice for `echo`. It also says which channels have an input handler (`parsed`: that
of `psql_proxy` from the client, else none), and how the peers behave: whether they
wait for the delivery of what they sent before they go on (`polite`), and whether
they may reset their connections (`resets`).

State per descriptor is the kernel's (`Socket`, external): unread bytes, end of
stream, a pending error, send space, and whether it is in epoll's ready list.
`EpollWait`, `SwapQueue` and `Dispatch` are `wait_events`; `Dispatch` lists the
callbacks of the event's descriptor as `steps` in the order they were registered
(left handler of `lr`, right handler of `lr`, the same for `rl`, the session's
callback), and each step is one action: `SkipRecv`, `RecvData`, `RecvError`, the
input handler, `SkipSend`, `SendData`, `SendError`, `Close`. Between steps the
kernel and the peers act. The input handler of a `Parsed` channel is a step of its
own, between the read and the send: `HandlerEnds` (Terminate enqueues an error
event), `HandlerReturns`, or `HandlerThrows` (the rest of the callback is skipped).
`Relay` lets it do any of these at any time; `Proxy` ties it to the bytes.

`Enqueue` drops an event that waits `MaxEqual` times already. An echo session needs
this: while its client does not read, either channel puts an out event back for
every one it gets, and their number doubles with every turn of the loop. (In a proxy
session an out event leads to at most one other.) What is lost is a further try to
send, which an edge of the kernel may cause at the same place; a dropped error event
has an equal one before it that closes the session.

Linux details used: an error or end of stream is readable; a reset reports
`EPOLLERR` and makes the socket readable and writable; a `send` on a reset
connection first returns the pending error and after that raises `SIGPIPE`.

### Reactor

Bytes are left out; what remains is who owns which descriptor. One action
dispatches one event. `width` is the number of descriptors of a session, 2 in the
proxies and 1 in `echo`. `AcceptSession` takes the lowest free numbers, as the
kernel does. `AcceptHalf` is the target's socket failing. `AcceptUnregistered` and
`AcceptOrphaned` are epoll refusing a descriptor: the client's, which leaves the
sockets open but nothing in the map, or the target's, which leaves the left
callback of a channel in the map (`Nobody`) that keeps both sockets alive although
no session will close them. `AcceptFails` may find any number waiting, also nobody:
Linux takes a descriptor before it looks at the queue, so `EMFILE` comes either way,
and the event is not put back. `failed` records the case in which a client waited;
in the other the next arrival raises an edge of its own. `Destroyed` is the destructor's `del_fd`, `shutdown`,
`close` with the early exit after `shutdown` fails. The walk of
`_callbacks_to_remove` is one step (`Remove`): nobody else acts during it, and the
numbers that the destroyed sockets insert are in the set already. Each event carries the session
it arose for as a history variable. A failing `epoll_wait` changes nothing here (it
is in `Service`).

### Parser

The client sends messages; `Recv(n)` is a call of the handler with the next `n`
bytes; `Handle`, `NeedMore`, `Throw` and `Return` are one turn of its loop, in
either branch. Message codes and the number of byte values are constants. After
an exception the first branch has lost the rest of the piece, the second keeps
the offending message in front of `_buffer`.

The parameters of startup and status messages are made and dropped, so they are
operators: `Parameters` is what the loop holds after each of the bytes it reads, and
`StartupParameters` takes the memory behind the payload as an argument, because
`params_end` lies 4 bytes beyond it. `SettingsKept` compares them, at every moment
a message is about to be made and for different contents of that memory, with the
zero-terminated strings the client wrote. `Settings` defines those without a loop: a
string is what lies between two zeros (`ZeroAt`), and strings number `2k - 1` and `2k`
are a setting. Of a startup message the settings come first; the zero that ends it and
the 4 bytes behind it can end five strings more, and no more parameters are made
than that allows.

### Proxy

`Relay` with `Parser` in its channel from client to target. `Receive` is `RecvData`
and the call of the handler with the bytes it returned; each message the handler
finds is a step (`ParseOne`, which for Terminate is also `HandlerEnds`), and the
call ends with `ParseReturns` or `ParseThrows`. The client sends the bytes of a
script of messages, cut by `CHUNK_SZ`, by what has arrived, and by the room in the
buffer. `SessionAssumption` says which channel has the handler, as
`psql_proxy::session` does; `ParserAssumption` repeats Parser's about codes and bytes.

`LoggedBeforePassed` is about every number `k` of messages: once the kernel has taken
the bytes of the first `k` for the target (`PassedWhole`), the texts of the queries
among them are the beginning of what the logger was given.

### Service

`Order` lists what `main` constructs: addresses, bus, context, processor, the
listener in six steps, stream, thread (the context comes last in `tcp_proxy` and
`echo`). Any step that can throw may `Fail`, and the objects made so far are destroyed
in reverse order.

The acceptor is taken down by two destructors in a row, `dtor` being the one that is
next: the scope guard's callback when its constructor throws, or `~acceptor` when the
server goes, and after either the base class's. All of them go through
`acceptor_base::_close` (`CloseBase`), which leaves `_fd` at -1 (`held` is false from
then on) unless `del_fd` throws; the first of the two then calls `::close` (`Release`),
`~acceptor_base` does not. When epoll refuses the descriptor (`refused`) the base's
constructor has thrown, and no destructor runs. `stray` is set by a destructor that
uses the number when it is not the listener's any more: a `::close` of -1, or a
`del_fd` of what epoll no longer has.

`RunTest`, `EpollWait` (or interrupted, or failing), `Accept`, `Swap` and
`TurnDone` are the loop, reduced to the accept events that put themselves back.
`Signal` may come at any time, twice, before there is a context and after it is
gone. The writer thread is one step here: it ends some time after the stop.

## 3. Runs

| Run | Shows |
|---|---|
| `buffer` | every interleaving, two request sizes, regions dropped by either side: the regions are disjoint, what is read is committed, the asserts hold, flags left behind do no harm, an empty buffer refuses nothing, the buffer is a FIFO |
| `log_all` | faithful log, which grows by whole pieces only, flush before exit, eventual writing, termination |
| `relay` | psql sessions with arbitrary traffic and a throwing handler, echo sessions with arbitrary traffic and resets, tcp and echo sessions whose peers send a burst of at most `CHUNK_SZ` and wait for its delivery, with resets: every byte goes through one channel, once and in order; the indices account for the bytes held; a reset ends the session; with waiting peers all is delivered, and a peer that finishes has its session closed |
| `parser_split` | every cut of a stream of up to 4 messages, malformed ones included: the log, the bytes kept, the startup and status parameters |
| `proxy` | a psql session with its handler: no query is passed on before it was logged, Terminate closes the session |
| `reactor` | two clients, side by side or on each other's descriptors, proxy or echo, all faults: registrations agree, backlog and resets are noticed, accept events do not multiply, descriptors are lost in two known cases only, everyone is accepted |
| `service` | three services, a failure at any step of the construction, signals at any time: the listener's life and its release by one destructor only, the writer's pointers, and that a stop ends the process |

Runs that end in a violation show where the code departs from what its comments
or the repository's README say; `findings` in `PROJECT.json` quotes the text.

| Run | What the code does |
|---|---|
| `log_long` | a piece of `CHUNK_SZ + 1` bytes is dropped by an empty buffer |
| `relay_unread` | one `recv` per edge leaves data unread |
| `relay_sigpipe` | a send to a connection that was reset can end the process |
| `parser_ssl` | a client that asks for SSL first is not parsed |
| `reactor_stale` | an event of a closed descriptor reaches its next owner |

What the properties concede, because the code does it:

* Refused pieces are missing from the log (`LogFaithful`, `PieceByPiece`): a part of a
  query or a separator when the buffer is full, and a piece of `CHUNK_SZ + 1` bytes
  even when it is empty, if its indices rest in the middle (`log_long`). The
  repository's README concedes neither: all queries are to be logged (lines 3 and
  7-8), one on a line (17-18), and without its separator a query shares a line with
  the next one.
* What is in the buffer when the writer ends is lost: `ExitFlushed` is about the bytes
  the writer took, `EventuallyOnDisk` about the time before the stop. This too is less than the
  "all" of the repository's README.
* Accept events accumulate, one for every edge of the listener, and stay for good.
  `ListenBounded` says that they do not multiply beyond that.
* A descriptor stays open when its connection was reset before its session ended,
  or when its session could not be made (`OnlyKnownLeaks`).
* `PassedInOrder` is about each channel: the two channels of an echo session take
  turns at reading, and when a send of one falls short the other's later bytes may
  leave first.
* What a client sends after a message that makes the handler throw may be passed on
  without being logged (`LoggedBeforePassed` stops at such a message).
* A signal before the context exists is lost (`StopEnds` starts from the flag).
* The listener's descriptor stays open until exit when epoll refuses it
  (`ListenerKept`).

The polite peers of `EventuallyDelivered` and `FinishCloses` are a real restriction.
Without it both fail for the reason `relay_unread` shows: what one `recv` leaves in
the socket, more data or the end of the stream behind data, is not reported again.
Nor does a buffer hold two parts with such peers, so that a send which takes only the
first part of a wrapped buffer (`channel.cpp:132`), after which nothing asks for a
second send, is beyond these two properties. `ResetCloses` needs no politeness.

### Bounds

* `buffer`: size 6, requests of 2 and 3, dropped regions of 2. Every relation
  between the three indices occurs (same lap, a lap ahead, an index at the end,
  invalidated space, full), and a dropped region may leave `_write_wrapped` set
  for a request of either size. The proofs cover all sizes.
* `QueryLog`, `Relay`: `CHUNK_SZ` 2 and a buffer of 4, as in the code twice the
  chunk. In the log two messages of 0, 2 or 4 bytes: empty, exactly a chunk,
  and cut into a piece of `CHUNK_SZ + 1` and a rest. In the session 4 bytes one
  way and 1 the other with send space 2, enough to wrap a buffer, fill it and have
  sends fall short. Two equal events (`MaxEqual`) are what one
  dispatch can add: a short send of either channel. The psql sessions of `relay` have
  no resets, to keep the check of liveness small: those of `proxy` have, and
  the theorems cover every combination.
* `Reactor`: two clients on four descriptors: their sessions overlap, or follow
  each other on the same numbers, and half-made sessions take up descriptors.
* `Proxy`: clients of 20 bytes, sent in bursts of 10 and read in chunks of at most 10,
  so a stream is cut after 10 bytes or not at all. In the four scripts this is inside
  the length of a query, of a query that makes the handler throw, of Terminate, and
  inside the body of a startup message. Cuts elsewhere are left to `parser_split` and
  to the theorem, which has all of them. Room for 5 bytes makes sends fall short.
* `Service`: three connections, so that accept events in the queue and new edges meet.
* `Parser`: 5 byte values, so that the guess changes at length 25 instead of
  65536; `parser_ssl` has 16. Pieces of 0 to 16 bytes cut messages of 5 to 10
  bytes everywhere and hold up to three of them.

Symmetry is not used: bytes are numbered, and descriptors are ordered.

### Fairness

* `QueryLog`: weak fairness of each thread; both are ordinary threads that never
  wait for each other before `join`. The signal need not come.
* `Relay`: weak fairness of the reactor, which runs as long as the process lives,
  and, as an assumption about the environment, peers read what they are sent
  and a connection attempt ends.
* `Reactor`: weak fairness of the loop. Peers owe nothing.
* `Proxy`: weak fairness of the process. Peers owe nothing.
* `Service`: weak fairness of main and of the writer thread; `epoll_wait` returns
  within its timeout of 10 ms, so main is never blocked in it. `accept` and signals
  owe nothing.

## 4. Proofs

The theorems hold for every value of the constants that the named assumptions
allow: any size of buffer, any number of messages, clients, descriptors and bytes,
and every interleaving. TLC has checked each inductive invariant on the instances
above before it was proved. All proofs follow one scheme: `Init => IInv`, a lemma per
action (or per conjunct) for `IInv /\ [Next]_vars => IInv'`, and `IInv => Property`.

| Component | Proved | Inductive invariant |
|---|---|---|
| buffer | `TypeOK`, `Exclusive`, `ReadsCommitted`, `AssertsHold`, `ReleaseMatchesRegion`, `EmptyAccepts`; the refinement `ImplementsFifo` | `IInv` of `BipartiteBuffer` |
| query log | `LogTypeOK`, `ExitFlushed`, `LogFaithful`, the action property `PieceByPiece` | `LogIInv`, then `FaithInv` |
| service | `TypeOK`, `WriterUsesLiving`, `ListenerKept`, `ReleasedOnce` | `IInv` of `Service` |
| reactor | `TypeOK`, `RegistrationsAgree`, `BacklogNoticed`, `ResetNoticed`, `ListenBounded`, `OnlyKnownLeaks` | `IInv` of `Reactor` |
| session | `TypeOK`, `IndicesMatchContent`, `PassedInOrder` | `IInv` of `Relay` |
| parser | `TypeOK`; `ParsedAsSent`, `RestKept` and `SettingsKept` for a `PlainClient`; lengths below 2^16 are decoded right; the loop over parameters makes `Settings` of every sequence of bytes | `IInv` of `Parser`, then `InPlace` and `Astray` |
| psql session | it is a session of `Relay` and its handler a `Parser`; `LoggedBeforePassed` for a `PlainClient` | `ProxyIInv` |

### Buffer

`BipartiteBufferProofs` proves the invariants for every `Size > 2`, every element
set and every set of request sizes, and `EmptyAccepts` for requests of at most half
the buffer. None of them is inductive: they say where regions are, but not how a
region that was chosen by an old value of the other side's index stays clear of it.
`IInv` has, besides `TypeOK`:

* `IndexInv`: `w <= i`, and a reader a lap behind is within `i`;
* `ProducerInv`: a region at `w` ends before `r` if `r` is ahead, and inside the
  array otherwise; a region at the start ends before `r`, which is on the
  writer's lap. The reader moves `r` only away from the region, or to 0 when it
  has read up to `i`, so both survive every step of the consumer. Between the two
  stores of `write_release`, `PendingInv` relates the `_i` already stored to the
  `_w` still to come;
* `ConsumerInv`: the region read is committed on the lap the reader is on, and a
  set `_read_wrapped` means `r = i`.

Assumptions: `SizeAssumption`, `RequestsAssumption`, and `AbandonAssumption` (a
region that is dropped is of the smallest size ever asked for). The last is needed:
`_write_wrapped` survives a dropped region, and a smaller request placed at `w`
would be released at the start. The one caller that drops regions, `io::channel`,
always asks for `CHUNK_SZ`.

`BufferRefinementProofs` proves `Spec => ImplementsFifo`. The queue is `Content`,
the elements from `r` to `w`, or from `r` to `i` and from 0 to `w`. `IInv` places
every access: a copy is outside `Content`; the store of `_i` does not move its end
while the reader is on the writer's lap; the store of `_w` appends the region; a
release of the reader removes the elements it copied; everything else stutters.

### Query log

`QueryLogProofs` reuses both: every access of the two threads to the buffer is an
action of `BipartiteBuffer`. `LogIInv` adds to the buffer's `IInv` what the threads
have in hand (`PieceInv`: what has been copied into the region is the beginning of
the piece; `MessageInv`: where `_add_message` is in its message; `GotInv`), and how
the writer ends (`ExitInv`). From it and the refinement follows `PieceByPiece`: the
stream (log, then buffer) grows by whole pieces only. `LogFaithful` compares the
stream with what was handed in (`Handed`); together with "what was refused was handed
in" (`FaithInv`) it is kept by every such step. It is stated without recursion, as a
set of bytes and their order, so that it can be proved. Assumptions:
`ChunkAssumption` (the buffer is two chunks), `LengthsAssumption`,
`MessagesAssumption`, `PiecesAssumption` (the buffer may be asked for every length a
piece has), and `BytesAssumption` (the elements include the numbered bytes of
the messages).

### Service

`Places` ties the steps still to do and the objects alive to positions in `Order` and
`Locals`, `BuildInv` ties these two and the listener's state together while main is
building, `LoopInv` says that all of it exists in the loop, and `EndInv` what is left
while main unwinds. `Unwinding` says with what each destructor of the acceptor starts:
the one that closes with a descriptor that is registered and held, the base's with one
that is neither, so it does nothing; a listener that is open when no destructor is left
was refused by epoll. `EventInv` counts accept events against connections. `ClientsAssumption` is
all that is needed.

### Reactor

`RegistryInv` says of each descriptor how map, epoll, file and session go together.
The proof states it once per descriptor (`Agrees`), so that each action changes it at
one or two descriptors and keeps it at the others. `CountInv` bounds the sessions
by the clients that have arrived; `EventInv` says that only epoll makes events with
two flags, which is what `ListenBounded` needs: an event put back has one. `NoticedInv` is inductive because
an edge is cleared only when its event is made, and an accept event that is not put
back has found nobody waiting, or sets `failed`.

### Session

`CountInv`, `Increasing` and `SeenOnce` say where each byte read from a socket is: at
one position of one channel, behind smaller numbers. `PassedInOrder` follows from
them, but is not inductive: it does not exclude bytes that have not been read
yet. `RecvData` is the only action that adds bytes, at the end, with numbers above
all those taken before; a send moves bytes from a buffer to what the channel has
passed on, without changing the two in a row. `BusInv` types the steps still to be
taken. Indices enter only through `IndicesMatchContent`, for which the lemmas about
`BufferIndex` are used. `Relay` lets the handlers of a channel do anything, so this
holds for all three services.

### Parser

`TypeOK` holds for every client. `ParsedAsSent` and `RestKept` are proved for a
`PlainClient`: only its first message has no code, the other codes are not 0,
and each length field is right and below 2^16, or less than 4 (a length that cannot
be one, at which the handler waits for ever). Each hypothesis is needed. The byte
order of a longer length is guessed wrong (the bytes 0 1 0 0 of 65536 are read as
256); after a wrong length the bytes of a neighbour are part of the message; a second
message without a code, as after an SSL request, is read as one with a code
(`parser_ssl`). The clients of `parser_split` are plain (TLC evaluates this as an
assumption of `MCParser`).

`FollowInv` says that there is a number `h` such that either the handler has followed
the client through the first `h` messages (`Followed`: what it has in hand and what is
on the wire are exactly the bytes of the others, the log is their texts, and it does
not wait with a whole message in hand), or it has thrown on message `h + 1`, which is
not well formed and has arrived (`GivenUp`). `Reads` is the key lemma: if the input
begins with a message, the length, payload and rest that the handler computes are that
message's, whichever branch is running and wherever `recv` cut it. Its use of
`ShortLengthDecoded` is why lengths are bounded.

`AllBytes` and `Texts` join sequences of any number with `FlattenSeq`. What that
yields for a concatenation is proved by induction on the number of elements joined:
`SetInduction` derives induction, for a set of numbers instead of a predicate, from
the existence of minimal elements (`WFMin`, `NatLessThanWellFounded`).

`SettingsKept` needs three arguments. `ParametersAre`: after `n` bytes the loop holds the
bytes since the last zero, a string that has no partner yet if the zeros are odd in
number, and the pairs of the others (`Strung`); this is kept by one byte more (`ByteRead`), so that
for every sequence of bytes the loop makes exactly `Settings`. `SettingsFirst`: bytes
behind a sequence do not change its zeros or the strings between them, and `n` bytes
add at most `n` strings. `MakesNext`: a message about to be made, at a position where a
message of the client begins and the messages up to it are well formed, is the one
after those followed, so that `Reads` says what its payload is. The last would be false
if the handler could come back to such a position after a throw. `Astray` excludes
it: after a throw there is no more left to read than the messages from the malformed
one on, and the handler only reads on. It rests on `InPlace`: a piece is
parsed in place only while `_buffer` is empty, so no byte counts twice.

### Psql session

`ProxyParts` shows that a step of `Proxy` is a step of `Relay` or leaves its variables
alone, and the same for `Parser`. `Receive` calls the handler with as many bytes as
`recv` returned, which is what `Recv` of `Parser` allows. So the theorems about both
parts hold here. `ProxyIInv` is their two invariants and what ties them:

* `StepsInv`: each read of the channel from the client is followed by the handler;
* `CallInv`: while the handler is in a call, its step comes next, so no send, and no
  other read, is between two messages that it finds;
* `BytesInv`: what the channel has taken in (passed on or in its buffer) and what the
  client has still to send are together the bytes of its script.

`LoggedBeforePassed` could be broken only by a send, which by `CallInv` happens while
the handler is idle. What has been passed on is by `BytesInv` no longer on the wire, so
the messages in it have been received as a whole, and an idle handler has logged
those (`ReceivedIsLogged`, from Parser's `IInv`). That the bytes passed on are the
first ones of the script, and not just as many, is `PassedInOrder`. The theorem is about any script of a `PlainClient`, with messages of any number and length,
and the peers, the kernel, the handler's throws and resets of either connection
do as in `Relay`. TLC evaluates, as an assumption of `MCProxy`, that the scripts of
the run `proxy` are plain.

### Only model-checked

All invariants that the passing runs check are proved. What remains:

* Everything that must eventually happen: `EventuallyOnDisk` and `StopLeadsToExit`
  of the log; `EventuallyDelivered`, `FinishCloses` and `ResetCloses` of the session;
  `TerminateCloses` of the psql session; `AllAccepted` of the
  reactor; `StopEnds` of the service. Fairness is out of the prover's reach.

## 5. Not modelled

* Conversions of addresses (`v4`, `addrinfo`, `make_v4`), the errors' texts, debug
  output, the default values of arguments: no state, and no decision that the
  properties depend on. What can fail among them (`stoi`, `getaddrinfo`) fails in
  `Service` (`addresses`) and `Reactor` (`AcceptHalf`).
* The timeout of `epoll_wait`: a turn of the loop without events is a turn. (The
  comment on `wait_events` gives 0 msec as an infinite wait, while `epoll_wait`
  returns at once for 0; the services pass another value.)
* The limit on events per `epoll_wait`: a batch has every ready descriptor, of which
  the instances have fewer than the services' limit.
* Sessions that are alive when `main` returns. Their callbacks are in the bus, which
  their sockets own in turn; the cycle keeps all of them until the kernel closes
  the descriptors.
* A log file that cannot be opened: `sputn` then takes nothing, for ever, while
  `QueryLog` bounds how often it falls short.
* The clock of `file_writer` being set back.
* The bit operators and the printing of `flags`: masks are sets.
* What the build makes of the sources. `CMakeLists.txt:28-34` lists the sources of
  `src/echo` for the target `tcp_proxy`, so that the binary of this name is an echo
  server; the models are of the code under `tcp_proxy/`.

## 6. Plan

1. *(done)* buffer, its abstract queue, safety proofs; query log; session; reactor;
   parser.
2. *(done)* composition of session and parser; echo; the services from start to
   exit; epoll's failures; startup and status parameters.
3. *(done)* proofs: the buffer implements `Fifo`; the safety properties of
   `QueryLog`, `Service`, `Reactor` and `Relay`; those of `Parser`, for clients whose
   length fields can be trusted.
4. *(done)* proofs about the composition: `LoggedBeforePassed` of `Proxy`, from the
   invariants of `Relay` (where each byte is) and `Parser` (what has been logged of
   them); the parameters of startup and status messages.
5. Open: the liveness properties, which stay with TLC; one model of a session of
   `Proxy` that hands its queries to `QueryLog` (each is proved for itself, and they
   meet in one call, `_add_message`, that never waits).
