# Verification of Modbus_Protocol

TLA+ models of the Modbus library in `src/`, TLC runs on small instances of
them, and TLAPS proofs of their main properties for every value of the
constants. Paths below are relative to the repository root (`src/…`, `include/…`).

## 1. Inventory

The library is C with POSIX threads and sockets. Nothing is persisted.

| Component | State | Operations |
|---|---|---|
| PDU layer, `src/modbus_pdu.c` | none | request builders, response check, bit and register codecs, dispatch of a request to the application's callbacks |
| TCP client, `src/modbus_tcp_client.c` | `initialized`, mutex, socket, TID, unit id | connect, disconnect, set_unit_id, eight read and write functions over `transact()` |
| TCP transport, listen mode, `src/modbus_tcp.c` | `initialized`, `keep_running`, listening socket, client slots, server thread | start, stop, the thread's select / accept / process loop, `on_link` |
| TCP server, `src/modbus_tcp_server.c` | configuration | `server_on_process`: receive a frame, filter, dispatch, reply |
| TCP transport, connect mode, `src/modbus_tcp.c` | stream socket, thread | connect with retry, reconnect, `mb_tcp_connect` |
| TCP frame builders, `src/modbus_tcp.c` | none | `mb_tcp_build_*`, `mb_tcp_parse_request` |
| RTU transport, `src/modbus_rtu.c` | serial descriptor, thread | open, close, start, stop, CRC-16, T3.5 timing, builders |
| RTU client, `src/modbus_rtu_client.c` | registry of shared buses (mutex, reference count, last transaction), context mutex | connect, disconnect, `transact()` with bus silence, probe |
| RTU server, `src/modbus_rtu_server.c` | receive buffer, time of last byte | frame extraction and resynchronisation, timeouts, echo removal, reply |

How they interact: the client and server APIs call the PDU layer to build and
check messages; the TCP server API is the `on_process` callback of the
transport thread; the application's callbacks run on that thread. Threads of
the application share a client context through its mutex. Several RTU contexts
share one serial bus through the registry. The RTU server API is the `on_process`
callback of the RTU transport thread, as the TCP one is of its own; in connect mode
the TCP transport calls an `on_process` of the application, which may build its frames
with the builders on the shared context.

What is hard to test here:

* replies that arrive after their request has timed out, and the wrap of the TID;
* frames abandoned half way, after which the byte stream is out of step;
* disconnect and stop, which tear down what other threads are using;
* one server thread for all clients: a blocking call on one holds up the others;
* a serial line that carries everybody's frames, on which a frame ends only where its
  bytes, its CRC or a timeout say so, and on which one's own bytes may come back;
* descriptor numbers that the process reuses while another thread still holds the old one;
* the limits (address 65535, 125/123/2000/1968 items, one-byte counts, slots).

For each component, what makes it correct: the PDU layer calls callbacks only
with safe ranges, and client and server agree; the client gives each caller the
reply to its own request and never reads a stream it cannot trust; the server
serves accepted clients, keeps slots, sockets and link reports consistent, and
stops cleanly from every state; the RTU server executes exactly the requests it was
sent; the connect-mode thread keeps one link up and gives up only what is its own. The full list of hazards, each at its line, is
under `hazards` in `PROJECT.json`.

## 2. Modules

| Module | Models |
|---|---|
| `ModbusPdu` | the PDU layer as operators |
| `PduExchange` | one exchange: client function, dispatch, response check; also foreign clients and servers |
| `ModbusFrames` | CRC-16, timing, RTU and MBAP frame builders and parsers as operators on bytes |
| `SerialService` | abstract specification: callers are served one at a time on a channel, and every call comes back |
| `TcpClient` | the client context, its threads, the connection and the server behind it |
| `TcpServer` | the server thread with its frame handler, the stopping application, the peers |
| `RtuClient` | RTU client contexts, the registry of shared buses, the bus and its slaves |
| `RtuServer` | the RTU server and its transport thread, the application, the line byte by byte |
| `TcpConnect` | connect mode of the TCP transport, the frame builders' shared counter, descriptor numbers |
| `MC*` | instances for TLC |
| `PduExchangeProofs`, `ModbusFramesProofs`, `TcpClientProofs`, `TcpServerProofs`, `TcpConnectProofs`, `RtuClientProofs`, `RtuServerProofs` | theorems about the module they are named after |
| `RtuTrafficProofs` | further theorems about `RtuServer`: what happens to the requests on the line |

`RtuServer` and `TcpConnect` extend `ModbusFrames`, which extends `ModbusPdu`; `TcpClient` and
`RtuClient` instantiate `SerialService`. In the modules some definitions are preceded by a
faulty form (`next_tid_stuck`, `range_overflows_late`, …). No specification uses
them; `PROJECT.json` lists which property fails when the faulty form replaces
the definition.

### PDU layer

A PDU is a record of its fields and its length. Sixteen-bit fields are numbers
in `0..65535`; one-byte counts are cut with `% 256`; data are functions from
indices to values and are really packed and unpacked (coils eight to a byte,
registers as two bytes). `handle_request` returns the response together with the
callback invocation. `PduExchange` adds the argument checks of the client
functions. The client functions of RTU and TCP are the same at this level;
the map names the TCP ones.

A foreign PDU has any function code, address, field, byte count and length from
the constants; its data bytes are uniform, since no property depends on them.

### TCP client

`pc` says where a thread is in its call: `lock` (about to lock the mutex),
`locked`, `wait` (in the receive loop), `finish` (loop left, mutex still held),
and the corresponding steps of disconnect and set_unit_id. A step between two
points where another thread can observe or change something is one action.

* The code knows a request by its TID. The model also numbers the requests of a
  connection (`seq`); only properties look at the number.
* `MaxTid` stands for `UINT16_MAX`.
* A reply is abstracted to its classification: good, exception, malformed, other
  protocol, invalid length, cut off. `aligned` records whether the next unread
  byte begins a frame.
* Time is a deadline that may pass whenever the code looks at it (`Timeout`).
* The server answers a request once, over and over, late or never, in any order, and
  echoes the TID; so a thread may be given frames with foreign TIDs until its deadline.
  `MaxBuffered` bounds the replies that wait to be read. The link may break at any time.
* A send may fail on a live link as well: the socket has `SO_SNDTIMEO`, and a server that
  does not read fills its buffers.
* Locking a destroyed mutex is undefined: the model lets the caller have it or go
  on without it.
* `DisconnectWhileQueued` says whether the application calls disconnect while a
  request that has already started is blocked on the mutex.

### TCP server

A connection stands for its socket. `conn` is its life as the server sees it:
`new`, `backlog`, `accepted` (not yet in a slot), `open`, `shut` (by `mb_tcp_stop`), `closed` (by the thread), `stopped`
(closed by `mb_tcp_stop` itself, without `on_link`). `thread` is the position in
`mb_tcp_server_thread`: `top`, `select`, `scan` (idle check), `accept`, `place` (a socket
is accepted and `mb_tcp_stop` cannot see it yet), `process`,
`recv` and `send` inside `server_on_process`, `exit`. `stop` and `scan` are the
position of the application in `mb_tcp_stop`, one action per slot it walks, because
the thread changes slots meanwhile.

* A frame is what `server_on_process` makes of it: a request, a frame it ignores
  (other protocol or unit), one with an invalid length, one that never completes.
  How a request is answered is `PduExchange`'s subject.
* A peer in `SlowConns` may stop reading, and holds the thread in `send()`.
* `Signals` allows `select()` to be interrupted while nothing is readable. The code
  then uses the descriptor set it built; `accept()` on the blocking listening
  socket waits until a connection comes or `mb_tcp_stop` shuts the socket down.
* A connection may also be refused with a slot free: its descriptor may be
  `FD_SETSIZE` or larger.
* `accept()` fails because the listening socket was shut down, because the peer has gone, or
  for lack of descriptors or memory (EMFILE, ENFILE, ENOMEM); in the last case the connection
  stays in the backlog, and the next `select()` returns at once. A failed accept and a
  refused connection both cut the round short: the `continue` skips the client loop
  (`RoundCutShort`).
* A peer may connect again under a connection that the thread has closed, as its descriptor
  number is free for the next one. So there is no end to the connections peers can make.
* Left out: errors of `select()` other than EINTR, keep-alive (it shows as a peer that
  closes), which number a descriptor gets (`TcpConnect` has the numbers), failures of `malloc`
  and `pthread_mutex_init` (they return before anything is started).

### RTU client and shared bus

Threads use contexts; a context points to the bus record of its device. A record is
named by its registry key, the canonical path. The registry lock covers look-up,
opening and counting and nothing blocks while it is held, so attach and detach are one
step each. `pc` follows `transact()`: `lock`, `locked` (has the context's mutex),
`silence` (has the bus mutex too), `flush`, `send`, `echo`, `sent` (receiving),
`return`; and the steps of disconnect and set_unit_id. The two unlocks at the end of a
transaction are one step with what precedes them.

* Serial settings are represented by the baud rate, with its default; a request by its
  function code and its `shape`, what `mb_pdu_check_response` compares beyond it.
* Time is counted in ticks since the last transaction on a device (`quiet`), as far as
  configured silences tell them apart. Response deadlines may pass at any time.
* A slave answers a request at most once, late or never, well or garbled. What is
  left of a frame the client gives up may still arrive, also after the next flush. No
  garbled frame has a valid CRC.
* `seq` numbers the transactions of a device and a frame keeps the number that was
  current when it arrived; only properties look at them. `last` records the last
  transaction on the device beyond the life of the bus record, for the same purpose.
* The echo of a local-echo transceiver comes back whole or garbled. The TX-enable hook
  is called inside `Send`.
* Left out: failures of `calloc` and `pthread_mutex_init`, and paths that `realpath` cannot
  resolve but `open` can.

### The abstract service

`SerialService` has one variable, the place of each caller: outside a call, queued, on a
channel, or over (about to return). A caller gets on a channel only from the queue and
only when the channel is free, and every call returns. `TcpClient` implements it with its
connection as the only channel, and a disconnect as one of the calls that need it.
`RtuClient` implements it with a channel for each serial device: whichever context and
path a thread uses, it is on the channel of the device. `Place` in both modules is the
refinement mapping. `ServesInTurn` is the safety half, `ImplementsService` the whole.

### RTU server

The line is one sequence of bytes, in the kernel or still on the wire; a read gets any
prefix of it (`ReadSizes`, everything, or as much as there is room for). Frames are built
by the library's own builders with their real CRC, so that what one slave's reply looks
like to another is decided by its bytes. `thread` is the position in `server_on_process`:
`top` (between two calls), `handle`, `silence`, `send`, `echo`, and `exit`.

* `Poll` is `server_on_process` up to a request for this unit: the assembly timeout, the
  read, `extract_request_frame`, the filters. `Handle` runs the callback through
  `ModbusPdu!handle_request` and forms the response.
* Time is in ticks of `TickUs`; ages of the last byte and of the request are kept, as far
  as the timeout and the silence tell them apart. A tick is longer than a frame and than
  the 1 ms poll interval. `Slow` allows a callback or a write to take longer.
* `SendFrame` is `write_all` and `tcdrain`. Neither the `select()` in `write_all` nor `tcdrain` has a
  timeout, so the thread may stay in `send` for ever.
* The master sends requests without waiting for a line turn-around; another slave answers
  what is addressed to it, a read with the registers `OtherData`. On a line with local echo others wait until this server is
  silent unless `Impatient`.
* `MaxNoise` bounds damaged and lost bytes, and failed drains. `disturbed` is set by them
  until the server has nothing in its buffers.
* `sent` and `executed` are what the properties compare; they are forgotten whenever the
  server has nothing in its buffers when the master sends.
* Left out: a write that fails after part of the reply has left; framing and parity errors
  other than as a damaged or lost byte.

### Connect mode and the builders

Descriptors are numbers; `fd` says what each stands for: free, the link (open or shut
down), or a descriptor of another part of the program (also possibly shut down, by
mistake). `socket()` and the others get the lowest free number. `thread` follows
`mb_tcp_client_thread` into `mb_tcp_connect`: between `connect` and `publish` the socket is
known to the thread only, between `close` and `clear` the number is given back and still
in `stream_sock`. `mb_tcp_stop` reads `stream_sock`, shuts that number down, joins, and
reads `stream_sock` again.

* The builders are called by the client thread inside `on_process` and by the application
  thread between start and stop. The increment of `ctx->tid` under `ctx->lock` is a load
  and a store, so that the lock matters. The frames are those of `ModbusFrames`.
* `recent`, the last `MaxTid` transaction ids, exists for `TidsDistinct` only. `MaxTid` is
  `UINT16_MAX`.
* `on_process` returns: the timeouts that `mb_tcp_connect` sets on the socket bound what a
  callback waits for. The retry wait ends, early or not.
* Left out: the values of socket options and timeouts; descriptors of `FD_SETSIZE` and more.

## 3. Runs

| Run | Instance | Shows |
|---|---|---|
| `tcp_client` | 2 threads, 2 units, TIDs 1..2, 4 calls, 1 unread reply, repeated replies, fairness | `OwnReply`, `TrustedStream`, `OneInFlight`, `NoDestroyedMutex`, `ClosedForCause`, `ImplementsService` |
| `pdu_exchange` | each quantity limit and its neighbours, ranges that end at 65535 and beyond | `SafeCallback`, `Agreement`, `DataIntact`, `ResponseExact`, `SuccessIsExact` |
| `tcp_server` | 3 peers, 2 slots, symmetric peers | `StopClosesAll`, `LinkAgrees`, `SlotsExact`, `CalledWhenReadable`, `HealthyKept` |
| `tcp_server_signals` | 2 peers that may not read and that come back, 2 slots, 2 starts, signals, failing accepts, fairness | `StopReturns`, `Served` |
| `tcp_server_interrupted` | 2 peers, 2 slots, signals | `CalledWhenReadable` fails |
| `tcp_server_link_down` | 2 peers, 2 slots | `StopReportsDown` fails |
| `tcp_connect` | 3 descriptor numbers, TIDs 1..3, 6 builder calls (2 of them refused), 2 starts, fairness | `LinkExact`, `LockAlive`, `TidsDistinct`, `RoundTrip`, `ClosesOwnOnly`, `StopReturns`, `Reconnects` |
| `rtu_client` | 2 threads, 2 contexts, 1 device under 2 paths, 2 baud rates, 2 units, 4 calls, symmetric threads | `ServesInTurn`, `RefcntExact`, `SettingsShared`, `Silence`, `ContextAlive` |
| `rtu_client_replies` | 2 threads, 1 context, 3 kinds of request, units 0 and 1, local echo, 3 calls, fairness | `FreshReply`, `ImplementsService` |
| `rtu_client_queued` | disconnect with a queued request | `ContextAlive` fails |
| `rtu_server` | 2 requests out of 3 (own, broadcast, another slave's), a reply of another slave that spells a request, with and without echo, 1 damaged byte or failed drain, buffer of 12 bytes, fairness | `Authentic`, `NothingMissed`, `NeverWedged`, `BufferDrains`, `StopReturns` |
| `rtu_server_foreign` | a write-multiple to another slave and a read of this one, buffer of 256 bytes | `NothingMissed` fails |

Why the bounds are enough: four calls allow a connect, a timed-out request, and two
more that wrap the TID space of two and meet the late reply, or a disconnect or a unit
change in place of one of them. One unread reply suffices because the server chooses which
request it answers next, and how often. Three peers on two slots fill the
table, are refused, and reuse a slot another has left. One frame per peer
suffices because frames on a connection are handled one per round and independently;
two starts show what a restart inherits. For `Served` two peers on two slots are enough: one is
served, the other holds the thread, or comes back again and again, or is refused for its
descriptor. On the RTU bus four calls allow two connects
and two requests, of which one is answered late, or a disconnect beside a request of
the other context; the default and the configured silence of the two contexts differ. The quantity limits are the code's own
numbers, not scaled down. On the serial line two requests and a reply of another slave
are what can meet in the buffer; the buffer is scaled down to 12 bytes, one more than the
longest request of the instance, so that it fills. Three descriptor numbers let the link,
its successor and a stranger exist at once; two starts show what a restart inherits.

Fairness: a thread inside a library call keeps running, gets a mutex that is
released, and its deadline arrives (`TcpClient!Fairness`, weak fairness per thread, and of
`Timeout` by itself: the deadline is fixed before the receive loop and looked at before
every frame, so frames for others do not put it off);
the server thread and the stopping thread keep running, except that the server
thread need not leave `send()` to a peer in `SlowConns` (`TcpServer!Fairness`).
The same holds of threads in RTU calls, and time passes (`RtuClient!Fairness`; a client's
untimed write and `tcdrain` are assumed to return). The RTU server thread polls a
non-blocking descriptor, so no read holds it, but `write_all` and `tcdrain` may: it need not
leave `send` (`RtuServer!Fairness`), and `BufferDrains` and `StopReturns` have the premise that
it is never there for ever (`PortTakesBytes`). In `TcpConnect` the two threads keep running; only for `Reconnects` is the remote end
assumed to accept an attempt some time, if there are more and more of them (strong
fairness of `ConnectSucceeds`), and `socket()` to succeed some time when a number is free.
Otherwise peers, servers, slaves, networks and signals are never fair. `Served` has the
premise that the thread is not blocked for ever in `send()` to a peer that does not read,
or in the `accept()` that an interrupted `select()` leads to, and the premise that rounds are not cut
short for ever.

### What the violation runs show

* `tcp_server_link_down`: `mb_tcp_stop` closes the remaining sockets without
  `on_link(fd, 0)`, so the connection counter of the server guide stays positive
  after the server has stopped.
* `tcp_server_interrupted`: after EINTR the thread treats every socket as readable.
  It blocks in `accept()`, then in `recv()` on an idle client until the receive
  timeout, and closes that client.
* `rtu_client_queued`: `include/modbus_rtu_client.h` says disconnect waits for an
  in-flight request and only asks that no thread *start* one during or after it.
  A thread that started before, and is blocked in `pthread_mutex_lock`, goes on when
  disconnect has unlocked the mutex, which disconnect destroys meanwhile; and
  `transact()` does not look again whether the context still has a bus, and
  dereferences NULL. The TCP client destroys its mutex in the same way, but checks its
  socket under the mutex.
* `rtu_server_foreign`: another slave's reply to a write-multiple is 8 bytes long, but the
  length rule for requests takes the low byte of its CRC for a byte count. The server
  waits for the rest of a frame that does not exist, and the next request is swallowed as
  part of it, until the assembly timeout drops both. `include/modbus_rtu_server.h` says
  such frames "are skipped byte by byte until a valid request is found".

### Exceptions written into properties

Where the code falls short of what one would like to say, the property that is checked
names the exception, and fails without it:

* `Silence`: only while the port has stayed open. `include/modbus_rtu_client.h` measures the
  silence from the previous transaction *on the path*, but the record of it is freed when
  the last context disconnects, and the first request after a reconnect is sent at once.
* `ClosedForCause`: a request that cannot be sent is a cause, also on a live link in step.
  `SO_SNDTIMEO` makes `send()` fail with EAGAIN when the server does not read, and `transact()`
  closes the socket.
* `Served`: not if rounds are cut short again and again. As long as the process has no descriptor
  left for a waiting connection, or peers connect and are refused without end, every round ends at
  the `continue` after `accept()`, and no connected client is served.
* `Authentic`: a request that lies whole in another slave's reply is executed. Resynchronisation
  goes on byte by byte after a frame that is none, so the registers in a read reply that spell a
  request for this unit, with its CRC, are one. `Traced` allows such requests beside the ones that
  were sent, and the run `rtu_server` has them.
* `BufferDrains` and `StopReturns` of the RTU server: not if the port never takes the bytes of a reply.
* `Authentic`: not after a failed drain. When `tcdrain` fails with the whole reply written (a
  signal is enough), `discard_echo` is skipped; the echo of a write-single reply is a
  valid request for this unit and is executed again.
* `NothingMissed` is checked on a line without three kinds of traffic. One is that of
  `rtu_server_foreign`. The second: a reply of 7 bytes (one register read from another
  slave) followed by a zero byte is itself a valid 8-byte frame, since the CRC of a frame
  with its CRC is 0. A broadcast, which begins with a zero byte, loses that byte to it and
  is missed. The third: a read reply of another slave with a data byte 0x0F or 0x10 where
  resynchronisation takes it for a function code; five bytes further the length rule finds a byte
  count and waits for, and swallows, as many bytes of what follows. And it is checked with
  callbacks that return within a tick, and with others that wait until this server is silent:
  after a slow callback the assembly timeout is applied before the bytes that have arrived
  meanwhile are read, and the first bytes of a request are dropped (`Slow = TRUE`); with
  `Impatient = TRUE` and local echo, `discard_echo` takes bytes of a request for its own.
* `ClosesOwnOnly` says nothing of `shutdown()`: in the window between `close(sock)` and
  `stream_sock = -1`, and between reading `stream_sock` and the call, `mb_tcp_stop` may shut
  down a descriptor that has become somebody else's.
* `LinkAgrees` of the TCP server: not for connections that `mb_tcp_stop` closed.

## 4. Proofs

All theorems are checked by TLAPS without further assumptions than the named
`ASSUME`s of the modules. Most are the types of the constants. Those that say more:
`RtuClient!PathAssumption` (`realpath` is idempotent), `RtuClient!NamesAssumption` (finitely many
contexts; sentinels are no members of the sets), `TcpConnect!RequestsAssumption` (a builder
is called with arguments of its C types), `RtuServer!RequestAssumption` and `CapAssumption` (no
request is shorter, and the buffer is not smaller, than the shortest request the
protocol has, 8 bytes; the code's buffer has 256).

**PduExchangeProofs.** `CallbacksAreSafe`, `ClientAndServerAgree`, `SuccessesAreExact`,
`ResponsesAreExact`, `DataSurvives` for all 16-bit addresses and fields, all lengths up to
253, all byte values and all callback return codes. `ExchangeInv` records what each
phase knows of the request: its form if the library built it, its ranges if it did not.
`DataInv` adds where the values are: `Faithful` says that what unpacking the request
delivers is what the client gave, and the same of the response and what the callback
supplied. It rests on codec lemmas: packing bits and unpacking them, and splitting
registers into bytes and joining them, give the values back at every quantity.

**ModbusFramesProofs.** Byte-level lemmas on fields, concatenations and frames, and
`RtuRequestsRoundTrip`: whatever arguments the RTU builders accept, the frame's CRC validates
and `mb_rtu_parse_request` returns the arguments. The CRC is a loop over the bytes, so this
needs induction, and a recursive function is known by its equation only once it is
shown to exist. The induction theorems of the library cannot be instantiated here;
the module derives what it needs from the well-foundedness of strict inclusion of
finite sets: `Least` (a set of naturals has a least element), `AllAlong` (what the first
step has and each step hands on, all have) and `Recursion` (the steps of a loop exist).
From these `CrcRecursion` and `CrcWord`: after every byte the CRC is a 16-bit word.
`DamagedByteIsNoticed`: of two frames that differ in one byte, of any length and in any place,
`mb_rtu_validate_crc` accepts at most one. Each step of the CRC is one-to-one: in the byte that
goes in (`XorOneToOne`), and in the word that is shifted, where the bit that falls out can be
read off the top bit of the result, which only the polynomial sets (`ShiftOneToOne`). So two CRCs
that differ after the damaged byte still differ at the end (`CrcKeepsApart`); if the damaged byte
is one of the CRC's own, the computed one is the same and the two words read from the frames differ.

**TcpClientProofs.** The inductive invariant `IInv` has four parts: `TypeOK`;
`MutexInv` (who is past the mutex owns it, a call in progress keeps the context
initialised, a disconnect in progress excludes queued calls); `StreamInv` (a stream
out of step belongs to a thread that is about to close the socket, and a thread closes it after
a receive only if it is out of step or the link is down); `TidInv` (a request or
reply less than a cycle old has the TID that counting back from the context's
TID, with the wrap, gives). `OwnReply` alone is not inductive: it needs `TidInv` for
messages nobody has read yet. `TypeCorrect` holds unconditionally; the other
theorems assume `DisconnectWhileQueued = FALSE`; for what happens without it, see
`rtu_client_queued` above. `ServesInTurn`: the client implements the safety half of
`SerialService`; each action maps to a step of the service or to a stutter.

**TcpServerProofs.** The inductive invariant `IInv` of `TcpServer` ties the phases of
the two threads together (`LifeInv`), the kernel's backlog to the connections in it
(`BacklogInv`), and the slots to the sockets and the link reports (`SlotsExact`,
`LinkAgrees`). `ReadyInv` adds, when signals are excluded, that every socket the
process loop has yet to look at and that is in `readfds` is still readable; it needs that
`readfds` never names a connection accepted after `select()`.

**TcpConnectProofs.** `IInv` has, beside `TypeOK`: `LifeInv` (the lock lives exactly from start
to the end of stop, a builder is at work only in between); `SockInv` (the position of the
thread tells whether it has a socket, whether `mb_tcp_stop` can see it and whether it was
reported; no number that is ours is anywhere else); `DrawInv` (a builder between load and
store holds the lock and has seen the current id, and counting back from it, with
the wrap, gives the ids drawn before: this is what makes `TidsDistinct` inductive);
`FrameInv` (a frame is what its builder makes of its arguments and of some id). `RoundTrip` then
follows from the frame lemmas for all arguments, and `ClosesOwnOnly` from `SockInv`: a
thread that closes a number still owns it.

**RtuClientProofs.** All theorems assume that no one disconnects while requests are queued
(`~DisconnectWhileQueued`; the run `rtu_client_queued` shows what happens otherwise). The inductive
invariant `IInv` has, beside `TypeOK`, `Silence` and `FreshReply`: `CtxInv` (a connected context has a
mutex, a bus and settings), `CallInv` and `LeaveInv` (a call in progress has a connected
context, and the mutex where it should; a disconnect is alone), `RefcntExact`, `PortInv` (the
port has the settings of each attached context), `HolderInv` (who is in a transaction
holds the bus), `LastInv` (while the port is open, its record knows the last transaction) and
`InputInv` (after the flush, everything in the input queue arrived during the current
transaction). `RefcntExact` needs cardinalities of sets of contexts: attaching adds one
element, detaching removes one. `Silence` is inductive only with `HolderInv`: no
other transaction can end on the device after a thread has waited for the silence. `ServesDevicesInTurn`: the clients implement the
safety half of `SerialService` with a channel for every device; that a channel is taken
only when free is again `HolderInv`, for threads on different contexts and paths.

**RtuServerProofs.** What the loop of `extract_request_frame` computes, for every buffer
content (`Extracts`): it ends, at the latest with an empty buffer, and what it yields is a
whole request with a right CRC. `BuiltRequestsAreFound`: the builders' frames are extracted whole,
whatever follows them, for all arguments; so the library's own master and server agree
on where a request ends. `ResponseBytes`: every request is answered with a frame
that fits, so `append_crc` never refuses a response. `IInv` is `TypeOK`, `LifeInv` (there is a
thread exactly while the application has started one), `AduInv` (the request being
handled is whole and for this server) and `OnlyWholeRequests` (so were all executed ones,
under the configuration of this start). `NeverWedged` follows from `TypeOK` for every size of
the buffer. `DamagedByteNeverExecuted` joins `OnlyWholeRequests` and `DamagedByteIsNoticed`: whatever the
line carries, no executed request is a valid frame with one byte changed.

**RtuTrafficProofs.** `NothingIsMissed` and `UndisturbedIsAuthentic`: if nothing was damaged since its
buffers were last empty, the server executes the requests it was sent, each once and in order, for every set of requests, every
size of the buffer and of a read, every configuration and every number of frames and starts.
`UndisturbedIsAuthentic` says more than `Authentic`: on these lines nothing is taken out of
another slave's reply (`Embeds`). Section 3 shows that neither can be said of every line. The theorems have two hypotheses,
on the constants only:

* `PromptLine`: callbacks and writes take no longer than a tick, nobody sends into the server's
  transmission, and the silence before a response is not longer than the assembly timeout.
  With `Slow` the assembly timeout is applied before the waiting bytes are read; with
  `Impatient` the echo and a request are mixed.
* `WholeTraffic`: every request is a whole frame, and it is a broadcast, or for this server under
  every configuration, or the other slave's reply to it also reads as a whole request. This is
  what the code's rule for the length of a frame needs to stay in step.
  `PlainTrafficIsWhole` says what it includes: a line with this server as the only slave, and
  other slaves that are written one register or coil at a time, whose reply is the request over
  again.

The two properties are not inductive. The invariant `TrafficInv` accounts for every request:
`FlowInv` says that the requests executed, the one being handled and those among the bytes in
the buffer and on the line are, together and in order, the ones sent for this server. The
bytes are a sequence of whole frames, the first of which may be in the buffer in part (`Flows`,
`IsStream`); `extract_request_frame` takes a whole frame from the front of such a sequence or
waits. With local echo the line must be empty while the server answers, because
`discard_echo` removes as many bytes as were sent, whatever they are. `AuthInv` keeps
the part about executed requests across a stop, which drops what has not been read; `AskedInv`
says that the reply another slave still owes is to a request not meant for this server; `TimeInv`
that a frame that is in the buffer in part is younger than the assembly timeout, so the timeout drops none;
`StartInv` that nothing is on the line before the first request. TLC checked the step of this invariant
on small instances before it was proved.

Only model-checked:

* liveness (`Responsive` in `ImplementsService`, `Served`, `StopReturns`, `BufferDrains`,
  `Reconnects`), which is out of the prover's reach;
* `Authentic` on a line that was damaged, and `Authentic` and `NothingMissed` where other slaves are read
  from (the run `rtu_server` has noise and such a read). Whether a piece of one frame, or of
  frame and noise, is itself a frame with a right CRC depends on the bytes, and section 3
  gives traffic on which the properties fail. For every line, damaged or not, what is proved is
  `OnlyWholeRequests` and `NoDamagedByteExecuted`.

## 5. Plan

Done: all components of the library are modelled and model-checked; every safety
property of the runs is proved, `Authentic` and `NothingMissed` for the lines described above; and
both refinements of `SerialService` are proved for safety. Left, in this order:

1. That the response of the RTU server is one the RTU client accepts (`ResponseBytes` together
   with the response check).
2. Damage to more than one byte: bursts of up to 16 bits, from the linearity of `crc16`.
3. Other slaves that are read from: which replies keep the extraction in step.

## 6. Not modelled

The setup of the serial port (`configure_serial`, `configure_rs485`) and of sockets, which is
I/O; logging and option defaults other than those of timing; `mb_rtu_client_probe_device`,
which only calls a modelled function; the examples, which demonstrate the API.
