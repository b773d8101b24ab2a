# Sys-Work: TLA+ models, checks and proofs

Sys-Work is a collection of operating-systems exercises in C (producers and consumers over System V
shared memory, two versions of the dining philosophers, a character-device module, a web server, two
copy programs) that carries a copy of mongoose 6, an embedded networking library, beside its web
server. The exercises are small programs whose difficulty lies in what runs beside them: another
process, the kernel, a signal, a client that leaves. Mongoose is an event-driven program whose
difficulty lies in what its handlers find when they are called: half a message, a connection that is
about to be freed, an answer to a question that was withdrawn.
This directory models them in TLA+, checks the models with TLC, and proves the main properties of
the process and thread programs, the device, the web server, and of mongoose's event manager, resolver and MQTT broker
with TLAPS.

Paths such as `product.c:94` are relative to the program's directory under `src/`; a number alone in
the parts about mongoose is a line of `src/web/moogoose/mongoose.c`.

## 1. Inventory

### The exercises

| Component | State it keeps | Operations | What is hard |
|---|---|---|---|
| `pc/product.c`, producer process | three semaphores (keys 0x1111 to 0x1113), the `BufferPool` segment (key 1246), its own `index` and `Product` | initialise the semaphores, attach and clear the pool, read a product, wait for a permit, scan for a free buffer, copy, notify, flag | interleaving with the consumer; notification before the flag; SEM_UNDO; kills and restarts; errors that `main` ignores |
| `pc/consume.c`, consumer process | the same objects, its own `index` and `consumer` array, `consumeN.txt` | attach, wait for a notification, scan for a full buffer, copy out, write out, signal, release | the same, and a larger idea of the segment's size |
| `philospher/philospher_mutex.c` | `mut[NUM]`, one thread per philosopher | four eating functions, thread creation | circular waits, philosopher `NUM` past the end of the array, a second lock of an owned mutex |
| `philospher/philospher_sema.c` | `chopstick[NUM]`, one thread per philosopher | one eating function, thread creation | the same circle, a semaphore no one initialises |
| `kernal/hellokernel.c`, `kernal/test.c`, `kernal/run.sh` | device number, cdev, class, node, `shared_buffer` | load, unload, open, read, write, close | the device is visible before it is ready; failures half-way; users on one buffer without a lock |
| `web/server.c` | listening socket, the accepted connection, open descriptors | accept, receive, open, stat, send, close | clients that leave; `exit` on any failure; descriptors that stay open |
| `cp/cp.c` | the file tree, the recursion of `DirToDir` | `ToFile` with four user choices, `DirToDir`, `main` | a copy that reads what it writes; results nobody looks at |
| `cp/multhread_cp.c` | a chain of processes | walk a directory, fork and exec for each entry | a child whose `execl` fails goes on with its parent's loop |
| `lab8/lab8.c`, `ls/myls.c`, `pc/producter_consumer.cpp`, `web/client.c`, `cpp_pattern/`, `jit.c` | - | - | not modelled, see section 8 |

**How they interact.** `product` and `consume` meet only in the kernel's objects: the semaphores
`visit_buff`, `consumer_info`, `productor_info` and the shared segment. Neither looks at the result
of a semaphore call. The philosophers meet in the array of chopsticks. `test.c` meets the module
through the device node, and other users of the node through `shared_buffer`; `run.sh` loads and
unloads the module under them. The server serves one connection at a time from the queue that
`listen` makes. `multhread_cp` executes `cp` for files and itself for directories. `web/client.c`
connects to port 8888 while the server listens on 8080, so these two never meet.

**What makes each part correct.**

- *Producer/consumer*: a product is never overwritten before it is taken, never taken twice, never
  torn, overtaken by less than a turn of the pool, and eventually delivered; the semaphores bound
  what is outstanding, and a kill takes no permit away.
- *Philosophers*: neighbours exclude each other, nobody waits in a circle, somebody always eats,
  chopsticks are conserved.
- *Device*: the buffer always holds a terminated string; a user alone reads back what it wrote; nothing
  of the module survives its removal.
- *Web server*: each client gets the response to its own request; the server stops only for a reason.
- *Copy*: the destination gets what the user chose, nothing else changes, nothing is left out, and it ends.

### Mongoose

| Component (lines) | State it keeps | Operations | What is hard |
|---|---|---|---|
| event manager and sockets (1986-3702) | the list of connections, their flags, buffers and timers, the control socket | `mg_mgr_poll`, bind, connect, send, `mg_set_timer`, `mg_broadcast`, `mg_mgr_free` | handlers close, open and flag connections while the list is walked; `select`'s result is old when it is used; partial reads and writes; connections that share a socket |
| asynchronous resolver (10598-10830) and `resolve_cb` (2604) | the request, and two connections that know of each other | ask, ask again, answer, give up | either connection may go first; answers that are late, lost, repeated |
| SNTP client (11870-12040) | attempts, timer | send, parse, time out | the same, and failures reported by two paths |
| DNS, CoAP (10170-11400) | none | compose, parse | lengths and offsets that the other side chose; messages cut short |
| MQTT and its broker (9590-10140) | sessions, subscriptions | connect, subscribe, publish, ping, close | framing one message per receipt; sessions that outlive connections |
| HTTP connection (4980-5770) | a protocol record: file, chunks, multipart stream, linked connection | request, reply, file transfer both ways, chunked bodies, close | everything arrives in pieces and every request may be the last |
| multipart and uploads (5770-6180, 7470-7590) | a stream with four states, a file | begin, part, data, end, abort | a boundary cut in two |
| websocket (8796-9060) | fragments kept in the receive buffer | frames in and out, ping, close | a size written over the bytes it counts |
| CGI, reverse proxy (6950-7045, 7850-8260) | pairs of linked connections, a block of variables | connect, pass on, end | which of the two is freed first |
| files, WebDAV, SSI (6750-8790) | none but the file system | GET, PUT, DELETE, MKCOL, MOVE, PROPFIND, pages | paths that are normalised, decoded and rewritten; steps that fail half-way |
| texts (4810-4960, 6380-6560, 9400-9530), addresses, digests | none | parse, match, encode | ends of strings, first and last elements |

**How they interact.** An application makes connections and polls. The manager reads into a connection's
buffer and calls its protocol handler, which frames messages and calls the application's handler, and
that one may send, flag, arm a timer or open connections on the spot. What the handlers have flagged takes
effect in the sweep at the end of the poll. The resolver, the SNTP client, the proxy and CGI are
applications of the manager themselves, with a connection of their own beside the user's.

**What makes each part correct.** *Manager*: the list holds the live connections, the life of each has an
order, streams are intact, what is flagged is closed and not before it has been sent, timers and
broadcasts are served. *Resolver, SNTP*: one answer per question, given to somebody who is still there,
and in the end there is one. *Broker*: sessions match connections, each publication is delivered once.
*HTTP*: the application is told what the client sent and the client gets the answers to its own requests,
nothing is left over, no pointer to a freed connection remains, files are whole. *Codecs and rules*: what is
written is read back, cut messages are refused, a path leads where the rules say.

`PROJECT.json` lists the hazards behind all these, each at its line.

## 2. Modules

| Module | Stands for |
|---|---|
| `SysVIpc` | semaphores with SEM_UNDO, `SETVAL`, process exit, the segment: the kernel as the two `pc` programs use it |
| `BufferPool` | what both `pc` programs share: the pool, control states, attaching, P and V with their results ignored, the head and the tail of the inner loop |
| `Product`, `Consume` | the two programs, one action per statement that touches shared state |
| `ProducerConsumer` | their composition with an operator who starts, kills, restarts and interrupts processes; the properties of `pc/` |
| `Handoff` | abstract specification: cells filled by one product at a time, emptied by its delivery |
| `Table` | philosophers, chopsticks, neighbours |
| `PhilosopherMutex`, `PhilosopherSema` | the two philosopher programs |
| `Dining` | abstract specification: philosophers with a chopstick in common never eat together |
| `HelloKernel` | the module, its loader and its users |
| `WebServer` | the server and the browsers |
| `Cp`, `MulthreadCp` | `cp.c`; `multhread_cp.c` composed with the `cp` it executes |
| `Mbuf` | mongoose's byte buffers |
| `EventManager` | `mg_mgr_poll` and everything that happens between two of its steps |
| `Sntp`, `Resolver` | the SNTP client; the resolver under it, with the network between |
| `DnsMessage`, `CoapMessage`, `MqttMessage` | the three codecs, byte by byte |
| `MqttBroker` | the broker, its protocol handler, its clients |
| `HttpMessage`, `Websocket` | framing of requests and chunks; the multipart stream with uploads; websocket frames: as functions of a connection record |
| `HttpServer` | a connection with its client, the linked connection and the server or program behind that; composes the three above |
| `CgiEnv` | the environment of a CGI program |
| `Uri`, `Patterns`, `Digest` | texts: URIs and coding; patterns, access lists, addresses and hosts; base64 and the blocks of MD5 and SHA1 |
| `FileServer`, `ServeHttp`, `Ssi` | `mg_serve_http` as a function of a tree of files: rules for paths, passwords and dates; changes of the tree; answers; pages put together |
| `MC...` | definitions that the `.cfg` files substitute for constants; `MCFiles`, `MCHttp`, `MCResolver`, `MCMqttBroker` also state what the pure functions are to do over bounded inputs |
| `PhilosopherMutexProofs`, `PhilosopherSemaProofs`, `ProducerConsumerProofs`, `HelloKernelProofs`, `WebServerProofs`, `ResolverBrokerProofs`, `EventManagerProofs`, `MulthreadCpProofs` | the proofs; those of the resolver and of the MQTT broker, which have nothing in common, share one module |

An operator whose comment begins with *Mutant* is a plausible mistake in the operator below it. No
specification uses it; replacing the right definition by it makes TLC report the property it is
listed with in `PROJECT.json`, which shows that the property depends on that piece of code.

### Correspondence with the code

*State.* In `pc`, `semval`/`semadj` are the kernel's values and undo sums, `shm` is the size with
which the segment was made, measured in the flags it spans (`product.c:22` declares `stat[NUM]`,
`consume.c:22` `stat[BUFFER_NUM]`), `buffer` and `stat` are the pool, `index`, `local`, `pc` belong to each
process, `sink` is `consumeN.txt`. `older`, `passed`, `written`, `faults` are history variables. A product is
two halves, so a torn `memcpy` can be seen. In the philosopher modules `mut`/`chopstick` are the
arrays and `pc` the place in the eating function; `eat` fixes, for a whole behaviour, which of the four
functions `philospher()` calls (the source calls `eat_change_lock`, the other calls are comments). In
`HelloKernel`, `registered` is what the kernel knows of the device (number, cdev, class, node) and
`shared_buffer` is copied byte by byte; `hello_exit` is one step, since nobody can open the device any more. In `WebServer`, `fds` counts descriptors, `conn`, `asked`, `got`
are the clients. In `Cp`, `tree` is the file system, `frames` the stack of `DirToDir`, `job` the running
`ToFile`; `walkers` in `MulthreadCp` is the chain of processes that wait for one another.

*Atomicity.* One action is at most one system call or one access to shared memory. The check of
`stat[index]`, each half of the copy, the notification and the setting of the flag are therefore
separate steps.

*Things the code does that are easy to miss, and are modelled:*

- Every `semop` carries SEM_UNDO. The undo sums of `productor_info` and `consumer_info` are never
  balanced within a process, so they grow by one per product until `semop` fails with ERANGE
  (`SEMVMX`); `main` ignores that and goes on. `SemP`, `SemV` keep these sums and their limits.
- A stopped and continued process gets EINTR from `semop`, which `main` takes for success (`Interrupt`).
- `init_sem` (`product.c:43`) hands IPC_STAT a half-initialised union; `IpcStatFaults` says which outcomes
  are considered, the usual EFAULT or a success after which SETVAL is skipped.
- `index` is a local of each process and survives from one product to the next.
- Philosophers are numbered from 1 and use `mut[x]` and `mut[(x+1)%NUM]`, so that the last one uses an
  element past the end of the array. In the binaries kept beside the sources the array is the last
  object of `.bss` and the element lies in zeroed memory of the same page: an unlocked mutex, a semaphore
  with value 0. `Table` gives it number `NUM`. The ring is therefore a chain.
- `class_create` and `device_create` return error pointers, never NULL, so `hellokernel.c:91` and `:95` do
  not see their failures (`CreateClass`, `CreateDevice`).
- `stat(dst, NULL)` (`cp.c:100`) always fails; an answer that is neither yes nor no leads to a plain copy
  without truncation (`cp.c:47`).


*State, mongoose.* In `EventManager`, `conn` is the struct, `list` is `mgr->active_connections`, `sock` what the kernel
holds for its descriptor (connecting, up, refused, reset; bytes each way; the backlog of a listener), `holder` whose socket the number
of a descriptor stands for since the kernel gave it away again, `buf` whether the memory of `recv_mbuf` is still the connection's, `pc`, `cur` and
`next` are the place in `mg_socket_if_poll` with the saved pointer `tmp`, `fds` is what `select` returned and the time it was
taken. Bytes of a stream are numbered, so that a lost, repeated or overtaken one can be seen. `prog` fixes what the
application may do: which calls it makes between polls, and for each event which of a few reactions its handler
has. In `Resolver`, `nc` is the user's connection, `dns` the one to the name server, `req` the request. In `MqttBroker` a message on
the wire has three parts, the last of which is its last byte, since the framing looks at lengths only. In
`HttpServer` a byte is a number and the head of a request is one number that stands for its first line and header
fields (`Heads`); `srv` and `be` are the two linked connections with their protocol records. The codecs work on bytes as they are.

*Atomicity, mongoose.* One handler call of the I/O thread is one step in `EventManager` and `Resolver`; the kernel, the peers, the
clock and the other threads move between any two. The sweep and `mg_mgr_free` close one connection a step, as `mg_close_conn` does. In `HttpServer` and `MqttBroker` one event of a connection is
one step: what happens between the steps of a poll is `EventManager`'s subject. The file server's requests are functions, because
the code handles each within one call.

*More that is easy to miss, and is modelled:*

- A fake connection of a datagram listener shares its descriptor (3621-3631); when the listener is closed first, output on
  the fake one makes `select` fail and the loop deaf, or, once the kernel has given the number to another socket (`Numbers`), goes out there;
  on a stream its `sendto` is a send (`WriteToSocket`), and one that fails swallows the error of the socket (`SendtoFails`). `ListConsistent` and
  `StreamsIntact` say that this is the only way to a closed or foreign descriptor; `FlaggedIsClosed` and `WaitersServed` except the loop that is deaf (`Deaf`).
- `mg_recvfrom` frees the buffer of an empty or failed datagram, and `mg_recv_common` takes it over (`Received`, `FreesTwice`): `BuffersOwned` fails. The
  model stops (`crashed`) where memory is freed twice or a NULL pointer followed; `BreaksOnDatagrams` says that nothing else leads there.
- `parse_mqtt` accepts a message that lacks its last byte (9615), reads whatever lies behind the buffer in its place, and leaves it in the buffer, where
  it is handled again; and it handles one message per receipt, so that a client may wait for an answer until it sends more (9701). `HandledInOrder` and
  `DeliveredAsHandled` say what the code promises nevertheless, `HandledOnce` what it does not.
- A second SUBSCRIBE writes past the array (10034); from there on the model's `undefined` is set.
- `mg_http_handler` hands over a request cut short by the end of the stream as if it were whole (5612); `astray` marks this, and
  the search for a header line behind what has arrived (5918-5962).
- Reading a multipart body, `mg_http_multipart` gives data away as soon as the last bytes cannot be a boundary.
- `pd->chunk.body_len` is not reset behind a request: run `FindChunkedTwice`.
- The first fragment of a websocket message makes the receive buffer grow (8872), and the code goes on with its pointers into the
  buffer as it was. Where realloc moves it (`moves`), everything is written into the old block, here to no effect, and the test for a close
  frame reads there (`stale`); `dangling` marks this from then on, and `FragmentsJoined` fails.
- A program started for what is handed over at the close belongs to a connection that is gone (`StartedTooLate`, `ForwardersClosed`). The
  connection to another server stays open when its client has gone, because the wrong one of the two is flagged (5105): `DieTogether` fails.
- A file too big for the disk is met while it is written, when it is closed, or as another error (`io`). At the close nobody
  looks (7581, 5076): an upload is answered with 200, a PUT with 201 before it has even begun (8778), and what is stored is the
  beginning, `lost` (`UploadsStored`). What a PUT does not take of its body is parsed as the next request.
- `mg_match_prefix_n` looks whether the string has ended only at `?` and `$` (9498, 9500): everything else is compared with what is behind the string, which of a URI
  is its query, the protocol, or what was left there when the URI was normalised in place (`Line`, `Normalized`, `MatchesInside`). The same memory is
  what a login is hashed over (6675).
- A login is good for an hour by a nonce in hexadecimal; the server's own challenges are decimal (7286): `ChallengesExpire` fails.
- `mg_send_ssi_file` takes any comment that ends within five characters for a directive; `mg_parse_date_string` counts the leap day from
  the first of January (7238-7261, `MonthsCounted`); `parse_net` keeps the host bits of an access rule (2870); `mg_handle_delete` answers 204 for a directory
  whether or not anything of it stayed (8721). The functions do what the
  code does, and the definitions they are compared with say where they leave the expected.

## 3. Runs

| Run | Instance | States | What it shows |
|---|---|---|---|
| `PcPair` | 1 producer, 1 consumer, NUM 2, BUFFER_NUM 3, SEMVMX 3, products {x, y}, fair | 346 000 | `SemaphoresInStep` (flow control, no vain scan, less than a turn of the pool late), the hand-off (`ImplementsHandoff`), liveness (`PoolDrains`) |
| `PcPairFaults` | 1 producer, 1 restartable consumer, NUM = BUFFER_NUM = 2, SEMVMX 2, 2 kills, 1 interrupt, both IPC_STAT outcomes | 893 000 | the flags alone keep the two apart (`FlagsExclude`), `PermitsConserved`, `NothingLostOrRepeated` |
| `Mutex` | the source's NUM = 5, all four functions, MaxTries 2, fair | 21 000 | `NoCircularWait`, `ImplementsDining`, `SomeoneEats` |
| `Sema` | NUM = 5 (the source has 3), fair | 4 400 | `SomeoneEats` |
| `Device` | 2 users, 3 bytes, all messages of 1 and 2 bytes over 2, 2 loads | 2 440 000 | `DeviceSound`, `UsersServed` |
| `Web` | 3 clients, 2 pages and another URL, queue of 2, 4 descriptors, fair | 586 000 | `ServerSound` (`OwnResponse`, `StopsOnlyInTrouble`), `EveryRequestAnswered` |
| `Copy` | 6 trees, 6 paths as arguments, depth 4, all answers, fair | 31 000 | `CopyComplete`, `OnlyDestinationChanges`, `EndsUnlessOverlapping` |
| `Manager` | 3 connections, 2 sources of datagrams, 1 broadcasting thread, 10 programs, fair | 290 000 | `ListConsistent`, `EventProtocol`, `StreamsIntact`, `ClosedComplete`, `BreaksOnDatagrams`, `FlaggedIsClosed`, `WaitersServed` |
| `Names` | 1 request by name, 3 tries of DNS and 3 of SNTP, 1 datagram late, time to 26, fair; the samples of DNS and CoAP | 378 000 | `RequestOwned`, `OneAnswer`, `AnswerComes`, `DatagramsReadBack` |
| `Broker` | 2 clients, 3 messages behind their CONNECTs, cuts anywhere; the samples of MQTT | 5 330 000 | `SessionsMatch`, `HandledInOrder`, `DeliveredAsHandled`, `WireFormat` |
| `Http` | 33 scripts of a client, 3 replies of another server, 4 outputs of a program | 842 000 | `EventsIntact`, `OwnAnswers`, `LinksLive`, `FilesIntact`, `NothingStuck`; over inputs: `TextsReadBack`, `FilesAsAsked`, `PagesAssembled` |

One run ends in a violation on purpose: `FindChunkedTwice` checks `ChunksKept`, the assertion `blen >= body_len` at `mongoose.c:5456`, and
finds two chunked requests on one connection that violate it ("findings" in `PROJECT.json`).

Some properties of the modules are not among the runs because the code does not have them. Each can be seen to fail in
the instance named, with its constants changed where it says so:

| Property | Instance | What the code does |
|---|---|---|
| `ConsumerAttaches` | `PcPair` | after `product.c` has made its smaller segment, the consumer's `shmget` fails and it exits, although `consume.c:93` supposes the producer ran first |
| `FlagsExclude` | `PcPair` with two producers, or with two consumers | `visit_buff` starts at NUM, so both take one buffer |
| `FlaggedMeansProduced` | `PcPair`, the producer restartable and killed once | a restarted producer clears all buffers but only NUM flags |
| `ScansOnlyWhenNotified` | `PcPair` | once the undo sum is full a consumer scans without a notification |
| `EatSolvesDeadlock` | `Mutex` | `eat()` locks its chopsticks again instead of unlocking them and waits for itself (`philospher_mutex.c:119`) |
| `BuffersOwned` | `Manager` | the buffer of a datagram without bytes is freed (3394-3397) and taken over; "buf must be heap-allocated and ownership is transferred to the core" (`mongoose.h:3081`) |
| `HandledOnce` | `Broker` | a message is handled before its last byte (9615), "not fully buffered" (9700), and again with it |
| `FragmentsJoined` | `Http` | where the buffer moves (8872), a message in fragments is not told of, whatever "Append this frame to the reassembled buffer" (8878) does |
| `ForwardersClosed` | `Http` | "Close associated CGI forwarder connection" (5587) comes before what a request cut short starts (5612): its program works on a connection that is closed |
| `DieTogether` | `Http` | of the connections that "must live and die together" (7009), the wrong one is flagged (5105) and the other one stays |
| `UploadsStored` | `Http` | "store file data into a local file" (`mongoose.h:4697`): what `fclose` cannot write (7581) is missing, and the answer is 200 |
| `MatchesInside` | `Http` | a "string with given length" (`mongoose.h:3993`): `/a?` takes three bytes of `/a` when a question mark follows (9522) |
| `ChallengesExpire` | `Http` | "Make sure it is not too old" (6632): the answer to the server's own challenge, a decimal number (7286), is taken after an hour |
| `MonthsCounted` | `Http` | "return the corresponding time_t value" (7242): in January and February of a leap year it is a day late (7259) |

Two further remarks, for readers of the source. `philospher_mutex.c:78` says that `eat_with_lock` "会造成死锁"
(leads to deadlock); with philosophers 1 to 5 it does not, because the ring is a chain
(`NoCircularWait` is checked and proved for it too), and the mutant `Left_Wraps`, which makes it a ring, does deadlock.
And `philospher_mutex.c:124` says that odd philosophers use the left chopstick, while
`eat_change_lock` (89-95) has them lock the right one first; that is a matter of naming and has no run.

### Bounds, and why they are enough

- *Pool.* With NUM < BUFFER_NUM the pool has a buffer that no permit stands for, so the scan meets both full
  and free ones and `index` wraps; NUM = BUFFER_NUM covers the tight case. Two products tell a
  torn copy from a whole one and an old one from a new one. SEMVMX 2 or 3 is reached after
  that many products, so that behaviour before and after the undo sums are full is explored; the
  programs' own counters (`index`, `semval`) are finite and need no other bound.
- *Faults.* `MaxKills` 2 allows a kill of the process and of its successor; `MaxStops` 1 is
  enough for the one extra permit an interrupt can make; the history counters are bounded by
  these. Kills and interrupts are not in `PcPair`, where liveness is checked.
- *Philosophers.* `Mutex` has the real number. `MaxTries` stands for 120; a thread that fails twice
  passes through every control state.
- *Device.* Three bytes hold a message, a longer message, and the terminator at two different places; two
  loads let the second find what the first has left behind.
- *Web.* Three clients are one served, one queued, one arriving. Four descriptors are the socket, the
  connection and two files, so that the leak of files reaches the limit.
- *Copy.* The source tree has a file, a hidden file, a subdirectory with a file of the same name, beside
  nothing, a shorter or longer file, or a directory holding part of the same names. Depth 4 is one more than any
  copy without overlap needs, and six blocks are more than appends without overlap make, so that
  `runaway` (a path or file beyond the bound) can be reached only by a copy that feeds itself.
- *Manager.* Each program isolates one combination: a server with a busy client and broadcasts; with two clients; with more clients
  than there is memory for; a client with timers whose manager is freed in between; datagram listeners with two sources and with
  broadcasts; a datagram client; and both with datagrams that are empty or cannot be read. A datagram
  listener that goes first, its connection when its output is gone, and a stream opened in between is all it takes for a number to change hands. Three connections are a listener and two others, so that one can be closed beside the
  one being handled. `Room` 1 makes every longer write partial; one or two bytes each way tell order and loss. Two ticks let a timer
  be set, pass and be set again.
- *Names.* Every limit of the code (retries, attempts, time-outs) is reached; 26 ticks are enough for the longest way through all of
  them, so that the bound on the clock never ends a request. One datagram may be late, repeated and overtaken by the time-out for it.
- *Broker.* Two clients are one that publishes and one that subscribes, in both roles; three messages are two subscriptions and
  a publication, or one after the other. Cuts behind the first part and in front of the last byte are the two that `parse_mqtt` tells apart; whole messages glued
  together leave some waiting.
- *Http.* One script for each way the code treats a request, two or three requests on one connection where the next could meet what
  the one before left. The stream is cut anywhere: a receipt takes one byte, or a few, or all there is. `SendLimit` 4 is
  less than a file, `MaxRequest` 6 more than a head and less than the endless request, `DiskSpace` 3 less than one of the uploads and one PUT.
  `MaxBytes` limits pings. Replies and outputs are one with a length, one that ends with the stream, one that is empty or no reply, and a program that says nothing.
  Of the buffer's moves it is the first that matters: from there on what the connection does is not its client's any more.
- *Pure functions.* They are evaluated once per run, in states named in the property: paths of up to five characters behind the first slash, all trees with two levels and
  the requests on them, pages of three pieces, messages of DNS, CoAP and MQTT with every field at its limits and cut after every byte,
  patterns and texts of a few characters. A mistake at an end, a limit or an empty part shows in the smallest of them.

Deadlock checking is off throughout: processes may be killed or exit, clients may stay away, eat() is known
to stop, HTTP scripts end, and what must not stop is stated as a property instead.

### Fairness

- `PcPair`: weak fairness of each process's step. The scheduler runs a process that can run; nothing is
  assumed of the operator, nor of who gets a semaphore first.
- `Mutex`, `Sema`: weak fairness of each thread and of `main`'s creation loop. Mutexes are granted in no order, hence
  `SomeoneEats` and not "everyone eats". In `Sema`, whether `main`'s join of an indeterminate handle ends the
  process is left open.
- `Web`: weak fairness of the server (not of the failure of `accept`), and every connected client
  eventually sends. The second is an assumption about browsers: `recv` (`server.c:23`) waits for ever
  for a silent client, and so does everyone behind it.
- `Copy`: weak fairness of the one process that runs; the user answers.
- `Device`, `Broker`: safety only.
- `Manager`: the application polls again and again (`IoThread`), the clock goes on, connection attempts end, peers
  go on reading, a thread whose `recv` has an answer returns. Nothing is assumed of what peers send or when they stop.
- `Names`: the application polls and the clock goes on. Strong fairness of `Tick`, because it is left out where it makes
  no difference and so is not enabled all the time. Servers may stay silent for ever.
- `Http`: no liveness. Every behaviour of a script comes to rest, and `NothingStuck` says what may be left then.

## 4. What is proved

All proofs are for every value of the constants, under the ASSUMEs of the modules. The invariants were checked with TLC on the
runs' instances before they were proved.

**`ProducerConsumerProofs`** (every pool size, number of permits, semaphore range, any number of kills,
interrupts, either outcome of IPC_STAT):

- `TypeCorrect`: `Spec => []PoolTypeOK`, for any number of producers and consumers. The kernel's operations keep
  semaphores and undo sums in range (`SemTypes`), then one lemma per program.
- `PairAllocatesOnlyFree`, `PairConsumesOnlyFull`, `PairSlotExclusive`, `PairDeliversWhole`: for one producer
  that is not restarted and one consumer that may be (`OnePair`). The inductive invariant is `PairInv`: a
  producer in the middle of filling has a free buffer whose first bytes agree with its array, a consumer
  emptying has a full buffer whose first bytes it has, every full buffer is whole, and before the pool is
  cleared all flags are 0. It does not mention the semaphores at all: that is the argument of the proof,
  and it explains why the pair survives exhausted undo sums, interrupts and kills.
  `PairFlagsExclude` puts the four together as `PcPairFaults` checks them. `OnePair` is needed: section 3 has the
  counterexamples with two producers and with a producer that is started again.
- `PairImplementsHandoff`: with `OnePair` and no kills the pool implements `Handoff`, where a cell is the
  buffer from the setting of its flag to the write of the product. The absence of kills is
  needed too: a consumer killed after its write delivers the product again.
- `PairLosesNothing`: a flag is cleared only behind the write of its product, and a product is written again at most once
  for each kill. `WrittenOK` is what it needs beside `PairInv`: a consumer that is finishing has written its buffer, and a
  buffer is written no more often than there were kills, once more if a consumer is behind the write.
- `PairConservesPermits`: `PermitsInv` counts the permits of `visit_buff` before and after they are handed out, with the undo
  sums that a kill gives back. The hypothesis `NUM + MaxStops <= SEMVMX` is needed: each interrupted wait may add a permit, and
  where the semaphore has no room for one, the V fails and the permit is lost. TLC finds that with NUM = SEMVMX = 4 and two interrupts.
- `PairInStep`: at most NUM products are out, no scan is in vain and none is overtaken by a turn of the pool, without kills and interrupts
  as in `PcPair`, for every NUM, BUFFER_NUM and SEMVMX. `StepInv` has four parts. `FlowOK`: while the producer's undo sum has
  room, what `productor_info` holds, what is out and the permit the producer works on are at most NUM. `ScanOK`: while the consumer's
  has, notifications are not more than the full buffers it has not found, but for the one about to be flagged. `QuietSetUp`: nobody is notified
  before the pool is clear. `OrderOK`: the number of times a buffer was passed over and its distance from where the consumer looks next are
  together less than BUFFER_NUM.

**`PhilosopherMutexProofs`** (every NUM >= 2, every function, every MaxTries):

- `TypeCorrect`, `LocksCorrect`: `TypeOK /\ LocksMatchCode` is inductive.
- `DiningImplemented`: from it, philosophers with a chopstick in common never eat together, and every step is one of `Dining` or
  leaves `Eating` alone.
- `NoCircles`: `[]NoCircularWait`. A circular wait yields a set of philosophers in which everyone's second
  chopstick is the first one of another. For the two functions that alternate by parity, neighbours would start on
  different sides of the chopstick they share; for `eat_with_lock`, each
  member's neighbour to the right is a member too, up to philosopher NUM - 1, whose second chopstick, 0, is nobody's first.

**`PhilosopherSemaProofs`** (every NUM >= 2): `TypeCorrect`, `NoneLost`, `LastIsShutOut`, `DiningImplemented`. The inductive
invariant says that a chopstick of the array is 0 exactly when a philosopher holds it, that no two hold it, and that the last
philosopher has not got past its first wait. Without the last part it is not inductive: posting
the chopstick past the array would make it 1.

**`HelloKernelProofs`** (any number of users, loads, sizes of the buffer and messages): `DeviceIsSound` and `UsersAreServed`. The invariant `DeviceInv` says
how much of the device exists at each step of `hello_init`, that from the clearing of the buffer on its last cell is a
terminator nobody overwrites, and how far the copy of an undisturbed user has come. That the loop of `strlen` stops at the terminator
is an argument about the least cell with a zero (`LeastOf`); the library's induction theorems are not needed for it.

**`WebServerProofs`** (any number of clients, any queue, any limit of descriptors): `ServerIsSound`, and `DescriptorsLeak`, which states as an
invariant that every file ever opened keeps its descriptor, so that the limit bounds how many pages a run can serve. `ServerInv` says
where the server is with the connection it serves (`PlaceOK`, `ServedOK`), that the queue holds each client that
is connected and not yet accepted once (`QueueOK`), what the descriptors are (`FdsOK`), and that a connection ends early by its
client's doing only (`GoneOK`).

**`ResolverBrokerProofs`, the resolver** (any number of tries, time-outs and late datagrams): `RequestIsOwned` and `UserIsToldOnce`. `ControlOK` says which of the two
connections a handler runs for and what may still be under way, `ToldOK` that whoever was told the outcome is closing
and whoever was freed was told, unless the user gave up or the manager was freed.

**`ResolverBrokerProofs`, the broker** (any clients, topics, lists of expressions and number of messages, streams cut anywhere, in front of the last
byte of a message too): `SessionsKept`, `HandledInTurn`, `PublicationsArrive`. `BrokerInv` is the conjunction of

- `FramingInv`: what is on the wire and in `recv_mbuf` is the messages not handled whole yet, and when the first of them was handled already, all of it but its last
  byte is in the buffer. So the message `parse_mqtt` finds is the first that was not handled whole (`HeadOfBuffer`), and it finds it torn
  at most once (`HandlesHistory`); `HandledInOrder` follows.
- `ClientInv`: the first message of a client is its only CONNECT, it sends more only when it was accepted, and it has a session when it was.
  It is why a SUBSCRIBE never meets a connection without a session, and why only a CONNECT that was handled twice makes a second one (`OnlyConnect`, `ConnectsFirst`).
- `SessionInv`, `SubscribedInv`: where `user_data` points, also for connections that are closed, and that subscriptions come of SUBSCRIBEs. They imply
  `SessionsMatch`, which does not say of what the other sessions were left, and is not inductive.
- `DeliveryInv`: the newest session of a client has the subscriptions acknowledged to it, and the client got what it was due. A session left behind has none,
  so it takes no publication (`NoneWanted`); that a publication goes out at most once to a session whose expressions match twice is an argument about the least of them (`FirstCopy`).

What a client is due is the concatenation of what it is due for each message, in the order handled. That it grows at the end by what the next message adds is
`FlattenAppend`, an induction over the sequence; it is made with a set of numbers and the least one outside of it (`AllNumbers`,
from `WFMin`), since the library's rules that take a predicate cannot be used. `DeliveryInv` does not depend on whether an array of subscriptions was overrun, so
the theorem holds after a second SUBSCRIBE too; the code's memory does not, which is what `undefined` in `DeliveredAsHandled` says.

**`EventManagerProofs`** (any number of connections, peers and bytes, any programs that `ManagerConstants` admits):

- `ListIsConsistent`. `ListConsistent` is not inductive. `StructureInv` adds to it where the pointers of the loops point while a handler
  runs (`CursorOK`), which sockets belong to whom and when they are closed (`SocketOK`), that `select` returned sockets only (`KernelOK`),
  that one source has one connection on a listener (`SourcesOK`), that a datagram connection knows its peer (`PartnerOK`), and that
  datagrams wait on datagram sockets, bytes on the others (`WaitingOK`). The saved pointer stays valid because handlers only flag: what is freed is freed by the sweep and by `mg_mgr_free`.
- `LifeKeepsToProtocol`, from `ProtocolInv`: beside the structure, `StoryOK` ties what a handler was told to the flags of
  its connection (told nothing while it is listening or connecting) and to its socket (a connection whose connect failed
  has no socket that could bring anything), and `ReadyOK` says that whoever is still connecting when its turn comes to read has nothing to
  read or write. The second part is needed because `mg_mgr_handle_conn` reads behind the branch that reports the connect (3451-3500),
  from the same result of `select`.
- `ClosedIsComplete`, from the structure and `AccountInv`. `OutOK` (`Paid`) is the account of what is sent: as long as a connection
  has a socket of its own, what the peer got and what waits are what its handler sent, in order; nobody sends on a listener; one that is
  flagged to close at once has a reason. So when the sweep frees a connection without a reason its buffer was empty, and everything
  had gone out. The connections of a datagram listener write on a socket that is not theirs; what they write is not on
  the account of its owner.
- `StreamsStayIntact`, from `StreamInv`: the protocol, the account, and for what arrives `InOK` with `WalkOK`. `StreamsIntact` is not inductive
  because `mg_recv_common` throws the bytes away that it was given for a connection flagged to close at once, and a handler may clear
  that flag. `InOK` (`Kept`) says why this never meets: where bytes were dropped the flag is set and the walk is past the
  connection (`Past`), so that nobody calls its handler before the sweep frees it. That it stays past needs the order of the list while connections are
  put in front of it (`WalkOK`, `Ahead`), and `ReadyOK`, by which a datagram is never handed to a stream. Who else writes to a socket is
  `AliensOK`: `HolderOK` says that only the number of a closed socket is given away, so a connection that writes to a foreign one is a fake
  one whose listener is freed.
- `ManagerConstants` assumes of a program what the code grants its handlers: flags they may modify (1989-1994), bytes to send, a timer. Nothing
  is sent on a listener, which `mg_send` would store for ever.

**`MulthreadCpProofs`** (every file tree, every source and destination, every bound on paths and files; `Named` are paths, `Trees` are
trees in which whatever exists lies in a directory, and what marks a directory is no content):

- `DestinationOnly`: a path is compared name by name (`PrefixIff`), so what `DirToDir` and `ToFile` append to a target keeps
  it below the destination. `TypeInv` says so of the targets in `frames` and `job`, and that the file system stays a tree.
- `ContentIsCopied`: `ContentInv` gives the destination after every block (`Copied`): old content with the first `off` blocks of the source
  laid over it, put behind it, or in its place. It also ties the user's choice to what was there: only a plain copy finds
  nothing, which is why a failed `open` that goes unnoticed leaves the destination as it was.
- `EveryFileOnce`: `OnceInv` says that each walker is where all those before it have gone on to (`ChainOK`), and that a file has been
  given to `cp` exactly when no walker still awaits it (`Count`, `Ahead`). For the file at hand, and those below the directory at hand,
  the step from awaited to given, or from one walker to the next, is `RestOnce`.
- `CopyIsComplete`: `CopyComplete`, all four parts. For `cp -r`, `PlaceInv` says that every call is for a directory of the source and its
  place (`FrameOK`), and that every visible file is in place, still to be read by a call, or in the hands of `ToFile`. It rests on `SourceInv`, the source stays
  as it was when the two do not overlap, which follows from `DestinationOnly`'s step, and on `NothingRemoved`.

That only a copy that feeds itself grows beyond the bounds (`FeedsItself` in `EndsUnlessOverlapping`) is not true of every instance: with a bound on paths
that is less than the copy needs, the model stops there too. It is checked with bounds that are enough (section 3).

**Only model-checked.** Liveness (`PoolDrains`, `SomeoneEats`, `EveryRequestAnswered`, `EndsUnlessOverlapping`, `FlaggedIsClosed`, `WaitersServed`,
`AnswerComes`) needs fairness and ENABLED, which TLAPS does not handle. Every other property of a run whose module is in TLAPS's reach is proved, except `BreaksOnDatagrams`. `HttpServer` and the modules that parse texts
and bytes use RECURSIVE operators or Bitwise, which puts them and what extends them out of TLAPS's reach; so do the `MC` modules
whose properties evaluate them over samples.

## 5. Layout of a module

Constants with their assumptions; variables with a comment each; the type invariant; `Init`; one action per
operation; `Next`, `Spec`, `FairSpec` and the fairness; the properties, each with the code behaviour it is about.
Proofs are in modules of their own.

## 6. Running

    tlc -config PcPair.cfg ProducerConsumer.tla
    tlapm ProducerConsumerProofs.tla

`PROJECT.json` names the module of every configuration, the source lines of every definition, and the
mutants.

## 7. Plan

Done in this order: `SysVIpc` .. `ProducerConsumer` and its proofs; the philosophers and theirs; the device;
the server; the copy programs; mongoose's event manager, its clients, its broker, its HTTP server, the codecs and rules.

Then proofs: permits, the step of the pair and its losses in `pc/`; the device; the server; the resolver; the list, the
protocol, the streams and the closes of the event manager; the copy programs; the broker.

Next, proofs: `LinksLive` for `HttpServer`, once its recursive operators are recursive functions, with the program that is started too
late as the one exception (`StartedTooLate`).

Next, modelling: an abstract byte stream that `EventManager`'s TCP connections implement; `lab8/lab8.c` with the driver's
buffer queue (`VIDIOC_STREAMOFF` at line 133 comes before `VIDIOC_DQBUF` at 142); failing writes in `Cp`.

## 8. Not modelled, and why

- `pc/producter_consumer.cpp`: its consumer threads are commented out (97-99), one thread fills a pool nobody empties.
- `web/client.c`: connects to a port on which nothing of the repository listens.
- `lab8/lab8.c`: sequential calls to a driver; planned, see above.
- `ls/myls.c`: reads directories and formats text.
- `cpp_pattern/`, `jit.c`: examples of language features.
- Mongoose: SSL (OpenSSL, mbedTLS), the tun and SOCKS interfaces and the JavaScript bindings, which the default build leaves out; code for
  Windows, lwIP, SimpleLink and TI chips; printf and JSON helpers and the text of messages; the compression functions of MD5 and SHA1, which are arithmetic without control; the
  processes and threads that feed a CGI program; failing `malloc`, except for the memory of a connection; a freed connection's memory given again, where a pointer
  `listener` still has the address; the number of a closed descriptor given to a file; port 65535 and blank lines
  in the hosts file, on which parsing ends differently; control frames between the fragments of a message; compressed DNS names that point in a circle;
  MQTT messages of more than 127 bytes, and the byte behind the buffer happening to be the one that is missing.
- In the HTTP models: what a write into freed memory hits (it is taken to hit nothing that is in use); frames without a mask from the client, and above 65535 bytes; a request
  sent before the one in front is answered, but for frames; `fork` failing (seen as a program that says nothing) apart from a start that is refused; an upload that is
  broken off keeps what was stored of it, and a PUT with Content-Range empties the file first and, without an end, stores less than its body: as in the code, without a property against it.
  Pages with an include or exec tag longer than the buffer; patterns with two stars behind a place where the end was missed look back no further than the string.
- In the other programs: the texts printed, HTTP text, file permissions, `Tranverse` in the module (prints
  the process list), failing writes and partial transfers, fork failure, and failures of opening `producerN.txt`.
