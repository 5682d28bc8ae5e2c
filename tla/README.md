# A verification of the HTTP server

TLA+ models of the HTTP/1.1 file server in `src/`, checked with TLC on small
instances and, for the properties that matter most, proved with TLAPS for every
value of the constants. All file names without a directory are files of `src/`.

The repository holds one program, `httpd`, that is really two servers:

- a **synchronous** one (`server`, `connection`, `connection_handlers`, ...):
  blocking reads and writes, with one of three thread models, everything on the main
  thread ("nothread"), a detached thread per connection ("nopool"), or a pool of
  workers that pop connections from a `SynchronizedQueue` ("pool");
- an **asynchronous** one (`async_*`): one thread, `poll()`, and an `AsyncEventLoop`
  over *pollables* which, when notified, return the pollable to register next.

Both read requests up to a blank line, pass them through the `.htaccess` filter and
serve files, and both are meant to look the same from outside.

## Contents

| module | what it is | models |
| --- | --- | --- |
| `WorkQueue` | abstract: a queue that hands over each element once, in order, eventually | the comment of `synchronized_queue.h` |
| `SynchronizedQueue` | the queue statement by statement, with mutex and condition variable | `synchronized_queue.h` |
| `HttpService` | abstract: whole answers in the order of the requests | what both servers promise a client |
| `Connections` | clients, kernel buffers and sockets, shared by both servers | external (TCP, the clients), used as `src/` uses it |
| `AsyncServer` | the event loop and every pollable that goes through it | `async_event_loop`, `async_connection`, `async_listener`, `async_http_server`, `async_request_handlers`, `async_request_filters`, `async_file_repository` |
| `SyncServer` | `serve`, the three thread models and `handle_connection` | `server`, `connection_handlers`, `connection`, `request_handlers`, `request_filters` |
| `Strings` | splitting, joining, canonical paths | `util` |
| `HtAccess` | the text of access rules and what it says of an address | `htaccess`, `dns_client` by its outcomes |
| `HttpMessages` | a frame becomes a request, a request becomes text | `http` |
| `RequestHandling` | the requests of one connection, from the bytes to the answer, against a file system that changes between any two calls | `read_until` and `read` of both connections, `handle_connection`'s part in it, the filters, file handlers and file repositories of both servers |
| `SynchronizedQueueProofs`, `AsyncServerProofs`, `SyncServerProofs`, `RequestHandlingProofs`, `RequestTextProofs` | theorems and proofs | |
| `SequenceLemmas`, `TranscriptLemmas`, `StringLemmas` | the lemmas about sequences, about requests, bytes and answers, that the proofs about both servers share, and about the operators on strings and paths | |
| `MCSynchronizedQueue`, `MCAsyncServer`, `MCSyncServer`, `MCRequestHandling` | the instances TLC checks; one `.cfg` per run | |

`SyncServer` composes with `WorkQueue` (`Queue == INSTANCE WorkQueue`), which
`SynchronizedQueue` is shown to implement: the server is modelled over the abstract
queue, the queue's internals are checked once, by themselves. Both servers EXTEND
`Connections`, and both are shown to implement the same `HttpService` with their own
table of answers (`Answer`, `Final`, `Size`), so that the places where they differ are
visible in one definition, `Deserved`.

The two servers say nothing about how an outcome comes about: a request has a `form` and an
answer. `RequestHandling` is the other half. It has one connection, no threads and no
pollables, but the bytes, the requests cut from them, the rules, the paths and the files. It
EXTENDS `HttpMessages` and `HtAccess`, which EXTEND `Strings`; these three are pure operators,
each with a reference definition written another way beside it.

## Inventory

Each component with its state, operations, partners, what is hard about it, and what
makes it correct.

| component | state | operations | works with | hard | correct when |
| --- | --- | --- | --- | --- | --- |
| Synchronized work queue (`synchronized_queue.h`) | `std::queue`, mutex, condition variable | `push`, `pop` | serve loop pushes, workers pop | interleaving, lost or spurious wake-ups, overtaking | protected; nothing lost, doubled, reordered; no lost wake-up; elements handed over eventually |
| Event loop (`async_event_loop`) | the vector of pollables, the pass's vectors | `register_pollable`, `loop`, `process_pollable` | every pollable | `notify`'s result and `is_done` decide separately what is registered; exceptions; deadlines against progress | each live pollable is held exactly once; the listener stays; deadlines end operations |
| Async connections (`async_connection`) | socket, buffer, callbacks, start time, `total_sent` | `read`, `write`, `read_until` | loop, HTTP connection | partial reads and writes, pipelined bytes, `EAGAIN` after readiness, last reference closes | one operation at a time; each byte sent once |
| Async listener (`async_listener`) | listening socket | `do_accept`, `notify` | loop, server | `accept()` failing for one client | never leaves the loop |
| Async HTTP server and handlers (`async_http_*`, `async_request_*`) | closures: connection, request | `serve`, `read_request`, `write_response`, handler and filter callbacks | all of the above | one long chain of callbacks, each of which may throw outside the `try` | answers whole, in order; closed only for a reason |
| Async files (`async_file_repository`) | file descriptor, contents so far | `read_file`, `file_readable`, ... | handler, filter | unreadable files and directories | every operation ends |
| Sync server, thread models (`server`, `connection_handlers`) | thread pool, queue | `serve`, `handle_connection`, `handle_work_queue` | queue, connections | exceptions on every path, workers lost for good, end of the process | workers conserved, every connection served |
| Sync connections (`connection`) | socket, buffer | `read`, `write`, `read_until` | handlers | timeouts, resets, NUL bytes, split separators, empty reads | a request is what the client sent |
| Sync request handlers, files (`request_handlers`, `request_filters`, `file_repository`) | none | `handle_request`, `allow_request`, `read_file`, ... | files, rules | files changing between the calls | status of each request |
| Access rules (`htaccess`) | rules | parse, `allows` | DNS | masks, rule order, DNS failing, three kinds of errors with different outcomes | the first line that speaks of the client decides |
| Paths, strings (`util`) | none | `split`, `join`, `canonicalize_path` | handlers | `..`, empty components | never above the document root |
| HTTP messages (`http`) | none | `parse_request_frame`, `parse_headers`, `pack` | connections | malformed input | parse inverts pack |
| Listener, DNS client, program (`listener`, `dns_client`, `main`, `httpd`) | none | `accept`, `lookup`, configuration | | sizes and models share one integer | |

The hazards, each at its line, with the properties that would catch it, are listed in
`PROJECT.json` under `hazards`.

## How the modules correspond to the code

**SynchronizedQueue.** `queue`, `holder` and `elem` are the fields and the local of
`push`/`pop`; `pc` says which statement a thread is at. `Lock`, `Enqueue`, `NotifyOne`,
`Unlock` are `push`; `Lock`, `TestSize`, `Front`, `Remove`, `Unlock` are `pop`, with
`cv.wait` split at the point where it gives the mutex up ("waiting") and where it takes it
again ("relock"). `notify_one` picks any waiter; `SpuriousWakeup` is the freedom the C++
standard gives `wait`. Calling `front()` on an empty queue is undefined: the model leaves
the local unassigned. `offered`, `added` and `handed` are history. A copy or move of an
element that throws is not modelled (elements are `shared_ptr`).

**Connections.** What each client has asked (`asked`, and `partial` for a piece of a
request not yet complete), what `recv()` has still to return (`inbox`), what the server
has read but not consumed (`buffer`), what `send()` has taken (`wire`), the state of each
end. A request is a record: how far parsing gets (`form`), whether it asks to close, what
the `.htaccess` file says, what the file system says of the URI. Bytes are symbols: `n`
completes the n-th request, `0` is a piece that completes none, so a read can end in the
middle of a request and can return several requests at once. A reset may arrive at any
moment, which also covers the reset a closed socket would answer with.

**AsyncServer.** A pollable is an entry of `op` (its kind, the request it serves, how much
it has moved, whether it is late). `Poll` is `poll()` and the swap of the vectors;
`NotifyRead`, `NotifyFile`, `NotifyWrite`, `NotifyListener` are `notify` of each class
together with the callbacks they run and with `process_pollable`'s bookkeeping around
them (`Replace`, `Keep`, `KeepAndAdd`); `AcceptFails` is the exception; `EndPass` is the
prune. The chain of callbacks from a request to the next pollable is pure and appears as
operators: `HandleRequest`, `AllowRequest`, `ServeFile`, `FileCallback`, `AfterWrite`,
`ReadRequest`. A connection is a `shared_ptr` captured by its pollables, so `Install`
closes the socket of a connection with its last pollable. The order of a pass is left open
(any ready pollable next), which includes the vector's order.

**SyncServer.** `at[c]` is where `handle_connection` is for connection `c`, `out[c]` the
response it is writing and whether it is doing so inside a `catch`. `Accept`, `Take` are the
serve loop and a worker; `ReadSome`, `ReadClosed`, `ReadFails`, `SendSome`, `SendCutShort`,
`SendFails` are the outcomes of `recv` and `send` (the last two on a connection that has been
reset, or, under "send", on one that goes on); `Return` and `Escape` are the two ways out of
`handle_connection`. Threads share nothing but the queue, so a thread needs no name.
`PoolSize` is any natural number: 0 stands for the negative sizes below -2 that `httpd.cpp:59`
turns into a pool without workers. A `recv` that runs into `SO_RCVTIMEO` is
`ReadClosed` under "slow".

**Strings, HtAccess, HttpMessages.** A string is a sequence of symbols. A symbol is a character
that some code looks for (`/`, `.`, `:`, a space, `\r`, `\n`, NUL) or a word into which no
code looks ("GET", "Host", " from "); `Size` knows the lengths of the words, because
`parse_request_frame` compares one. `Split`, `SplitN`, `Find`, `Join` are the functions of `util.cpp` with
their behaviour for empty parts, empty separators and limits. `CanonicalizePath` gives the
empty string for a path above the root, as the code does; `HtaccessPath` is
`htaccess_path_for_request`. `CString` is `c_str()`: what a system call is given ends at the first
NUL. The paths of files and of rules go through it, and the addresses and names of rules.
`ParseRequest` returns a sequence of one request, or an empty
one where the code throws. In `HtAccess` an address is the set of its one bits, so
a mask is an interval and `&` an intersection. `CidrError` keeps apart what `parse_cidr`
throws: a `runtime_error` makes a host a name to look up, the `invalid_argument` of `stoi` does not.
What the library and the network decide is assumed no more precisely than the code relies on: no
address that `inet_pton` reads and no name that resolves contains a slash (`NoSlashIn`,
`IsEnv`), and the symbols the code looks for one by one (`Punctuation`) are single characters that
`tolower` does not touch.
`env` holds what is not the program's: what a name resolves to, and what a shift by more bits
than a word has leaves.

**RequestHandling.** `at` is the call that comes next; every call that looks at the file system
is an action, and `Others` (`Replace`, `Rewrite`, `Unlink`, `Chmod`) may act between any two. `fs`
maps paths to files, each with a kind, the permission `file_readable` tests, whether the server
can open it, an inode and a version that stands for the contents and for the date. `open` is the open
file; writing in place changes what is read from it, replacing does not. The two servers make
the same calls in the same order, so they share the actions, and `mode` says what becomes of
a call that fails: `Throw` is an exception caught by `handle_connection`, or one that
`process_pollable` drops with the pollable; `ReadUnreadable` is what reading a file that could not
be opened, or a directory, comes to. `stat()` of a file that has gone leaves the
structure unset, so `Stat` and `LastModified` use what was on the stack: either permission, a
date of 0. `ReceiveFails` is an error of `recv()`: the synchronous server answers it with 500, in the
asynchronous one it drops the read, and with it the connection. The path of a file is what the system is given,
so a directory is there under each of its names, as `/`, `/.` and `/..` are.
`ok_response`'s two arguments are evaluated in any order in the synchronous handler, contents
first in the asynchronous one. `frames` and `seen` are history: the frames cut from the stream, and the
states each path has been in since the request was read.

`Faults` says what the surroundings of a server may do; each run names its faults, and the
spec of each fault is beside its definition in `Connections`:
"slow" (clients pause past a timeout and may stop reading), "reset", "sigpipe", "accept"
(`accept()` fails), "spurious" (`poll()` reports readiness, then the call would block),
"send" (`send()` fails on a connection that goes on, before it has sent anything or, in the
synchronous server, halfway through a response),
"poll" (`poll()` fails), "thread" (a thread cannot be created).

Operators marked *wrong on purpose* are versions of an action with a plausible mistake
(a dropped guard, a stale buffer, an off-by-one). No specification uses them; substituting one
for the action it precedes must break the property named beside it in `PROJECT.json`, which
shows that the property can tell the code from that mistake.

## Runs

| run | instance | shows |
| --- | --- | --- |
| `queue` | 2 producers, 2 consumers, 3 elements | the queue is protected, FIFO, never popped empty, loses no wake-up, and implements `WorkQueue` with its liveness |
| `async_requests` | 1 connection, 2 requests of 11 kinds, slow, reset | answers in order, one operation at a time, closed only for a reason, implements `HttpService` with its liveness |
| `async_connections` | 2 connections, 1 request each (a file, invalid rules, a file or rules that cannot be opened), slow | pollables held once, listener stays, every client accepted; a connection ends if its client sends boundedly much and asks for no directory |
| `async_prompt` | 1 connection, 3 requests, no faults | all requests answered completely, however cut and pipelined |
| `async_faults` | 1 connection, 2 requests, every fault | each answer by itself is right, not repeated, and whole as far as it goes |
| `sync_requests` | 1 connection, 2 requests of 11 kinds, each thread model, every fault of the synchronous server but "send" | answers in order, implements `HttpService` with its liveness |
| `sync_threads` | 2 connections, 1 worker, 2 requests each, each thread model, slow, reset, send | workers conserved, queue holds the waiting, no escaping exception ends the pool, everyone served |
| `request_handling` | 1 connection of either server; streams, malformed frames, paths, rules, changing files (below) | requests are those the client sent, however cut; bad requests, paths and rules mean what their references say; denied stays denied, every end has a reason, one version is served, whatever changes in between; every request comes to an end |
| `async_spurious` | violated | a read that is not complete invokes its callback (finding) |
| `async_accept_fails` | violated | one failed `accept()` removes the listener (finding) |
| `async_directory` | violated | a request for a directory is polled for ever (finding) |
| `sync_reset` | violated | a response to a client that has gone is answered with a second response (finding) |

**Bounds.** `Conns`, `Requests`, `MaxRequests` (requests of one connection), `MaxOps`
(pending operations of one connection), `FileChunks` (reads of a file), `PoolSize`, the
sets of threads and elements. Two connections are the least that
can share a loop or compete for a worker; one worker and two connections make one wait. Two
requests give a first that ends the connection and a second already in the buffer, three in
`async_prompt` give two pipelined behind one in progress. One file chunk gives a response
of two parts, so that a response can be cut. Two producers and consumers are the least for a
woken consumer to be overtaken, three elements the least for elements to queue up behind one
another. `MaxOps = 2` only matters with "spurious", where the pile of reads of one
connection would grow with each spurious event; without it one operation per connection is
all there ever is, which `SingleOperation` checks and `OneOperation` proves. The number of
pieces a client sends is bounded by one per request.

`request_handling` has five families of scenarios, each large in one direction and small in the others:
`Streams`, four streams of two or three requests in both servers, cut by `recv()` in every
way, with pipelining, a NUL in a value, colons in a value, a request that closes and one
without a host; `Malformed`, every frame one insertion or deletion, and perhaps one more deletion, away from
a good one, in the request line or in the header, which reaches every way in which parsing fails;
`Paths`, every URI of up to seven
characters of `/`, `.` and `a`, enough for two names and two `..` in any order, and of up to five
that may be NULs, against files and directories that the paths before and after the cut name
differently; `RuleTexts`,
every text of one or two lines out of 33, with prefixes of two bits, lengths 0 to 3 (one
beyond the width), every mistake a line can have, and names with no, one or two
addresses; `Changing`, a file and its rules in every condition in both servers, with any two changes
(`maxChanges`): one between any two calls can undo what a check established, and a second can restore
it. `FileChunks = 2` puts a change between two reads of a file. The rules are read at once: they are
one chunk. Names resolve the same way during one parse. Rewriting a file keeps its length.

**Deadlock** is checked in `request_handling`, in the queue and in all runs of the asynchronous server but
`async_faults`, where the process may end. The synchronous runs switch it off: when the
clients have finished, the main thread blocks in `accept()` for good.

**Fairness.** The queue: a thread that can run does; a free mutex is given to someone who
wants it, not to each who does; nobody owes a call of `push`, the condition variable owes no
spurious wake-up. The asynchronous server: weak fairness of the loop's thread (`LoopStep`)
and of time (`DeadlinePasses`); within the loop, every pollable of a pass is processed
because a pass is finite, and not by assumption. Clients owe nothing, except that without "slow"
they read what they are sent. The synchronous server: weak fairness of each thread, and
clients that read: `send()` has no timeout in the code (only `SO_RCVTIMEO` is set), so without
that assumption one client can hold a worker for ever; `hazards` lists it.
In the runs with "slow" a silent client is timed out.

What two of these claims do not say. `ConnectionsEnd` is about clients that send boundedly many
requests in boundedly many pieces (`MaxRequests`) and ask for no directory: each read is a new
operation with a new deadline (`async_connection.cpp:69`), so a client that always sends one more
byte in time keeps its connection, and the read of a directory neither completes nor expires (the third
finding). `PoolSurvives` is about exceptions: none that escapes from serving a connection ends a
process with a pool. SIGPIPE, which nothing ignores and a client can cause by a reset during its
response (`connection.cpp:65`), does end it, and so does a failed `accept()`; the property excepts both by name.

In `RequestHandling`, `Fairness` is weak fairness of `Handle`, that is, of the server's thread in
the middle of a request. It is written out with the places where `Handle` is enabled
(`Handling`) because TLC evaluates `ENABLED` on the string operators in exponential
time; that it is enabled in all of them is what the check for deadlock shows. Clients and those who
change the files owe nothing.

**Findings.** Four runs show the code doing something else than a comment of the
repository says; `PROJECT.json` quotes the lines.

1. `SocketReadPollable::notify` invokes its callback on `EAGAIN` and stays pending, so a
   second read of the same connection starts (`async_connection.cpp:89-93`).
2. One failed `accept()` loses the listener of the asynchronous server
   (`async_event_loop.cpp:30-39`, `async_listener.cpp:59-61`).
3. A GET of a directory leaves a file operation that is always ready, never progresses and
   is never asked for its deadline (`async_file_repository.cpp:41-42`).
4. `SocketConnection::write` reports a reset as `ConnectionError`, not `ConnectionClosed`
   (`connection.cpp:66-67`), and `handle_connection` then writes again.

The properties that hold despite them are stated under the faults they need: `SingleOperation`
without "spurious", `AnswersInOrder`, `ClosedForAReason` and `ImplementsHttpService` of the asynchronous
server without "spurious" and "send", `AnswersInOrder` and `ImplementsHttpService` of the synchronous
one without "send", `ListenerStays` and `EventuallyAccepted` without "accept",
`ConnectionsEnd` with requests other than for directories. `EventuallyAnswered` of
`RequestHandling` excepts the directory that is polled for ever by name. `FramesCut` and `RequestsAsSent` hold
in the synchronous server only while no NUL has been received (`Unaltered`): `connection.h:12-13`
promises an empty string at the end of the stream only, but `connection.cpp:60` gives one
also for a piece that begins with NUL, and `connection.cpp:140` then handles half a frame as a request.
When `send()` fails, `SocketWritePollable` runs its callback as if everything had been sent
(`async_connection.cpp:124-126`): the connection goes on with the next request, and where the error was
a passing one, an answer or the rest of one is missing. Under "send", therefore, only `EachAnswerWhole` is
claimed of the asynchronous server's answers.
The asynchronous server keeps NULs, and `c_str()` cuts the path at one after `canonicalize_path` has
looked at all of it (`async_file_repository.cpp:55,99,110,120`): `RulesOfTheDirectory` is claimed of paths
without a NUL in that server (`NulInPath`), and `VerdictsAsWritten` of texts without one. Of the
others nothing is claimed; `hazards` lists them.

## Proofs

`SynchronizedQueueProofs`, for any finite sets of threads and any set of elements, from
`ThreadsAssumption` and `NoItemAssumption`:

- `TypeCorrect`, `QueueProtected`, `PopsAnElement`, `FirstInFirstOut`. None of these
  invariants is inductive alone. `Inv` adds to them that the element a consumer has read is
  still the head when it removes it (`FrontStays`) and that a producer's element has not been
  added before (`FreshElements`). Mutual exclusion is proved first; from it (`OneInside`)
  nobody else moves the head while a consumer is between `front()` and `pop()`.
- `NoWakeupLost`, by counting. While a consumer sleeps, `Len(queue)` is at most the number of
  consumers on their way to the queue plus the number of producers about to notify.
  `Enqueue` adds one to both sides; `NotifyOne` moves one from the producers to the consumers;
  `Remove` takes one from both; a consumer goes to sleep only on an empty queue.
- `RefinesWorkQueue`: initial states map to initial states and every step to a step of
  `WorkQueue` or a stutter. `FreshElements` gives `Add`'s guard, `FrontStays` and
  `NothingLost` that the element removed is the next to hand over (`NextAfter`).

`AsyncServerProofs`, for any connections, requests and bounds, from
`ConnectionsAssumption` and `AsyncAssumption`:

- `PollablesHeldOnce`, under every fault. `HeldInv` adds that `op` has an entry for each
  identifier (`Shape`), that a connection has no pollable before it is accepted
  (`NoneBeforeAccept`, without which accepting could overwrite one) and that a pass leaves
  nothing behind (`PassesEnd`). Three lemmas, one per outcome of `process_pollable`
  (`ReplaceHeld`, `KeepHeld`, `KeepAndAddHeld`), carry the proof; the actions only choose
  among them.
- `ListenerRegistered`: if "accept" is not among the faults.
- `OneOperation`: if "spurious" is not among the faults. `SingleInv` adds that a read in a pass
  has something to read or an end to report (`ReadyReads`: what `poll()` saw is still there when
  `recv()` is called, because only the connection's own operation takes it) and the types that
  relies on (`Bytes`).

`SyncServerProofs`, for any connections, requests, faults and size of the pool, from
`SyncAssumption`:

- `PoolOutlivesClients`: `PoolSurvives` is inductive by itself. It speaks of exceptions only (above).
- `WorkersConserved` and `QueueKeepsTheWaiting`, from one invariant, `PoolInv`: the workers
  took the first connections of the queue in order (`TakenInOrder`), none is pushed twice
  (`PushedOnce`, which needs `Newcomers`: a connection not accepted yet is nobody's), what has
  not been taken is what is "queued" (`WaitingQueued`). So a worker always takes a connection
  that nobody serves, and counting the connections being served (`FinitelyBusy` makes that
  meaningful without assuming that there are finitely many connections) goes up by one when `idle`
  goes down by one. `StayBusy`, `ReturnFrees` and `StopEnds` are the three ways a step of
  `handle_connection` can go.

`RequestHandlingProofs`, for any streams, files, rules, lookups and numbers of changes and of
reads, from `RequestHandlingAssumption`, `HtAccessAssumption` and `StringsAssumption`:

- `DenialHolds`: `DeniedStaysDenied`. `DenialInv` adds that `seen` holds the present state of
  each path and that regular files have a text (`Snapshots`), that the rules opened are those of the
  request (`RulesLookedAt`) and that what is read from them is what some state of that path had
  (`RulesRead`), which `Rewrite` keeps true because it changes the file and what is open together.
  While the server waits for bytes there is no request to speak of (`ReadsNone`).
  Of `Verdict` nothing is used but that it says one of three things.
- `EndsAreJustified`: `EndsJustified`. `EndsInv` adds that a request being handled has no status
  yet, that one for which a file is looked for has passed the rules, that the file looked at after
  `access()` was there and is the one to serve, and that one that is read has passed for a readable
  one (`Places`). The states of a path only
  grow, so what explained an end once explains it still.

- `OneVersionServed`: `ServesOneVersion`. `VersionInv` says that versions of a name only go up
  (`Newest`), what has been fetched where (`Progress`), and, unless somebody has written in
  place, that the chunks so far are of the version that is open (`Reading`) and that what is
  complete stays what it was (`Complete`). A write into the open file makes the exception true in
  the same step, for good.
- `TypesHold`: `TypeOK`. `TypesInv` adds that the server reads on only while chunks are missing; that
  the versions of files are among the texts is `Snapshots` again.
- `VerdictsMeanTheText`: `VerdictsAsWritten`, for every text of rules without a NUL, address, lookup and
  width of addresses. `DenialInv` gives the text that is open; the rest is about operators. A text
  falls into two at the only place of a symbol and nowhere else (`SplitInTwo`, from `SplitMarks`); so a
  host is a block exactly if the reference says so, and the blocks made of it match the addresses it means
  (`HostMeans`; the mask of a length in range is an interval, `BlockIs`); so a line gives rules
  exactly if it is one, each with the line's word, and they match exactly if the line speaks of the address
  (`LineIs`). The first rule of all that matches is in the first line whose rules have one
  (`FlattenDecides`, by induction over the lines), which is what `Allows` asks (`AllowsIs`).

`RequestTextProofs`, from the same assumptions:

- `FramesAreCut`: `FramesCut`, for any stream and any way of cutting it into pieces. `CutInv` says
  that what has been received comes from the stream, that frames, delimiters and buffer put
  together are what has been received, and that no frame contains a delimiter that ends before
  its own does (`AllCut`). The lemmas are about `Find` and `Has`: what is found is the first
  (`FindIs`), a cut divides the text into frame, delimiter and rest (`CutIs`), and the first
  delimiter of the text is the first of the frame with its delimiter (`CutAtFirst`). The synchronous
  server's pieces that end at a NUL are whole while the stream is `Unaltered` (`PieceIs`).
- `PathsAreResolved`: `PathsResolved`, for every path that a stream can hold. First, the recursion of
  `SplitN` returns what a loop like that of `split` cuts (`SplitNLoops`), and the turns of that loop
  list the slashes in ascending order (`CutAtSlashes`, `AscendingAppend`), so what `Split` returns are
  the `Components` of the reference (`SplitIsComponents`). Then the fold of
  `CanonicalizePath` is unfolded part by part (`FoldedWalk`), and after k parts the walk `Stands` where
  the reference says: the names it holds are those of the first k parts that no part after
  them goes above (`Kept`), the parts after each of them lead down as many times more than up as there
  are names held below it (`Below`), and it has left the root exactly if some beginning of the path goes
  up more often than down. One lemma for each kind of part (`SkipStands`, `NameStands`, `UpStands`,
  `UpLeaves`).
- `RulesAreTheDirectorys`: `RulesOfTheDirectory`, for any changes of the files, and for every path in
  the synchronous server, every one without a NUL in the asynchronous. `KeptInv` says that the synchronous
  server keeps no NUL, because each piece ends before the first, and `CStringIs` that nothing is
  cut off a string without one.
  `PathInv` says that the path comes from the stream and the file looked at is `ServedPath` or
  `RulesPath`. What `Join` puts together splits into the same parts again (`JoinComponents`), because
  putting a slash between two texts concatenates their components (`ComponentsConcat`) and no component
  holds a slash; so the path of the rules is the root, the directory of what the path resolves
  to, and `.htaccess` (`RulesComponents`).

- `BadRequestsAreRefused`: `BadRequests`, for every frame. `RefusalInv` says that the frame last cut was
  accepted while its request is handled or another is read, and what a response's status says of
  it. Before the first frame there may be a response too, to an error of `recv()`, of which nothing is said.
  That the parser
  accepts what the grammar generates is `FrameIs`: `Split` cuts a frame at every end of a line, which do
  not overlap (`CRLFSeparates`, `SplitLines`); at most two cuts leave what is before, between and
  behind the first two spaces (`SplitTwice`), so the request line has its three parts exactly if the reference
  finds them (`RequestLineIs`, with `VersionIs` for the length that the code compares); each other
  line is a header exactly if it has a colon (`HeaderReads`), and one of them is "Host" to
  `ToLowercase` exactly if it is mentioned (`HeadersAre`).

`AsyncServerProofs` goes on, from the same assumptions:

- `AnswersComeInOrder`, `ClosesForAReason` and `AsyncServerImplementsSteps` (initial states map to
  initial states of `HttpService`, steps to its steps or stutters), unless "spurious" or "send" is among the
  faults: `EAGAIN` after readiness starts a second read of the same connection, and then two
  responses can cross (the first finding), and a `send()` that fails for once leaves an answer out. All three come from `AnswersInv`: the one
  operation a connection has is the next thing to do for what it has received
  (`ConnectionInOrder`: unless the client has reset the connection, `wire` holds the answers to the
  requests that have left the buffer, of the last one as much as its operation says has been moved),
  and a socket is closed only when nothing can use it any more (`OpenInUse`). The chain of callbacks between two
  operations is one step, so each action's lemma says which request leaves the buffer and what
  operation stands for it afterwards.
- `TypesHold`: `TypeOK`, under every fault (`TypesInv`).
- `AnswersStayWhole`: `EachAnswerWhole`, under every fault. There may be many operations
  now, so `WholeInv` says of each connection that the requests that have left its buffer are the
  first ones in order, that nothing has been sent for the others, that no two operations serve the
  same request, and that of the request of an operation the first `moved` parts have been sent.

`SyncServerProofs` goes on, from `SyncAssumption`:

- `TypesHold`: `TypeOK`, for all thread models and under every fault, from an invariant of its own
  (`TypesInv`), which does not speak of what has been sent.
- `AnswersComeInOrder` and `SyncServerImplementsSteps`, unless "send" is among the faults. `AnswersInv`
  says what `wire`
  holds at each place of `handle_connection` (`ServedInOrder`). It is stated only while the peer has
  not reset the connection: a `send()` that fails with a reset makes `handle_connection` write a second
  response behind half of the first (the fourth finding), of which `wire` gets nothing.

`SequenceLemmas` and `TranscriptLemmas` hold what these need of `FlattenSeq`, prefixes, first indexes and
minima, and of the operators of `Connections` and `HttpService` (`Transcript`, `NextAnswer`, `SentSoFar`, the
bytes of a client). The induction theorems of the library take an operator, which the
provers cannot instantiate; `NatSetInduction` says the same of a set of numbers, from the least
element that a set has (`LeastElement`), and carries every induction here: that `FlattenSeq`'s
recursion has one solution and what it is for each length. `StringLemmas` holds what the last two need
of `Strings`, `HttpMessages` and pieces of texts. Its lemmas are about any symbol in place of
a space or a colon (`RequestLineBy`, `ParseBy`): the SMT solver does not take strings that hold these.

Proving `VerdictsAsWritten` corrected the model: `CidrError` and `ReferenceVerdict` had been written with `CASE`
arms whose conditions overlapped, so that TLA+ left open which of them decides, though TLC always took the
first. They are chains of conditions now, in the order of the code.

Only model-checked:

- everything with liveness (the fairness in `ImplementsWorkQueue` and `ImplementsHttpService`,
  `EventuallyAnswered`, `EventuallyAccepted`, `ConnectionsEnd`, `EventuallyServed`), which is out of
  the prover's reach;
- `RequestsAsSent`, which relates the stream to what the client packed into it, and that is
  a property of the scenarios and not of the specification.

## Not modelled, and why

- The bytes of responses, content types, dates, messages of errors, logging: formatting.
- Memory errors (the NUL written past a full buffer) are outside TLA+ models, and the size of
  the receive buffer with them: a piece may be of any length.
- `bind`, `listen` and argument parsing happen once, before anything concurrent. What the size of the
  pool does to the choice of a thread model (`httpd.cpp:59`) is a formula of one line.
- What paths and rules with NULs ought to mean: they are handled as in the code, but
  `RulesOfTheDirectory` (in the asynchronous server) and `VerdictsAsWritten` claim nothing of them.
- Errors of `recv()` that are not resets, in `AsyncServer`: they drop the connection as a reset does.
- Rules that are rewritten while they are read, if they are longer than one `read()`.
- Bodies of requests: neither server reads one.
- Memory and descriptors running out.
- Test code and mocks, and the classes nothing installs (`LoggingHttpRequestHandler`,
  `TestAsyncHttpRequestHandler`, `NopDnsClient`).
- A composition of `RequestHandling` with the servers: a request's outcome is a choice in
  the servers and a computation here; the outcomes are the same ones, which is checked by reading only.

## Plan

Done: the queue, the event loop with the pollables, the synchronous server, the abstract
queue and service; the bytes, requests, paths, rules and the changing file system; of all of
them the theorems above.

Next, in this order:

1. `EventLoop`: the vectors of `loop()` index by index, refining the set-level loop of
   `AsyncServer`, and that refinement as a theorem.
2. Configuration: from the arguments to a thread model and a size of the pool, as initial
   states of `SyncServer`.
3. `RequestsAsSent` as a theorem: what `pack` must be given for its text to be parsed back.
