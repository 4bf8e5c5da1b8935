# unixSocket: models, checks and proofs

A verification development for the request/response library over Unix-domain
sockets in this repository: TLA+ modules, TLC configurations and TLAPS proofs.
Line numbers refer to the files under `src/`.

## 1. The system

The repository holds the same library three times, from the oldest to the
newest: `single/` (blocking, one client at a time), `poll/` and `epoll/`. Each
has a server class `UDSockServer`, a client class `UDSockClient`, a header both
share, and a few programs that drive them. All three are modelled; `epoll/`,
the newest, in most detail.

A request is a header (`RpcRequestHdr`: id and `data_size`) and a body; the
response is the same header with a new `data_size`, and the response's body.
The server copies the id, and that is all that ties a response to its request.

### Components of `epoll/`

| Component | State | Operations | Talks to |
|---|---|---|---|
| `SockIO::Buffer` (`poll_common.h:50`) | allocation `buf`, positions `s`, `e`, `size`, `fd` | `Fill`, `Dig`, `Move`, `ResetPos`, `Expand`, `Clean` (frees, closes `fd`) | `recv` fills it, the loops parse it |
| `SockIO` (`poll_common.h:188`) | none | `WriteVec` (one `writev`, retried on EAGAIN, asserted to be whole), `RecvData` (one `recv`) | the sockets |
| `UDSockServer` (`poll_server.cpp`) | `lis_sock_`, `running_`, `conn` (descriptor to `Buffer*`), the epoll set, the current batch of events | `Init`, `Run` (accept, receive, `on_request_`, answer, hang up), `Stop` | clients; `Stop` is called from another thread |
| `UDSockClient` (`poll_client.cpp`) | `sock_`, `running_`, `request_` (id to callback), the static `request_id`, `lock_req_`, `lock_send_`, the receive Buffer | `Init`, `SendRequest` (any thread), `Run` (its own thread: connect, receive, call back, hang up), `Stop` | the server; the callbacks and `on_disconn_` of the user |

`Run` of the client calls `ConnectServer`, which calls `on_disconn_`, tries
`connect` ten times, and after each failed try drops all filed callbacks
(`CleanRequest`). The drivers (`req_check_cli.cpp`, `req_check_ser.cpp`,
`loop_ser.cpp`, `test_perf.cpp`, `test_quit.cpp`) give the models their inputs:
several sending threads, a buffer one byte longer than a header, an echoing
server, a server that quits and comes back, SIGPIPE ignored.

### Components of `poll/`

| Component | State | Operations | Talks to |
|---|---|---|---|
| `UDSockServer` (`poll_server.cpp`) | `lis_sock_`, `running_`, tables of `kMaxFiles` pollfds and Buffers, `maxi`, the count `nready` of poll | `Init`, `Run` (poll, accept into the first free slot, receive, answer, hang up), `Stop` | clients; `poll/loop_ser.cpp` executes `Run` twice, on one listening socket |
| `UDSockClient` (`poll_client.cpp`) | as the epoll client, with one pollfd and a Buffer of fixed size | as the epoll client; `Run` also drops the callbacks of a lost connection | the server; the user's callbacks |

The Buffers here never grow. `SendRequest`, `ConnectServer` and `Stop` of the
client are the code of the epoll client.

### Components of `single/`

| Component | State | Operations | Talks to |
|---|---|---|---|
| `UDSockServer` (`domain_server.cpp`) | `lis_sock_`, `cli_sock_`, `running_` | `Init`, `Run` (accept one client, read and answer until it goes), `Stop` | one client at a time, blocking |
| `UDSockClient` (`domain_client.cpp`) | `sock_`, `running_`, `request_` with the time of each call, `lock_req_`, `lock_send_` | `Init`, `SendRequest`, `Run` (blocking receives with a timeout), `CleanTimeoutRequest`, `Stop` | the server; the callbacks and `on_disconnect` |

`SendBytes` and `RecvBytes` loop over partial sends and receives and read
`sock_` anew each time.

### What is hard about it

- *Framing*: the stream is cut anywhere, the buffer is small and grows while a
  pointer into it is held.
- *Threads without a common lock*: senders, the receiving thread and `Stop`
  share `sock_`, `running_` and `request_`; filing a callback and writing the
  request are two critical sections; `sock_` is read without a lock.
- *Loss of the connection*: at any point; reconnecting drops callbacks, numbers
  of descriptors are reused, a send may reach the next connection.
- *Full sockets*: the server's one thread blocks in a write to one client; if the
  client goes meanwhile, the write is short.
- *Memory*: events are addresses of Buffers, `conn` keeps addresses of deleted
  ones, and deleting a Buffer closes a descriptor.
- *Stop*: from another thread, before, in or after the loop.
- *A table and two counts* (`poll/` server): `nready` is counted down twice for
  a client that hangs up, `maxi` grows in the middle of a round, the revents of
  a new slot are uninitialised.
- *Timeouts* (`single/` client): a receive may give up inside a frame, what it
  has read is lost and the connection stays; a late answer races the removal of
  its callback. A send or receive that waits keeps its connection when another
  thread closes the descriptor, while the next byte goes to the next connection.

`PROJECT.json` lists every hazard at its line, with the properties that would
catch it or the reason why none does.

### What makes each component correct

- Buffer and framing: the server handles exactly the frames written, and the
  client's positions never leave the allocation.
- Client: each callback gets its own response, at most once, in the order of
  sending; nothing runs after `Stop`; loss is reported; senders never hang.
- Server: every event and Buffer in use is alive, a Buffer belongs to one
  connection, a client that stays is answered, a client that goes is cleaned up.
- `poll/`: no event is taken for another client's, frames are handled as sent,
  slots become free again; no callback stays filed for ever.
- `single/`: each callback gets its own response over reconnects and timeouts;
  nothing lingers in `request_`; client and server never wait for each other.

## 2. Modules

| Module | Models | Abstracts |
|---|---|---|
| `SockBuffer` | `SockIO::Buffer` as its positions | the bytes |
| `EpollFraming` | the loop of `UDSockServer::Run` over one connection's bytes, `epoll/poll_server.cpp:119-196` | the stream is the list of offsets at which frames begin; what a header says is known at these offsets only |
| `EpollServer` | `Run`, `Accept` and `Stop` of the server: descriptors, Buffers on the heap, `conn`, batches of events, the exit | frames are whole and counted, a response may be written in part |
| `EpollClient` | `SendRequest`, `Run`, `ConnectServer`, `CleanRequest` and `Stop` of the client, with a server that may exit and come back | a request is written whole, or in part when the server exits during the write; the last response of a receive may be there in part; `lock_req_` sections are single steps |
| `EpollSend` | `lock_req_`, `lock_send_`, `WriteVec` in pieces, both directions' sockets with limited room | the connection stays up |
| `RpcClient` | what a user of the client is promised: the abstract specification | threads, sockets, buffers |
| `PollServer` | `Run`, `Accept` and `Stop` of `poll/poll_server.cpp`: the table, the counts, the fixed Buffers, the bytes of every client | a response is written whole |
| `PollClient` | `Run` of `poll/poll_client.cpp`: the pollfd, the Buffer that may be too small, reading before hanging up | as `EpollClient`, which it extends |
| `SingleServer` | `Run`, `RecvBytes`, `SendBytes`, `CleanSocket` of `single/domain_server.cpp`, exits and restarts, and the two streams in units of every connection there has been | a unit is a header or a piece of a body |
| `SingleClient` | `SendRequest`, `SendBytes`, `Run`, `ConnectServer`, `RecvBytes`, `CleanTimeoutRequest`, `Stop` of `single/domain_client.cpp`, against `SingleServer` | time is the set of calls old enough to be removed |
| `MCEpollFraming` | values for TLC | |
| `EpollFraming_proofs`, `EpollClient_proofs`, `EpollSend_proofs`, `EpollServer_proofs`, `PollServer_proofs`, `PollClient_proofs`, `SingleClient_proofs` | theorems and their proofs | |
| `PipeLemmas` | lemmas about sequences made of several buffers | |

`EpollFraming` extends `SockBuffer`; `EpollClient` instantiates `RpcClient`
with a refinement mapping (`KeepsPromise`), and `PollClient`, which extends it
and replaces the receiving thread, is checked against the same specification.
`SingleClient` extends `SingleServer`: this is the composition of a client and
a server. The three views of the client/server
pair (bytes, locks and room, connections) meet in what each assumes of the
others: `EpollClient` and `EpollServer` carry whole frames, which is what
`HandledAsSent` of `EpollFraming` and `FramesUnmixed` of `EpollSend` establish.

Definitions keep the source's names (`running`, `sock`, `request`, `conn`,
`Move`, `Expand`, `Register` for the first critical section of `SendRequest`,
...). A variable with `pc` in its name is where a thread stands. An operator
whose comment begins with *Faulty* is a plausible mistake in the action that
follows it; no specification uses it, and each property is shown to fail when
the mistake replaces the action (`mutants` in `PROJECT.json`).

### Where the granularity comes from

- A step between two accesses of shared state is a step of the model:
  `SendRequest` reads `sock_` (`LockSend`) before `WriteVec` uses it (`Write`);
  the client's `Run` tests `sock_`, waits, receives and dispatches in separate
  steps; `Stop` resets the flag and closes the socket in two.
- What is under `lock_req_` is one step in `EpollClient`, and lock and unlock are
  steps of their own in `EpollSend`, where waiting for locks is the question.
- The kernel: a descriptor number closed may be given to the next socket
  (`Reaches` in `EpollClient`, `LowestFree` in `EpollServer`); `epoll_wait`
  reports what was ready when it was called, in any order; EPOLLHUP comes once
  the peer has closed, whatever there is to read. `poll` writes the revents of
  the slots it was asked about and of no others (`Unset` in `PollServer`); it
  reports POLLNVAL for a closed descriptor and nothing for -1.
- A blocking `recv` or `send` that has begun keeps its connection though the
  descriptor is closed meanwhile, and the connection stays as long as one of them
  does; the next call reads `sock_` again. `SingleClient` records the connection
  each is in (`rfd`, `sfd`), and closes those nobody refers to (`NetBecomes`).
  In `SendBytes` this is a matter of every byte: the header is sent in two steps,
  its first byte and the rest, the body in one.
- A blocking `writev` that has written a part waits for room. When the peer goes,
  it returns the length of the part, not -1: `RespondPart` and `RespondAborts` in
  `EpollServer`, `ServerExits` and `WriteAborts` in `EpollClient`. An assertion
  that fails ends the process: every thread is then "aborted".
- `connect` fails when the server is down, and on the non-blocking socket of
  `ConnectServer` also when the backlog is full (`Backlog` in `EpollClient`);
  `accept` fails when no descriptor is free (`AcceptFails`, `Accept` of `PollServer`).
- A header read where no header begins may show anything: `HeaderAt` in
  `EpollFraming` and `PollServer`, `Header` in `SingleServer`.

## 3. Runs

| Run | Instance | Properties |
|---|---|---|
| `epoll_framing` | header of 2 units, buffers of 2, 3 and 6, bodies of 0, 1 and 4, 4 frames, every cut of the stream, the client may close at any time | `TypeOK`, `InBounds`, `RoomToRead`, `HeadIsLive`, `HandledAsSent`, `MoveDisjoint`, `EventuallyHandled` |
| `epoll_client` | 2 threads, 1 call each, the server exits once, 2 connect attempts, 2 spare descriptors, fairness | `TypeOK`, `OwnResponse`, `FailedNeverCalled`, `CalledInSendOrder`, `KeepsPromise`, `AnsweredWhileConnected`, `LossNoticed`, `Reconnects`, `StopReturns` |
| `epoll_client_unanswered` | 1 thread, 1 call, one exit, 1 attempt, fairness | `UnansweredDropped` fails |
| `epoll_send` | 2 threads, 3 calls each, frames of 3 units, room for 2, fairness | `TypeOK`, `FramesUnmixed`, `FiledBeforeSent`, `CallsReturn`, `CallsAnswered` |
| `epoll_send_partial` | 1 thread, frames of 2 units, room for 1 | `WritesWhole` fails |
| `epoll_server` | 2 clients, 2 requests each, 3 descriptors of which 1 or 2 may be free, room for 1 response, fairness | `TypeOK`, `EventsValid`, `OwnConnection`, `RequestsAccounted`, `EventuallyAnswered`, `HangupCloses`, `RunReturns` |
| `epoll_server_abort` | 2 clients, 1 request each | `WritesWhole` fails |
| `epoll_server_twice` | 1 client | `DeletedOnce` fails |
| `poll_server` | 2 clients, tables of 2 and 3, buffers of 4, headers of 1, bodies of 0, 1 and 4, 2 frames in all, every cut of the streams, fairness | `TypeOK`, `EventsCurrent`, `HandledAsSent`, `EventuallyHandled`, `HangupFrees` |
| `poll_server_body` | 1 client, 1 frame | `BodyPassed` fails |
| `poll_client` | 2 threads, 1 call each, one with a response larger than the buffer, one exit, 2 attempts, 1 spare descriptor, fairness | `PollTypeOK`, `KeepsPromise`, `AnsweredOrDropped` |
| `single_rpc` | client and server; 2 calls from 2 threads, room for 1 unit each way, misread sizes of 0 and 2, one exit, 1 attempt, 1 spare descriptor, fairness | `TypeOK`, `OwnResponse`, `NothingLingers`, `CallsReturn` |

What they show, beyond the types:

- **Framing.** The positions stay in the allocation; there is always room to
  receive (a full buffer would make the loop spin); the header pointer is never
  read after `Expand` has freed what it points to; `on_request_` sees the frames
  of the client, each once and in order; a frame is handled once a byte beyond
  its header is there. `MoveDisjoint` states when the `memcpy` of `Buffer::Move`
  is defined: with requests of one size always, with mixed sizes not (TLC finds
  the overlap when the condition is dropped).
- **Client.** `KeepsPromise` is the refinement of `RpcClient`: the requests in
  flight, over all connections, are one queue; callbacks run in its order; an
  error of `SendRequest` means never answered; when `on_disconn_` is called the
  queue is empty; after `Stop` nothing runs. `FailedNeverCalled` and
  `CalledInSendOrder` hold although `sock_` may change between its read and its
  use.
- **Locks.** Four actors each waiting for room or a lock: two senders, the
  receiving thread, the server. `CallsReturn` would fail if `lock_req_` were
  held over the write (that is the mutant).
- **Server.** A batch never holds the address of a deleted Buffer; a Buffer
  never sits on a descriptor that was given to somebody else; requests are
  neither lost nor answered twice; the exit terminates. A client that stays is
  answered, unless another one goes in the middle of a response and the assertion
  of `WriteVec` ends the server (`epoll_server_abort`).
- **Poll server.** `EventsCurrent`: a slot filled in this round has revents that
  poll never wrote, and `maxi` lets the loop reach it; only the count keeps it
  away. `nready` is what poll reported, Accept takes one off, and each slot
  served takes one or two: it is used up before the new slot. Counting Accept
  (that is the mutant) is essential. Counting a hangup twice only ends a round
  early, and poll reports again what was left: `EventuallyHandled` and
  `HangupFrees` hold. A client that leaves a full Buffer behind is never
  noticed: the loop goes on before it looks at POLLHUP, and sleeps a second in
  every round.
- **Poll client.** It drops the callbacks when it sees the connection lost, so
  `AnsweredOrDropped` holds where the epoll client fails
  (`epoll_client_unanswered`): also of a request that was written after the drop,
  whose connection is closed under it and lost in turn. A response larger than
  the Buffer ends this (`full`).
- **Single.** `OwnResponse` holds over lost connections and reconnects and fails
  only after a receive has timed out inside a response, or a request's pieces
  have gone to two connections (`torn`: TLC finds wrong callbacks by either). Even
  then every callback leaves `request_`, and a call returns as long as `Run` is
  there, with one exception (`Stranded`): `Run` starts after a `Stop` and undoes
  it, a sender still waits on the connection `Stop` has closed, and the server
  waits there for somebody to read its answers. `Run`, connected again, only sees
  its receives time out. TLC finds this when the exception is dropped.

### Bounds, and why they are enough

*Framing*: a buffer of 2 can hold a header only, the one of 3 is the driver's
(`sizeof(RpcRequestHdr) + 1`), the one of 6 holds several frames; bodies of 0, 1
and 4 need no growth, growth, and growth from every size; four frames give a
complete one, one in pieces and something to move. *Client*: one exit of the
server gives every race of a send with a loss and a reconnect; two attempts give
a failed attempt followed by a success and by giving up; two spare descriptors
give exhaustion after a leak that was survived; two calls give every order of two
frames, in one receive or in several. *Send*: a frame larger than the room, so that every write has
to wait for its reader, in both directions. *Server*: with two clients and one
free descriptor the second gets the first one's number; both may be in one batch.
*Poll server*: two frames may come in one receive, one may be larger than the
buffer or fill it with a piece; a table of 2 refuses the second client or gives
it the slot of the first, a table of 3 has both in one round; either may be taken
by the other `Run`. *Poll client*: as the epoll client; a response that fits and
one that does not. *Single*: room for one unit makes both sides wait for every
unit; a misread size of 0 is skipped, of 2 swallows the next frame's unit; an
exit gives a reconnect between any two pieces of a request, and a `Stop` that is
undone a second one while a send still waits on the first connection.
`MaxConns` numbers the connections and never bites: a new one is made only after
an exit or the one `Stop`, so `MaxCrashes + 2` are enough.
The theorems of section 5 remove these bounds for every safety property and for
the refinement; for liveness the bounds remain.

### Fairness

- `EpollFraming`, `EpollServer`: the thread in `Run` is not stopped between two
  steps (`WF` of `Run`); `epoll_wait` has a timeout of 10 ms, so the loop's
  condition is looked at again. In `EpollServer` a client reads its responses
  (`WF` of `ClientReads`), as `UDSockClient` does in a thread of its own. No
  client has to send, close or come.
- `EpollClient`: each thread inside `SendRequest`, the thread in `Run`, a `Stop`
  that was called, and a server that is up and has requests. A server that is
  down need not come back, nobody has to call. `lock_send_` is given to somebody
  whenever it is free; each thread makes a bounded number of calls, so weak
  fairness is enough. Nothing is assumed of the backlog (`Reconnects` ends while it
  is full) or of a server that exits during a write.
- `EpollSend`: the same.
- `PollServer`: `Run` and `ClientReads`, as `EpollServer`; a client that sends or
  goes is not forced to. `accept` may fail for want of a descriptor, but not for
  ever (`SF` of `Accept` with a client): whether the process gets its descriptors
  back is not the library's to decide. `PollClient`: as `EpollClient`.
- `SingleClient`: a call that has begun, `Run`, a `Stop` that has begun, time
  (`Age`), and the server while it is up. The server need not come back.

Where a liveness property has an escape, the escape is what the code does:
`leaked = MaxFds` (the client leaks the socket of a failed `ConnectServer`, and
without descriptors never reconnects), `FreeFds = {}` (a client that nobody can
accept), `rpc`/`pc` in the start-up steps (a `Stop` that comes before `Run` sets
`running_` is undone), `Aborted`, `pc = "aborted"` and `spc = "aborted"` (the
assertion of `WriteVec`), `full` and
`have[i] = BufferSize` (Buffers of `poll/` that do not grow), `rpc = "exit"` in
`CallsReturn` of `SingleClient` (nobody reads the responses any more, the server
waits for room and so does the sender), `Stranded` (the same with a `Run` that has
another connection), `spc # "idle"` where a `Stop` ends what
was promised. Without any one of them TLC finds the behaviour described.

The four safety properties of `EpollClient` hold until a `Stop` is undone
(`StopUndone`): a `Stop` before `Run` has set `running_` closes the socket, `Run`
carries on and reconnects without emptying its Buffer, and the bytes of an old
response are taken for the beginning of a new one.

`CHECK_DEADLOCK FALSE` is in every configuration: all bounded behaviours end,
after the last call, in a state in which nothing is left to do.

## 4. Findings

1. `epoll/poll_common.h:206` asserts that `writev` wrote everything. After a
   reconnect the client's socket is non-blocking (`poll_client.cpp:59`), a frame
   larger than the room in the socket is written in part, and the process aborts
   (`epoll_send_partial`). On a blocking socket, as `Init` makes it, the count is
   short only when the peer goes during the write: finding 5 for the server,
   `WriteAborts` of `EpollClient` for the client.
2. `epoll/poll_common.h:22` announces `kCleanTimeoutRequest`, as `single/` has
   it. Nothing in `epoll/` uses it: a request is sent, `SendRequest` returns 0, the
   server exits without having answered, and the first reconnect attempt
   succeeds: the callback stays filed for ever and never runs
   (`epoll_client_unanswered`).
3. `epoll/poll_server.cpp:200` guards the deletions after the loop with
   `if (it->second)`, but EPOLLHUP (line 140) deletes a Buffer without touching
   its entry: unless its descriptor was reused, the Buffer is deleted twice
   (`epoll_server_twice`).
4. `poll/poll_server.cpp:169` hands `on_request_` the frame from its header on,
   where `single/`, `epoll/` and the client hand over the body: the server of
   `poll/loop_ser.cpp:7` returns what it was given, and `poll/test_req.cpp:16`
   expects its own number back (`poll_server_body`).
5. The assertion of finding 1 also guards the server's responses
   (`epoll/poll_server.cpp:172`). Accepted sockets are blocking, but a client that
   closes while its large response is partly written makes `writev` return the
   length of the part: the assertion ends the server, and the other clients are
   never answered (`epoll_server_abort`).

Reading the code showed more, which the hazards list: a body of length 0 waits
for the next frame (`poll_server.cpp:158`); a request filed just before a failed
connect attempt and written just after a successful one is answered into nothing
(`poll_client.cpp:72`); a leaked socket per failed `ConnectServer`; the undone
`Stop` described in section 3; in `poll/`, clients that leave a full Buffer
(`poll_server.cpp:146`); in `single/`, a `CleanTimeoutRequest` that never runs as
long as other responses keep coming (`domain_client.cpp`, after a failed receive
or connect only).

## 5. Proofs

Checked by TLAPS (Z3, Zenon and LS4), for every value of the constants: any
number of threads, calls and clients, any sizes of headers, bodies, buffers and
sockets, any number of exits, connect attempts and descriptors. The only
hypotheses are the named `ASSUME`s of the modules. Nearly all of them give a
bound its type; the others are `HeadAssumption` (a header is not empty),
`BigAssumption` (the threads with large responses are threads), `NoCallAssumption`,
`NoneAssumption` and `HoldersAssumption` (the values standing for nobody, for an
uninitialised `revents`, for a free lock and for the receiving thread are nobody
else's). TLC evaluates them in every run.

| Property | Theorem | Inductive invariant |
|---|---|---|
| `TypeOK`, `InBounds`, `HandledAsSent`, `HeadIsLive`, `RoomToRead` of `EpollFraming` | `TypeCorrect`, `BufferSafe`, `FramingCorrect`, `NoDanglingHead`, `AlwaysRoomToRead` | `Aligned`, `Decoded` |
| `MoveDisjoint` | `MoveCopiesApart` | the same, with `Consumed` |
| `TypeOK`, `OwnResponse`, `FailedNeverCalled`, `CalledInSendOrder` of `EpollClient` | `TypeCorrect`, `OwnResponses`, `NoneAfterFailure`, `SendOrder` | `Identified`, `Remembered`, `Ordered`, `Unmixed` |
| `KeepsPromise` | `Refinement` | the same |
| `PollTypeOK`, the three above and `KeepsPromise` of `PollClient` | `PollTypeCorrect`, `PollResponses`, `PollRefinement` | the same, with `PollTypes` |
| `TypeOK`, `FramesUnmixed`, `FiledBeforeSent` of `EpollSend` | `TypeCorrect`, `FramesApart`, `FiledFirst` | `OneFrame`, `Framed`, `Ending`, `Known` |
| `TypeOK`, `EventsValid`, `OwnConnection`, `RequestsAccounted` of `EpollServer` | `TypeCorrect`, `NoDeadEvent`, `BuffersOwnConnections`, `NothingLost` | named below |
| `TypeOK`, `EventsCurrent`, `HandledAsSent` of `PollServer` | `TypeCorrect`, `EventsAreCurrent`, `RequestsAsSent` | `Round`, `Seats`, `Buffered`, `Passed`, `Stream` |
| `TypeOK`, `OwnResponse` of `SingleClient` | `TypeCorrect`, `OwnResponses` | `Whole`, `Requests`, `Responses`, `Places`, `Locked` |

Each proof has one lemma per action of the next-state relation, or per group of
actions that change the same few variables; `Invariant` in the name of a theorem
means that the inductive invariant always holds, and the others follow from it.

**`EpollFraming_proofs`.** The invariant has to say where the reader stands:
`Aligned` (the first unconsumed byte is the first byte of the next frame,
whatever was cut where) and `Decoded` (a decoded header is that frame's, and the
buffer has been replaced only if the frame is not all there). `InBounds` alone is
not inductive: `Dig` stays inside only because `need` is what the loop compared
with the data. `FramesApart` (a lemma here) is what makes a header read at the
beginning of a frame unambiguous. `MoveDisjoint` needs history: `Consumed` says
that the bytes before `s` include the last frame handled, so that a piece of a
frame of the same size fits in front of it.

**`EpollServer_proofs`.** `NoDeadEvent` needs that a batch has one event per
Buffer, that what the epoll instance holds is alive, and that only the Buffer
being served is deleted. `BuffersOwnConnections` needs that the first descriptor
is the listening socket's as long as anybody is accepted, that an entry of `conn`
which names a client's Buffer, dead or alive, is that Buffer's descriptor, and
that nobody is accepted twice (`Waiting`). For `NothingLost` and `TypeCorrect`
counts are bounded only because the sum of the three places of a request is what
was asked (`Accounts`). A response written in part counts as not written: the
steps to "partial" and "aborted" change `pc` alone. The lemma `DeleteBuffer` is
shared by `Hangup` and `Cleanup`, `NextEvent` by everything that ends an event.

**`EpollClient_proofs`.** The response has nothing of the request but its id, so
the argument is about the `Pipe`: the responses received, those on their way and
the requests on their way, one sequence over all connections. `Identified`: an
id stands for one call in `request`, in the Pipe and in what a thread is about to
write. `Ordered`: the callbacks run, followed by the Pipe, are in the order of
`sent`. `Remembered`: a callback that has run is filed no more. `Unmixed`: a
response received in part is of the connection there is; without it a reconnect
could complete the old response with bytes of the new connection, and this is
what an undone `Stop` brings about, so these parts hold until `StopUndone`. The
steps of the server and of `recv` move borders inside the Pipe; a write appends;
a loss cuts off an end (`Cut`); `Dispatch` takes the first (`PipeLemmas`).
`Refinement` follows step by step: the queue of `RpcClient` is the calls of the
Pipe (`QueueOfPipe`), `Write` is `Send`, `WriteFails` is `Fail`, `Return` is
`Accept`, `Dispatch` is `Answer`, a cut is `Lose`, `Disconnected` is `Notice`,
`StopJoin` is `Stopped`; every other step leaves the abstract state as it is.

**`PollClient_proofs`.** `ClientInv` says of `Run` only what both clients have in
common, so the lemmas about `SendRequest`, `Stop`, the server and reconnecting
are those of `EpollClient_proofs`; the module proves the steps of the other
`Run`: receiving with `full`, reading before hanging up, `CleanRequest` on
hangup.

**`EpollSend_proofs`.** All units there are, from the one the client consumes
next to the one last written, are one `Stream`. Reading and answering only moves
the borders in it; a write of a piece adds at its end; a callback takes one whole
frame from its front. `Ending` ties the last unit to the thread that holds
`lock_send_` and how far it has got, which is why the next thread begins with a
whole frame behind it. `Known`: what is in the stream is filed. A call is in the
stream at most once (part of `Framed`), or taking its callback off `request_`
would leave its other units without one.

**`PollServer_proofs`.** `Round` is about a count and a table: `nready` is at most
the number of slots ahead that poll reported an event of (`Ahead`), as soon as
somebody is in the table whom poll has not looked at. It is inductive because the
slots not looked at lie behind all events of the round, because only Accept can
fill one, and because Accept has counted itself; the slots served are counted
once or twice, which only makes `nready` smaller. `Seats`: a client has not come,
waits, or has one slot. `Buffered` is `Aligned` for each client: what is in a
slot's Buffer begins with the first frame not handled, and `rcvd` and `handled`
of a client stay behind what it wrote (`Stream`, `Passed`).

**`SingleClient_proofs`.** About client and server together, connection by
connection. As long as nothing is `torn`, the requests of a connection from where
the server reads to where a thread writes are whole frames (`RequestsOn`), and so
are the responses from where the client reads to where the server writes
(`ResponsesOn`; `Framed` and `OwedAfter`, the call whose body is due next, state
both). The two ends meet in `Whole`: the data the server holds is that of the
header it has read. `Places` says which connections there can be: the newest one
is `sock_`, a receive or a send may still be on an older one, and what nobody
refers to is closed and empty. `Locked`: one thread at a time is in `SendBytes`,
and a send that waits began no earlier than the header of its frame, so it goes on
with its own frame or with a connection on which it has written nothing. A
receive in the middle of a frame whose descriptor is gone has no later connection
to go on with. The lemma `NetKept` is about the step all of them share: closing
what is referred to no more (`NetBecomes`).

## 6. Only model-checked

- Liveness under fairness, and with it `ENABLED`, are beyond the prover:
  `EventuallyHandled`, `AnsweredWhileConnected`, `LossNoticed`, `Reconnects`,
  `StopReturns`, `CallsReturn`, `CallsAnswered`, `EventuallyAnswered`,
  `HangupCloses`, `RunReturns`, `HangupFrees`, `AnsweredOrDropped` and
  `NothingLingers` hold on the instances of section 3.
- The five properties that fail (section 4) are counterexamples TLC finds.
- That the models of the epoll client, which carry whole frames, and of the
  framing, which has bytes, fit together is an argument of section 2, not a
  theorem.

## 7. Assumptions of the models

- Callbacks do not call the client: they run under `lock_req_`
  (`poll_client.cpp:166`), so one that calls `SendRequest` waits for itself. The
  drivers' do not.
- One client object per process (the static `request_id` is shared by all).
- SIGPIPE is ignored, as all drivers of `epoll/` do; `malloc` does not fail.
- `CLOSE_FD` is one step; two threads closing the same number at once are not
  modelled.
- The id counter does not wrap (64 bits), sizes are naturals (the code's are 32
  bits wide).
- `memcpy` copies overlapping areas as `memmove` does (`PollServer`, `Save`):
  glibc's on x86-64 does; `MoveDisjoint` says when `epoll/` needs it.
- The poll server's responses are written whole: an empty socket holds more than
  its Buffer, an echo is no larger, and a socket takes so little at once or not at
  all.
- `single/`: the client sends one byte per `send` and reads `sock_` for each. The
  model reads it three times for a frame: before the first byte of the header,
  before its rest and before the body. A rest of a header that comes first on a
  connection, or a body there, is a frame misread (`torn`); that a body, too, can
  be split adds another way to the same state. Every thread makes one call.
- `EpollClient`: a write that waits fails when `Stop` closes the descriptor. In the
  code it keeps the connection and may still succeed; nothing is claimed of calls
  that are under way when `Stop` comes.
- Requests to the clients' models have a body, as the drivers' have.
- A system call that only fails for lack of kernel memory (`epoll_create`,
  `EPOLL_CTL_ADD` on an open socket) does not fail.

## 8. Not modelled

- `Init` of all classes beyond its result, and its failures; formatting and
  logging; the driver programs; the makefiles.
- `SendBytes` and `RecvBytes` of `epoll/poll_common.h` and `poll/poll_common.h`:
  nobody calls them.
- `Stop` of the server of `single/`: `Init` does not start a thread
  (`domain_server.cpp:70`), and the one driver that calls `Stop` never calls `Run`.
- POLLERR in `poll/`, which the sockets used here do not report alone.
- Two clients in one process, `CLOSE_FD` as three steps, callbacks that call the
  client, sizes that overflow 31 bits: hazards without a property, each with its
  reason in `PROJECT.json`.

## 9. Plan

Done: the modules of section 2, for all three variants, and the proofs of
section 5. Left:

1. `EpollRpc`: the epoll client and server together, as `SingleClient` does for
   `single/`, with the requests of the one accounted for by the other.
2. Two clients in one process: the static `request_id` and a `CLOSE_FD` of
   several steps.
3. Proofs: action properties (what a step of `Run` or `Stop` never does), and the
   safety of what items 1 and 2 add.
