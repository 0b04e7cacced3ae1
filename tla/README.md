# Verification of hxrpc

TLA+ models of hxrpc, a C++ RPC framework over TCP (`src/`), the TLC runs that
check them and the TLAPS proofs about them. Paths below are relative to the
repository's `src/` directory, so `client_transport.cc` is
`src/src/client_transport.cc` in `PROJECT.json`.

Contents: the system and its parts, the modules, the runs, the proofs, what the
code does that its comments do not promise, what is left out, the plan.

## 1. The system

A client resolves a method to an endpoint, sends one frame over a pooled TCP
connection and blocks for the answer. A server runs one epoll loop that accepts
connections, cuts their byte streams into frames, dispatches each frame to a
protobuf service in the same thread and writes the answers back. Discovery is a
static table or ZooKeeper. A coroutine layer (`Task`, `AsyncRuntime`) carries the
asynchronous interface.

| Part | State it keeps | Operations | Talks to |
|---|---|---|---|
| `TcpClientTransport` | `idle_pool_` per endpoint, `pool_mutex_` | `RoundTrip` = borrow, connect, send, receive, return or close; destructor | kernel sockets, the server |
| `RpcClient` | `next_request_id_`, resolver, transport, message pool | `Invoke`, `InvokeAsync` | transport, resolver, pool |
| `Reactor` | `handlers_`, `events_`, `running_` | `Add`, `Update`, `Remove`, `Loop`, `Stop` | epoll, callbacks of the manager |
| `ConnectionManager` | `listen_fd_`, `connections_` with two buffers and an offset each | `Listen`, `AcceptLoop`, `HandleReadable`, `ProcessInput`, `Send`, `HandleWritable`, `Close` | reactor, `RpcServer::OnFrame` |
| `RpcServer` | registry, dispatcher, registrar, manager | `Run`, `Stop`, `OnFrame`, `RegisterEndpoints` | all of the above, discovery |
| `RpcDispatcher` | none of its own; locals and a closure per call | `HandleFrame` | registry, serializer, message pool |
| `ServiceRegistry` | `methods_`: service and method to the service object and its descriptor | `RegisterService`, `Find` | dispatcher |
| `AsyncRuntime` | `pending_`, `registrations_`, two mutexes, epoll and eventfd | `FdAwaiter`, `Enqueue`, `Cancel`, `Run` in a thread of its own | coroutines in any thread |
| `Task` | promise: `mutex`, `cv`, `done`, `continuation`, result | `Get`, `co_await`, final suspend, destructor | two threads |
| `MessagePool` | buckets of messages per type, a mutex | `Acquire`, `Release`, moves of `PooledMessage` | client threads, dispatcher |
| `ZkRegistrar` | a ZooKeeper session | `Register` | ZooKeeper |
| `ZkResolver` | cache per method, one-shot watches | `Resolve`, `RefreshMethod`, `OnMethodChanged` | callers, ZooKeeper's watcher thread |
| `ZkClient` | handle, watch contexts, a global "connected" flag | `Start`, `CreateNode`, `EnsurePath`, `GetData`, `GetChildrenWatched` | ZooKeeper |
| `Logger` | `queue_`, `options_`, `file_stream_`, `stopping_`, a worker thread | `Configure`, `Write`, `Run`, `WriteBatch`, destructor | all threads, files |
| `RpcCodec` | none | `EncodeRequest`, `DecodeRequest`, `EncodeResponse`, `DecodeResponse` | transport, manager |
| configuration | `config_map_`, a stack of sections while a file is read | `LoadConfigFile`, `Load`, the three `Settings::Load` | everything, at start |
| serializer, controller, types | values | pure functions, lookups | - |

What is hard about it, and what makes each part correct:

- *Pooled connections.* Nothing compares request ids in a response, so a call is
  right only if a connection returns to the pool with nothing left on it. Every
  error path has to get rid of its socket exactly once.
- *One loop, many callbacks.* A handler may close the connection whose event,
  map node or buffer its caller is still using; a batch of events may outlive the
  descriptors it names; short reads and writes interleave with new frames.
- *Cancellation across threads.* A wait travels through several queues of
  `AsyncRuntime`, guarded by different locks, while another thread destroys its
  coroutine.
- *Completion across threads.* The end of a coroutine races with `Get` and
  `co_await`; nobody may sleep through it.
- *Watches that fire once.* Callers and the watcher thread refresh one cache
  entry concurrently; a watch that is not renewed is silence for ever.
- *Sessions that outlive processes.* ZooKeeper removes a crashed server's node
  only when its session expires, which may be after the restart.
- *A closure that outlives its call.* A service may keep `done` and the response
  pointer; both refer to things that belong to the next call by then.
- *A logger that is reconfigured while it writes.* The worker writes without the
  mutex; shutdown has to find what arrived meanwhile.
- *Lengths on the wire.* Three length fields of 32 bits describe one frame and may
  contradict each other; bytes arrive in any pieces.
- *One flag for all sessions.* Every `ZkClient::Start` clears and waits for the same
  global variable.

`PROJECT.json` lists the hazards one by one, each at its line, with the
properties aimed at it.

## 2. The modules

A module models one component, or composes two. Actions have the granularity of
the atomic steps other actors can see: a system call, a critical section, a
callback, a read of a shared flag. Code between two such steps belongs to one of them. Where frames
only travel (`ClientTransport`, `ServerConnections`), bytes are abstracted to the
*parts* of a frame, its length field and its body, tagged with the request they
belong to, and a short read or write ends between two parts; what the bytes say is
`Framing`'s subject. `PROJECT.json` maps each definition to its lines. Operators named
`X_Something` right before a definition `X` are the plausible mistakes that show
that a property can fail; no specification uses them.

How the modules fit together:

```
RpcCall  <--implements-- ClientTransport
   ^
   | INSTANCE
Invocation --EXTENDS--> Dispatcher --EXTENDS--> MessagePool
Startup    --EXTENDS--> Settings   --EXTENDS--> Config
ServerConnections   Framing   AsyncRuntime   TaskPromise   ZkDiscovery   Logger

X_proof --EXTENDS--> X    for ClientTransport, ServerConnections, Framing, Invocation,
                          ZkDiscovery, Logger and Startup
Coroutines_proof --EXTENDS--> AsyncRuntime, TaskPromise
```

`ClientTransport` is shown to implement `RpcCall`; `Invocation` then uses `RpcCall`
in its place and adds what is above the transport on both sides. `Dispatcher` uses
the pool's own actions, step by step. `ServerConnections` and `Framing` split
`ConnectionManager::ProcessInput` between them: buffers, events and lifetimes in
the one, lengths and slices in the other.

### RpcCall (`include/client_transport.h`)

The promise of the `ClientTransport` interface with no sockets, threads or pool: a
call is pending, then ok or error; its request is executed at most once, before a
success and possibly after an error; the answer of a success is its own. `FairSpec`
adds that a pending call ends while the process lives.

### ClientTransport (`client_transport.cc`)

Threads in `RoundTrip`. `pc` is the position: `borrow` (waiting for
`pool_mutex_`), `connect` and `connecting` (inside it: `ConnectTo` runs with the
lock held), `send`, `recv_length`, `recv_body`, `return`, `fail`. The kernel side
is `open`, `peer`, `status` and the two streams `up` and `down` of each
descriptor; descriptor numbers are reused. The server is external: `Serve` answers
the oldest whole request of a connection, `PeerCloses` drops it, `ServeOrphan`
executes a request that was delivered before the client gave up on its
connection. `SendPart` after the peer's close succeeds, may be answered with RST,
and `SendBrokenPipe` is the SIGPIPE of the send after that. `served`, `outcome`
and `reply` record what happened to each request; they are history, no action's
guard reads `served` or `reply`.
`Interface` is the refinement mapping: `outcome`, `served`, the id in the last part
of `reply`, and whether the process has been killed.

### ServerConnections (`reactor.cc`, `connection_manager.cc`, `rpc_server.cc`)

The thread that called `RpcServer::Run`, with `pc` naming the function it is in,
plus clients, the network and a thread that calls `Stop`. `events` is what is left
of the batch `epoll_wait` returned; `Dispatch` picks any of it, since the order is
the kernel's. `Send` is part of `HandleFrame`, which continues in
`HandleWritable`'s loop and returns to `ProcessInput` through `caller`. Reading a
handler or buffer that has been erased is undefined: `CallFreedHandler` and
`ReadFreedInput` let it go wrong or appear to work. The dispatcher answers every
frame synchronously, with a response or a framework error; which of the two does
not matter here.

### AsyncRuntime (`async_runtime.cc`)

A *wait* is one `co_await` of an `FdAwaiter` with its state, registration and
token. Coroutines suspend (`Suspend`) and are destroyed (`DestroyFrame`, then
`CheckToken`, `CancelPending`, `CancelRegistration`, one per critical section) in
any thread. The runtime's thread runs `RegisterPending`, `epoll_wait`, the
dispatch of its events and `ExpireTimedOut`; `ResumeReady` is a subroutine with
three steps, `CheckCancelled`, `Complete` and `Resume`. `EPOLLONESHOT` and
`EPOLL_CTL_MOD` are modelled in `armed`: which wait the kernel will report for a
descriptor.

### TaskPromise (`include/task.h`)

The promise of a `Task` between the owner, which calls `Get` or awaits it, and the
thread the coroutine ends in. `Get` is split at its lock, the test of `done` and
the atomic unlock-and-sleep of `cv.wait`; `FinalAwaiter` at the locked write of
`done`, `notify_all` and the read of `continuation`. The body suspends as often as it
likes and in any thread it runs in. The runtime is external and resumes a suspended
coroutine once for each suspension. The specification is `TaskSpec`, with `TaskInit`,
`TaskNext` and `TaskTypeOK`, so that one module can extend both coroutine modules.

### MessagePool (`message_pool.cc`)

Handles acquire (pop under the lock, clear outside it; or allocate), fill, move
and release (clear, then push under the lock or free when the bucket is full).

### ZkDiscovery (`service_discovery.cc`, `zookeeperutil.cc`)

One method, several server processes that register, crash, exit and restart, and
one client process with callers and ZooKeeper's watcher thread. ZooKeeper is
external: nodes, ephemeral nodes with the session that owns them, one-shot child
watches. `CreateNode` is two steps, `zoo_exists` and `zoo_create`; `EnsurePath`
goes through the levels of the path. `RefreshMethod` is `zoo_wget_children`, one
`GetData` per child, then the store under the cache's lock. Up to `MaxFailures`
calls fail or live sessions expire (`LiveSessionExpires`, next to the `SessionExpires` of
a dead process); the history variables `failures` and `raced`
record that one has, and that the instances changed while a caller was inside
`RefreshMethod`.

### Dispatcher (`rpc_dispatcher.cc`, `service_registry.cc`, `rpc_server.cc`)

`HandleFrame` on the loop thread, one action per stage: decode, find, acquire and
parse the request, acquire the response, `CallMethod`, the check of the closure,
serialize, the destructors of the two pooled messages, and `OnFrame`'s reply. A
service fills or leaves the response, calls `SetFailed`, or keeps the closure and
the response pointer; `LateFill` and `LateRun` are what it does with them in a
thread of its own. The history variable `disturbed` has the frames whose response message
was written in that way while `HandleFrame` held it. `done_called` is one variable, not one per frame: it is a place
on the loop thread's stack, which the next `HandleFrame` reuses.

### Invocation (`rpc_client.cc`)

`RpcClient::InvokeAsync` above `RpcCall` on the client's side, `Dispatcher` on the
server's. `Receive` hands a frame to the dispatcher: that of a call (a step of
`RpcCall!Execute`, also after the call has failed) or any frame of another client.

### Framing (`codec.cc`, `connection_manager.cc`, `client_transport.cc`)

One connection as two sequences of cells. A length field is one cell whose value is
below `Word`, the model's 2^32; a `size_t` is not reduced, a value stored into a
`uint32_t` is. `EncodeFrame`, `SplitFrame`, `DecodeRequest` and `DecodeResponse` are
operators; a slice that `substr` would refuse is the value `OutOfRange`. `Recv`
takes any number of cells in `Arrivals`, so frames arrive in pieces and together. A
stranger may write cells to either side instead of the framework's own peer.

### Logger (`logger.cc`)

Writers, the worker and the main thread, with `mutex_` modelled where it is held
across a step. `WriteUnlocked` is two steps, stderr and file. The worker writes its
batch without the mutex under which `Configure` replaces options and stream, a data
race: lines it touches are `disturbed` and their file output may be missing.

### Config, Settings (`config.cc`, `settings.cc`)

`Config` reads a file line by line: a line has an indent, a key and a value, the
stack of open sections is popped to the line's indent, entries go to the flat table
under their path. `Settings` builds the three configurations from the table, with
ports cut to 16 bits as `static_cast<std::uint16_t>` does, and `StaticResolver`'s
choice of an endpoint. A value is a text, known by what the parsers see of it: empty, a
word, a number at its front, or a list of `host:port` items. Where the code joins a host
and a port with a colon and splits the result again, either may hold colons of its own
(`ParseJoined`): a host `h:8080` brings its own port.

### Startup (`service_discovery.cc`, `zookeeperutil.cc`, `rpc_server.cc`)

The process after its settings are loaded: the discovery factory, one thread per
`ZkClient` in `Start` (clear the flag, `zookeeper_init`, wait), `GlobalWatcher` in
ZooKeeper's threads, and `RpcServer::Run`, which registers one method after the other
(`RegisterMethod` is the first, `RegisterEndpoints` the end; a failure may come before,
between or after) and then listens.

Each `MC...` module extends its component with what TLC needs: symmetry sets, the
requests, pages of configuration lines and restarts of the instance.

## 3. The runs

| Run | Instance | Properties |
|---|---|---|
| `client` | 2 threads, 2 endpoints, 2 descriptors, pool of 1, 2 calls | `TypeOK`, `OneOwner`, `ResponseMatchesRequest`, `RightEndpoint`, `AtMostOnce`, `ImplementsRpcCall` |
| `server` | one client with 2 pipelined requests, one that comes and goes, descriptors 1-3, batches of 2, send buffer of 1 part | `OneTable`, `OutputSubscribed`, `ResponsesInOrder`, `EventsNotStale`, `RequestsAnswered`, `StopReturns` |
| `server_freed_handler` | as above | counterexample to `HandlerAlive` |
| `framing` | `Word` 8, frames up to 6, 2 requests out of 5 sizes, 4 answers, reads of 1, 2 or 6 cells, 169 strange inputs | `NoSliceOutside`, `MessagesIntact`, `FramesHandled` |
| `invocation` | one call, one frame of another client, 3 messages, buckets of 1, two services of one name | `RepliesUndisturbed`, `RepliesAsSpecified`, `ClosureSound`, `CallerSees`, `SafeToRetry` |
| `async` | 2 waits, 1 descriptor | `InOnePlace`, `StaysArmed`, `WaitsComplete`, `NothingLingers` |
| `task` | 2 tasks | `NobodyLeftWaiting`, `ResultDelivered`, `OwnerGoesOn` |
| `pool` | 3 handles, 2 types, 4 messages, buckets of 2 | `OneHolder`, `ReusedAsNew` |
| `zk` | a server started twice and one started once, 2 callers, 1 failure | `WatchesBounded`, `WatchChain`, `CacheConverges`, `ListedOnceRegistered` |
| `zk_race` | 1 server, 1 caller, no failure | counterexample to `CacheFollows` |
| `logger` | 2 writers, 1 file, 3 lines, 2 calls of `Configure` | `InOrder`, `NothingLost`, `EventuallyWritten` |
| `startup` | 5 pages of configuration lines, files of up to 5 lines, 2 `ZkClient`s | `Flattened`, `SettingsUsable`, `StartsReturn`, `AnnouncedListens` |

Every module has a type invariant; run `client` checks the transport's, and those of the
other modules, most of which are proved as well, can be added to the `INVARIANTS` of
their configuration. Deadlock is checked
everywhere: a module whose system ends has an explicit stuttering step for it
(`Over`, `Ended`) or an environment that can always act.

What the less obvious properties say:

- `ImplementsRpcCall` is the whole of `RpcCall!FairSpec`: it implies that every call
  returns. `ResponseMatchesRequest`, `RightEndpoint` and `AtMostOnce` are stated
  besides because they are what is proved.
- `EventsNotStale`: no event of a batch reaches a connection that took over the
  descriptor number after `epoll_wait` returned.
- `RepliesAsSpecified` compares each reply with `Expected`, which computes the
  allowed codes from the registrations and the frame alone, not from the stages.
- `ClosureSound` is why `InlineDoneClosure` has a `called_` of its own next to
  `done_called`: a late `Run` of another call's closure writes the latter.
- `RepliesUndisturbed` is about the response pointer that such a service has kept: what
  it writes into a pooled message is cleared when `Acquire` takes the message, so only
  the calls in `disturbed`, which held it at the time of the write, can send it. That
  `Release` clears as well would not be enough, since the write may come after it.
- `SafeToRetry` names the error codes after which no service has run. The other
  codes do not tell (section 5).
- `SettingsUsable` follows every list of endpoints from the file to the resolver: one
  endpoint for each item, in order, with its host and, if the port is between 1 and
  65535, its port; a list of such items is never left out. A port out of range is
  accepted as another port, which the property leaves open (section 5).
- `Flattened` compares the table with the nesting of the lines read so far, defined
  without a stack.
- `CacheConverges` is about instances that join and stay as well as those that leave;
  it lists the two obstacles, a failed call and a change during a
  caller's refresh; `zk_race` shows that the second is one.

**Why the bounds are enough.** *Client:* the properties relate one call with the
calls before it on the same connection, and one thread with another: two calls
reuse a slot or contend for it, two endpoints let a socket land under the wrong
key, and two sockets for a pool of one let `ReturnConnection` meet a full bucket.
The proofs in section 4 remove these bounds. *Server:* with three descriptors and
two clients, a number is closed and reused while events are pending; a send buffer
of one part makes every response need a short write and an EPOLLOUT; a second
request waits in the buffer behind the first. `AcceptDone` lets `accept` fail
whenever it is called, so the descriptor limit needs no instance of its own.
*Framing:* a `Word` of 8 and a header of 3 cells put every edge in reach: an empty
header, the largest frame, one that is too large, a response whose length wraps
around, lengths whose sum does.
*Invocation:* a kept closure needs one other call to disturb; the second frame is
that call, or the disturber. *AsyncRuntime:* two waits for one descriptor are
enough for one to take over, silence or outlive the other. *Task:* tasks only meet
in the runtime's thread, so two suffice. *Pool:* three handles, two of which
contend while the third moves. *ZooKeeper:* a restart before its old session has
expired, next to another server that changes the list; two callers to miss the
cache together. *Logger:* three lines give a batch of two with one arriving behind
it, and two calls of `Configure` switch the mode there and back. *Startup:* a
nesting error needs three sections, two of equal depth and an entry; two sessions
are all the shared flag can confuse. Each page is about one part of the settings,
because the builders read disjoint keys.

**Fairness.** Fairness is assumed of threads that run code and of nothing else
without a reason. `ClientTransport`: weak fairness of every thread. It covers
connect, send and recv, all of which `ConfigureSocket` gives a timeout, so a step
of each is always possible. That the timeout is positive is an assumption here: the one
of the configuration is (`SettingsUsable`), but `RpcClient::Invoke` takes a caller's own
`CallOptions` as they are, and to `setsockopt` zero means no timeout. The mutex needs only weak fairness in an instance with
two calls, since a waiting thread is overtaken a bounded number of times.
`ServerConnections`: weak fairness of the server thread, and of clients reading
their responses (a client that does not read is owed nothing). `Framing`: weak
fairness of the loop thread, in `recv` and in `ProcessInput`. `AsyncRuntime`:
weak fairness of the runtime thread, of threads inside `Cancel` and of the clock,
and strong fairness of `EpollWait`, because `epoll_wait` is interrupted now and
then but not for ever. `TaskPromise`: weak fairness of owner and coroutine, strong
fairness of `RuntimeResume`, as the one runtime thread serves all tasks, and of
`FinalDone`, which competes for the promise's mutex with a `Get` that may be woken
spuriously, and of `ReturnResult`: a body may suspend again and again but not for ever,
as the loops that wait do so under a timeout. `ZkDiscovery`: weak fairness of the client's
threads, of registration, of the delivery of watch events and of the expiry of dead
sessions (`SessionExpires`). Nothing makes a live session expire, and starts, crashes and
exits are not fair, so that a server may stay registered for ever. `Logger`: weak fairness of the worker, which wakes every
`kFlushInterval` without being notified, and of threads inside the logger; nobody
has to call it. `Startup`: weak fairness of each thread in `Start` and `Run`, of a
reachable ZooKeeper accepting a session, and of the end of a dead process's session.

**Counterexamples.** `server_freed_handler`: `Loop` looks a handler up once per
event and calls `on_readable` and then `on_writable` through the iterator
(`reactor.cc:77-97`). When `recv` returns 0 on a connection that also has EPOLLOUT,
`on_readable` closes it, `Remove` erases the map node, and the loop reads the
erased handler. The comment at `reactor.cc:81` takes the removal of a descriptor
for safe. `zk_race`: a caller that finds no entry reads the children; the instances
change; the watcher refreshes and stores the new list; the caller then stores its
old one (`service_discovery.cc:165-167`). The watch has been renewed and nothing
else changes, so the entry stays wrong, against `service_discovery.h:86`.

## 4. The proofs

TLAPS checks every safety property of the passing runs for every value of the
constants. The proofs of a module are in `<module>_proof`; those of `MessagePool`,
`Dispatcher` and `Invocation` are together in `Invocation_proof`, since each extends the
one before, those of `Config`, `Settings` and `Startup` in `Startup_proof` for the same
reason, and those of `AsyncRuntime` and `TaskPromise` in `Coroutines_proof`, which
extends both. The theorems assume the named ASSUMEs of the modules and nothing else;
TLC evaluates them on every run. They say that bounds are natural numbers, that `None`
and other markers are not among the values they are compared with, and what the text
below adds. No set has to be finite but the callers of `ZkDiscovery`, whose number is
the bound that is proved.

| Module | Theorem | Property |
|---|---|---|
| `ClientTransport` | `TypeCorrect` | `TypeOK` |
| | `SocketsHaveOneOwner` | `OneOwner` |
| | `ResponsesMatch` | `ResponseMatchesRequest` |
| | `ExecutedAtMostOnce` | `AtMostOnce` |
| | `RequestsReachTheirEndpoint` | `RightEndpoint` |
| | `TransportImplementsRpcCall` | `RpcCall!Spec`, the safety part of `ImplementsRpcCall` |
| `ServerConnections` | `TablesAgree` | `OneTable` |
| | `OutputStaysSubscribed` | `OutputSubscribed` |
| | `EventsStayFresh` | `EventsNotStale` |
| | `ResponsesComeInOrder` | `ResponsesInOrder` |
| `Framing` | `NoSliceLeavesTheFrame` | `NoSliceOutside` |
| | `MessagesArriveIntact` | `MessagesIntact` |
| `MessagePool` | `MessagesHaveOneHolder` | `OneHolder` |
| | `MessagesAreReusedAsNew` | `ReusedAsNew` |
| `Dispatcher`, as part of `Invocation` | `EveryReplyIsAsSpecified` | `RepliesAsSpecified` |
| | `ClosuresAreSound` | `ClosureSound` |
| | `LateWritesStayOut` | `RepliesUndisturbed` |
| `Invocation` | `CallerSeesItsOwn` | `CallerSees` |
| | `RetryIsSafe` | `SafeToRetry` |
| `AsyncRuntime` | `EachInOnePlace` | `InOnePlace` |
| | `RegistrationsStayArmed` | `StaysArmed` |
| `TaskPromise` | `NobodySleepsThroughTheEnd` | `NobodyLeftWaiting` |
| | `ResultsAreDelivered` | `ResultDelivered` |
| `ZkDiscovery` | `WatchesAreBounded` | `WatchesBounded` |
| | `WatchChainHolds` | `WatchChain` |
| | `RegisteredServersStayListed` | `ListedOnceRegistered` |
| `Logger` | `LinesStayInOrder` | `InOrder` |
| | `NoLineIsLost` | `NothingLost` |
| `Config`, as part of `Startup` | `TableSaysTheNesting` | `Flattened` |
| `Settings`, as part of `Startup` | `SettingsCanBeUsed` | `SettingsUsable` |
| `Startup` | `TypeCorrect` | `TypeOK` |

Each proof module also has the theorem that its inductive invariant holds
(`Invariance`, or a name that ends so), from which the others follow; most prove the
module's type invariant besides. Hardly any property is inductive as it stands; what
each needs in addition is the content of the proof.

**ClientTransport.** `ResponseMatchesRequest` needs to know what is on the wire. `Inv`
adds, in this order,

1. `TypeOK` and `ArgsOK`: a thread in `RoundTrip` has a request id and an endpoint,
   and a socket where it should have one (`TypeInit`, `TypeStep`);
2. `OneOwner`: held and pooled sockets are open, distinct and disjoint, and nothing
   else is open. Five lemmas (`OwnerKept`, `OwnerOpened`, `OwnerClosed`,
   `OwnerPopped`, `OwnerPushed`) cover what a step can do to ownership; every
   action cites one of them (`OwnerStep`);
3. `CallsOK`: request ids in flight are distinct and fresh (`IdsOK`); an abandoned
   request belongs to a failed call and has not been executed (`OrphansOK`); a
   pooled connection is empty in both directions and leads where its key says
   (`PoolQuiet`); and the parts on a borrowed connection are those of the
   borrower's own exchange, as far as its `pc` has got (`ExchangeOK`). Since a
   socket has one owner, a step of one thread leaves the exchange of another alone
   (`ThreadKept`, `OwnStep`, `PrivateStep`), and a call that ends with an empty
   connection restores `PoolQuiet` (`FinishStep`, `CloseAndFinish`). `CallsStep` has
   one step per action.

The refinement has one lemma per kind of step: `CallIsInvoke`, `ErrorIsFail`,
`ReturnIsSucceed`, `ServeIsExecute`, `OrphanIsExecute`, `KillIsDie`, and `Invisible`
for what callers cannot see. `ServesARoundTrip` is the fact behind it: a request that
the server can read whole is that of one thread that is still in `RoundTrip`, so its
call is pending and not executed.

**ServerConnections.** `Tables` joins the three tables with the position of the
thread: in which functions the connection is there (`Attached`), and about what a
waiting event is (`Pending`). The last is why `EventsNotStale` holds: a handler only
closes its own descriptor, and no event of the batch for that one is left.
`ResponsesInOrder` speaks of a whole history. To avoid an induction over it, `All(c)`
is the endless sequence of the parts of a client's requests, and `Link` and `Order`
say of each buffer, socket and offset which piece of that sequence it holds, and that
the pieces follow each other. The lemmas about pieces (`AlongAppend`, `AlongTail`,
`AlongConcat`, `AlongCut`) are all that appending, cutting and short writes need.
`Dangling` says the same of the freed buffer that `ProcessInput` may go on reading:
with it, the order survives that undefined step as it is modelled.

**Framing.** `NoSliceOutside` follows from the checks alone: the lemmas on `SplitFrame`,
`DecodeRequest` and `DecodeResponse` take any sequence of cells and any `Word`. For
`MessagesIntact`, decoding is first shown to undo encoding (`SplitOfEncode`,
`ParseOfSerialize`, `RequestRoundTrip`, `ResponseRoundTrip`) when the lengths fit. Then
`ServerStream` and `ClientStream` say that the bytes under way are the frames not yet
decoded, one after the other. `Laid` says this with a function `off` from frames to the
offsets where they end, so that nothing is recursive; a frame is added at the end
(`LaidAppend`), found at the front (`LaidFront`) and cut off (`LaidCut`). The only
assumption of substance is `HeaderSize < MaxFrame < Word`, true of 4 MiB and 2^32. The
proof did not go through for an earlier statement, which asked only that the lengths
of *requests* fit 32 bits. A response whose length wraps around breaks it;
`OwnReplies` now says so, and run `framing` has such a response.

**MessagePool, Dispatcher, Invocation.** `PoolInv` states `OneHolder` without counting:
the slots of the buckets and the holding handles are pairwise different, and what is on
the heap is in one of them (`BucketsOK`, `HandlesOK`, `Apart`, `NothingLeaks`). Every
action is one of six kinds of step on a handle (`HandleStep`), so the dispatcher's
actions, which are the pool's with more around them, cite the same six lemmas. Above it
`StageOK` says what is known of the frame at each stage of `HandleFrame`, `FrameOK` what
stays known of it afterwards, with the codes that the registrations allow. At the check
of the closure it matters that `called` is per request and `done_called` is not: a late
`Run` changes the latter only. `ContentOK` follows the data from `Acquire` through the service
to the reply, for every frame that is not `disturbed`; it says nothing of what lies in the
buckets, since a kept pointer may write there, and needs nothing, since `Acquire` clears. A
late write goes to a message that `HandleFrame` does not hold, or disturbs its frame, or is
the frame's own. And `CallsOK` relates each call's outcome with
`RpcCall`'s variables and with the dispatcher's reply.

**AsyncRuntime.** The five places of a wait are disjoint; what is in one is suspended or
destroyed, and what is suspended is in one (`Disjoint`, `FramesOK`). `LocalsOK` is the
part that is easily forgotten: the local vectors of the loop are empty where the loop
fills them again, although `ResumeReady` interrupts it.

**TaskPromise.** Per task, `PromiseOK`, `FrameOK` and `OwnerOK`. The step that decides is
`falling_asleep`: the owner has seen `done` unset and still holds the mutex, so the
notification is still to come when it sleeps.

**ZkDiscovery.** `WatchesBounded` needs the callers that are inside `RefreshMethod`: while
the cache is empty, each watch stands for one of them; once it is filled no caller adds
one, except those that have missed it already (`OneWatchPerCaller`). `ListedOnceRegistered`
needs that a process that runs has a session number (`Numbered`), and one lemma about what
the steps of a server do to its node (`OwnRegistration`).

**Logger.** `Sorted` is `InOrder` by position. It is preserved because whatever has been
written is older than what waits (`Behind`: queue, batch and writers on the synchronous
path) and what waits is in order (`Waiting`). `Kept` accounts for every queued line.

**Config, Settings, Startup.** `Flattened` compares what a stack did with a definition
that has none: the sections around a line are those before it that no line since is as
shallow as. `Stacked` is the link: the stack holds the sections that the *end* of the file
is in (`OpenIn`), in the order of the file, so that depths grow along the stack and
`Popped` cuts it where they reach that of the line (`PoppedSections`). What is left is
what is around the new line, and what was around the older lines does not change
(`AppendContent`, `PathKept`). Both definitions put names together with `FlattenSeq`,
which is never unfolded for this: both give it the same argument. `PathOf` finds its n-th
section by counting; `Lists` says that a function lists a set of line numbers in
increasing order, and counting finds the n-th place of such a list (`ListNth`). `Nested`
keeps a list for every entry in the invariant, since that every set of numbers has one
would be an induction of its own.

`SettingsUsable` needs the paths to be sequences, to take a service's key off a path and
put the path together again (`KeyOfPath`). For that `FlattenSeq` must be shown to return a
sequence, for sections of any depth (`FlattenType`). It is recursive, and the library's
induction theorems are out of reach because their hypothesis is an operator; `SetInduction`
says the same of a *set* of naturals, from the library's fact that they are well founded,
and is enough to show that the recursion has a solution (`PartialExists`) and that any
solution has sequences as its values (`PartialType`). The rest is one lemma for each parser
and each builder. The assumption is `LinesAssumption`: a line of a file has a depth, a
name of strings, and a value of one of the four kinds.

What is only model-checked are the liveness properties: the fairness part of
`ImplementsRpcCall`, `RequestsAnswered`, `StopReturns`, `FramesHandled`, `WaitsComplete`,
`NothingLingers`, `OwnerGoesOn`, `CacheConverges`, `EventuallyWritten`, `StartsReturn`,
`AnnouncedListens`. They need fairness and ENABLED, which TLAPS does not support.

## 5. Behaviour worth knowing that no run is about

The models contain these steps because the code has them.

- *SIGPIPE* (`SendBrokenPipe` in both transport modules). `send` is called without
  `MSG_NOSIGNAL` and nothing ignores the signal, so a peer that has closed a
  connection can end the process at the second send, although
  `client_transport.h:52` says that failures halfway become an `RpcError`.
- *A freed input buffer* (`ReadFreedInput`). A send that fails inside
  `ProcessInput` closes the connection; the loop goes on with its reference to
  `input_buffer` (`connection_manager.cc:222-249`).
- *Frames dropped at end of stream* (`RecvCloses`). `HandleReadable` processes its
  input only after EAGAIN: complete frames that arrive together with the client's
  FIN are dropped, although `connection_manager.h:14` says complete frames go to
  the dispatcher.
- *A lost Stop* (`LoopStart`). `Loop` starts with `running_ = true`, so a `Stop`
  between the start of `Run` and that line is overwritten (`reactor.h:42`).
  `StopReturns` is therefore stated for a loop that has begun.
- *Resuming a destroyed coroutine* (`ResumeFreed`). `ResumeReady` tests `cancelled`
  and resumes in separate steps; `~FdAwaiter` in another thread fits between them,
  against `async_runtime.h:43`.
- *Negative timeouts* (`Suspend`). The deadline is `now + timeout_ms`, also for a
  negative value, which expires at once; `reactor.h:45` calls it no timeout.
- *A promise destroyed under notify_all* (`FinalFreed`). `done` is set under the
  lock and the notification follows without it; a `Get` in between returns and
  `~Task` destroys the promise (`task.h:115-119`).
- *Awaiting a waiting task* (`AwaitSuspend`, `AwaitSuspendUndefined`).
  `await_suspend` returns the awaited task's handle, so a task that waits in
  `AsyncRuntime` is resumed before its event, and one that is running or has just
  ended is resumed although it is not suspended.
- *Two servers starting together* (`RegisterFails`). A node created between
  `zoo_exists` and `zoo_create` makes `CreateNode` fail, although
  `zookeeperutil.h:31` says that an existing node counts as success.
- *A restart before the session expires* (`CheckExists`, `SessionExpires`). `CreateNode`
  finds the ephemeral node of the crashed predecessor and returns success, "to support
  repeated registration" (`zookeeperutil.cc:83`); when the old session expires the node
  goes, and the server runs on without being listed. `ListedOnceRegistered` names this
  and the loss of the server's own session as the only ways to go unlisted.
- *A watch that is not renewed* (`GetChildrenFails` in the watcher thread). The
  error is logged and the entry kept; no later change is heard of. `WatchChain`
  names this as the only way to lose the watch.
- *A late closure* (`LateRun`, `LateFill`). `InlineDoneClosure` writes through a
  reference to `done_called`, which is gone when a service runs it after
  `CallMethod`; and the response pointer it kept is in the pool or belongs to another
  call (`rpc_dispatcher.cc:65-81`). `ClosureSound` shows that `called_` keeps a wrong
  kOk out. Wrong *data* is kept out by the clearing in `Acquire`, but not when the late
  write meets a call that holds the message: `RepliesUndisturbed` and `CallerSees`
  except such calls.
- *SetFailed is lost* (`Serialize`). The dispatcher does not look at the controller
  after `CallMethod` (`rpc_dispatcher.cc:85`): the client gets kOk.
- *Error codes that do not tell* (`RoundTripFails`, `RoundTripReturns`).
  kNetworkError, kInvalidPacket, kSerializeError and kDeserializeError are returned
  for calls that were executed and for calls that were not; kInternalError for one
  that may still be running.
- *A response that is too large* (`ReceiveFrame`). The server sends frames of any size,
  the client refuses more than 4 MiB after the call was executed
  (`client_transport.cc:313`).
- *Lengths cut to 32 bits* (`EncodeFrame`). A request of 4 GiB is sent with a small
  length field and the server reads the rest as frames (`codec.cc:20`); a response of 4
  GiB does the same to the client.
- *Start on another session* (`StartReturns`). Any session sets `g_connected`, so
  `Start` returns in a client whose own session is not connected and whose first call
  fails, although `zookeeperutil.h:28` says that success means an established session.
- *An unreachable ZooKeeper* (`StartReturns` never enabled). `Start` waits without a
  timeout; the fallback to static discovery (`service_discovery.cc:216`, `232`) is
  only reached when `zookeeper_init` fails at once. Such a failure comes after the
  flag has been cleared and can leave another `Start` waiting.
- *Announced before listening* (`RegisterEndpoints`, `ListenFails`). Between the two,
  and until the session ends when `Listen` fails, clients are sent to a server that
  is not there.
- *A caller's own timeout* (`RoundTrip`). `CallOptions` with `timeout_ms` 0, which the
  configuration refuses, reach `setsockopt` unchecked and mean no timeout: the call then
  waits as long as its peer keeps silent.
- *Ports above 65535* (`ParseEndpoint`) become another port silently
  (`settings.cc:38`, also `service_discovery.cc:116`): the resolver then has an endpoint
  that the file does not name.
- *A bad endpoint in a list* (`LoadDiscoveryConfig`) removes the service without a
  message (`settings.cc:144`).
- *Lines longer than 1023 bytes* are read by `fgets` as two (`config.cc:80`).
- *Reconfiguring the logger* (`AssignOptions`, `AssignStream`). A line the worker is
  writing may be lost (`logger.cc:159` against `77-78`); a synchronous line overtakes
  queued ones; a line after `stopping_` may never be written.

## 6. What is not modelled

- The coroutine variants in `client_transport.cc` (`ConnectToAsync`,
  `SendAllAsync`, `RecvAllAsync`, `ReceiveFrameAsync`, `BorrowConnectionAsync`):
  private and called by nothing. `ZkClient::GetChildren`: called by nothing.
- Time: deadlines pass, but how long a call takes is not measured. The per-call
  timeouts of `SendAll` and `RecvAll` bound each system call, not the round trip.
- `SendFrameworkError` sends nothing when the error cannot be encoded
  (`rpc_server.cc:83-86`). `EncodeResponse` fails only when protobuf cannot serialize a
  small header, so `HandleFrame` of `ServerConnections` always answers.
- Constructors that fail (`epoll_create1`, `eventfd`); `Reactor::Add` failing for an
  accepted connection; `Close` called for the listening socket by an error event on
  it; destroying a `Task` that is running, and moving one; a `Write` after the
  logger has been destroyed.
- A client that sends for ever can keep `HandleReadable` in its `recv` loop; the
  bound `MaxRequests` excludes it.
- The expiry of the resolver's own session, several methods at once, and the unlocked
  vector of watch contexts (`zookeeperutil.cc:200`).
- What protobuf does with a message, beyond success, failure and a half filled
  message; the text of paths, endpoints, log lines and errors; the characters of a
  configuration line, and a host with a comma before its first colon; the metadata and the empty cancellation functions of the
  controller.
- The benchmark and generated code: no logic of the framework.

## 7. Plan

The components of the framework are modelled, and the safety properties of the runs are
proved. What is left:

1. The safety that the liveness properties rest on, for every instance: that a `Start`
   in progress and a registered server can still take their next step.
2. The hazards without a property (`PROJECT.json` says why for each). Nearly all are
   steps that the models contain and section 5 describes; a property that excludes one
   can be stated when the code does.
