---------------------------- MODULE ClientTransport ----------------------------
(***************************************************************************)
(* TcpClientTransport (src/client_transport.cc): blocking round trips of   *)
(* several calling threads over TCP connections that are pooled per        *)
(* endpoint.  The module keeps the pool, its mutex, the process's socket   *)
(* descriptors and the two byte streams of every connection.  The peer is  *)
(* an hxrpc server: it answers the requests of a connection in order, one  *)
(* response per request, and may drop a connection at any time.            *)
(*                                                                         *)
(* A frame is two parts, its length field and its body, each tagged with   *)
(* the request id it belongs to; send and recv move one part at a time, so *)
(* every operation can fail between two parts.                             *)
(***************************************************************************)
EXTENDS Integers, Sequences, FiniteSets

CONSTANTS
    Threads,             \* threads that call RpcClient::Invoke
    Endpoints,           \* server addresses: keys of idle_pool_
    Fds,                 \* socket descriptors the process can have open
    MaxIdlePerEndpoint,  \* kMaxIdlePerEndpoint
    MaxCalls,            \* bound: calls made in one behaviour
    None

ASSUME MaxIdleAssumption == MaxIdlePerEndpoint \in Nat
ASSUME MaxCallsAssumption == MaxCalls \in Nat
ASSUME NoneAssumption == None \notin Threads \cup Fds \cup Endpoints

VARIABLES
    idle_pool,        \* endpoint -> idle sockets, the most recently used last
    pool_mutex,       \* the thread inside pool_mutex_ across a step, or None
    pc,               \* where each thread is in RoundTrip
    endpoint,         \* RoundTrip's endpoint argument
    request_id,       \* the id in the frame the thread sends
    socket_fd,        \* the connection the thread has borrowed
    offset,           \* SendAll's offset, in parts
    frame,            \* the parts ReceiveFrame has read
    next_request_id,  \* RpcClient::next_request_id_
    open,             \* the descriptors that are open
    peer,             \* descriptor -> the endpoint its TCP connection leads to
    up,               \* descriptor -> parts the server has not read yet
    down,             \* descriptor -> parts the client has not read yet
    status,           \* descriptor -> the peer's side of the connection
    orphans,          \* requests delivered on connections the client closed
    served,           \* how often the server executed each request
    outcome,          \* what each call returned: pending until it does
    reply,            \* the response frame a successful call returned
    lifetime          \* "running", "destroyed" by ~TcpClientTransport, or "killed"

argVars == <<endpoint, request_id, next_request_id>>
ioVars == <<offset, frame>>
resultVars == <<outcome, reply>>
poolVars == <<idle_pool, pool_mutex>>
wireVars == <<peer, up, down, status>>
kernelVars == <<open, wireVars, orphans, served>>
clientVars == <<poolVars, pc, socket_fd, argVars, ioVars, resultVars, lifetime>>
vars == <<clientVars, kernelVars>>

Ids == 1..MaxCalls
FrameParts == 2
\* "oversized" is a length field above kMaxFrameSize: the server does not
\* limit what it sends.
Part(id, p) == [id |-> id, part |-> p]
Parts == [id : Ids, part : {"length", "oversized", "body"}]
RequestFrame(id) == <<Part(id, "length"), Part(id, "body")>>

\* "closed" after the peer's FIN; "reset" once the client has sent something
\* after that and the peer has answered with RST.
Statuses == {"open", "closed", "reset"}

\* The positions in RoundTrip at which the thread owns its socket_fd.
Holding == {"connecting", "send", "recv_length", "recv_body", "return", "fail"}
Locations == {"idle", "borrow", "connect"} \cup Holding

Init ==
    /\ idle_pool = [e \in Endpoints |-> <<>>]
    /\ pool_mutex = None
    /\ pc = [t \in Threads |-> "idle"]
    /\ endpoint = [t \in Threads |-> None]
    /\ request_id = [t \in Threads |-> 0]
    /\ socket_fd = [t \in Threads |-> None]
    /\ offset = [t \in Threads |-> 0]
    /\ frame = [t \in Threads |-> <<>>]
    /\ next_request_id = 1
    /\ open = {}
    /\ peer = [fd \in Fds |-> None]
    /\ up = [fd \in Fds |-> <<>>] /\ down = [fd \in Fds |-> <<>>]
    /\ status = [fd \in Fds |-> "open"]
    /\ orphans = {}
    /\ served = [i \in Ids |-> 0]
    /\ outcome = [i \in Ids |-> "none"]
    /\ reply = [i \in Ids |-> <<>>]
    /\ lifetime = "running"

-----------------------------------------------------------------------------
(* Helpers *)

Goto(t, loc) == pc' = [pc EXCEPT ![t] = loc]

\* RoundTrip returns r to the caller; the thread can call again.
Finish(t, r) ==
    /\ Goto(t, "idle")
    /\ outcome' = [outcome EXCEPT ![request_id[t]] = r]

\* A request the server has received completely is still executed after the
\* client closes its end.
DeliveredIds(fd) ==
    IF Len(up[fd]) >= FrameParts THEN {up[fd][FrameParts].id} ELSE {}

\* The descriptors in S get a new connection to e, or none.
NewConns(S, e) ==
    /\ peer' = [fd \in Fds |-> IF fd \in S THEN e ELSE peer[fd]]
    /\ up' = [fd \in Fds |-> IF fd \in S THEN <<>> ELSE up[fd]]
    /\ down' = [fd \in Fds |-> IF fd \in S THEN <<>> ELSE down[fd]]
    /\ status' = [fd \in Fds |-> IF fd \in S THEN "open" ELSE status[fd]]

CloseSockets(S) ==
    /\ open' = open \ S
    /\ orphans' = orphans \cup UNION {DeliveredIds(fd) : fd \in S}
    /\ NewConns(S, None)
CloseSocket(fd) == CloseSockets({fd})

Unlock(t) == pool_mutex' = IF pool_mutex = t THEN None ELSE pool_mutex

-----------------------------------------------------------------------------
(* RoundTrip, one action per step of the calling thread *)

\* RpcClient takes the next request id and hands the encoded frame to
\* RoundTripAsync, which runs RoundTrip in the caller's thread.
Call(t, e) ==
    /\ pc[t] = "idle"
    /\ next_request_id <= MaxCalls
    /\ Goto(t, "borrow")
    /\ endpoint' = [endpoint EXCEPT ![t] = e]
    /\ request_id' = [request_id EXCEPT ![t] = next_request_id]
    /\ outcome' = [outcome EXCEPT ![next_request_id] = "pending"]
    /\ next_request_id' = next_request_id + 1
    /\ offset' = [offset EXCEPT ![t] = 0]
    /\ frame' = [frame EXCEPT ![t] = <<>>]
    /\ socket_fd' = [socket_fd EXCEPT ![t] = None]
    /\ UNCHANGED <<poolVars, reply, lifetime, kernelVars>>

\* BorrowConnection under pool_mutex_: the most recently returned socket of
\* the endpoint leaves the pool.
PopIdle(t) ==
    LET bucket == idle_pool[endpoint[t]] IN
    /\ pc[t] = "borrow" /\ pool_mutex = None
    /\ bucket # <<>>
    /\ idle_pool' = [idle_pool EXCEPT ![endpoint[t]] = SubSeq(bucket, 1, Len(bucket) - 1)]

LastIdle(t) == idle_pool[endpoint[t]][Len(idle_pool[endpoint[t]])]

\* The socket is made blocking and given the call's timeouts.
BorrowReuse(t) ==
    /\ PopIdle(t)
    /\ socket_fd' = [socket_fd EXCEPT ![t] = LastIdle(t)]
    /\ Goto(t, "send")
    /\ UNCHANGED <<pool_mutex, argVars, ioVars, resultVars, lifetime, kernelVars>>

\* ConfigureSocket fails: close it and connect afresh, outside the lock.
BorrowConfigureFails(t) ==
    /\ PopIdle(t)
    /\ CloseSocket(LastIdle(t))
    /\ Goto(t, "connect")
    /\ UNCHANGED <<pool_mutex, argVars, socket_fd, ioVars, served, resultVars, lifetime>>

\* SetSocketBlockingMode fails: close it and connect while the lock_guard is
\* still in scope, so the lock is held until ConnectTo returns.
BorrowBlockingModeFails(t) ==
    /\ PopIdle(t)
    /\ CloseSocket(LastIdle(t))
    /\ Goto(t, "connect")
    /\ pool_mutex' = t
    /\ UNCHANGED <<argVars, socket_fd, ioVars, served, resultVars, lifetime>>

BorrowMiss(t) ==
    /\ pc[t] = "borrow" /\ pool_mutex = None
    /\ idle_pool[endpoint[t]] = <<>>
    /\ Goto(t, "connect")
    /\ UNCHANGED <<poolVars, argVars, socket_fd, ioVars, resultVars, lifetime, kernelVars>>

\* ConnectTo: socket() returns a descriptor that is not open.
OpenSocket(t) ==
    /\ pc[t] = "connect"
    /\ \E fd \in Fds \ open :
        /\ open' = open \cup {fd}
        /\ NewConns({fd}, endpoint[t])
        /\ socket_fd' = [socket_fd EXCEPT ![t] = fd]
    /\ Goto(t, "connecting")
    /\ UNCHANGED <<poolVars, argVars, ioVars, orphans, served, resultVars, lifetime>>

\* socket() fails, for instance at the descriptor limit.
OpenSocketFails(t) ==
    /\ pc[t] = "connect"
    /\ Finish(t, "error") /\ Unlock(t)
    /\ UNCHANGED <<idle_pool, argVars, socket_fd, ioVars, reply, lifetime, kernelVars>>

ConnectSucceeds(t) ==
    /\ pc[t] = "connecting"
    /\ Goto(t, "send") /\ Unlock(t)
    /\ UNCHANGED <<idle_pool, argVars, socket_fd, ioVars, resultVars, lifetime, kernelVars>>

\* Mutant: the error path of ConnectTo forgets to close the descriptor.
ConnectFails_Leaks(t) ==
    /\ pc[t] = "connecting"
    /\ Finish(t, "error") /\ Unlock(t)
    /\ UNCHANGED <<idle_pool, argVars, socket_fd, ioVars, reply, lifetime, kernelVars>>

\* inet_pton, ConfigureSocket or connect fails: the new descriptor is closed.
ConnectFails(t) ==
    /\ pc[t] = "connecting"
    /\ CloseSocket(socket_fd[t])
    /\ Finish(t, "error") /\ Unlock(t)
    /\ UNCHANGED <<idle_pool, argVars, socket_fd, ioVars, served, reply, lifetime>>

\* Mutant: offset advances by its old value too.
SendPart_Skips(t) ==
    LET fd == socket_fd[t] IN
    /\ pc[t] = "send" /\ status[fd] = "open"
    /\ up' = [up EXCEPT ![fd] = Append(@, RequestFrame(request_id[t])[offset[t] + 1])]
    /\ offset' = [offset EXCEPT ![t] = 2 * @ + 1]
    /\ Goto(t, IF offset[t] + 1 = FrameParts THEN "recv_length" ELSE "send")
    /\ UNCHANGED <<poolVars, argVars, socket_fd, frame, open, peer, down, status, orphans,
                   served, resultVars, lifetime>>

\* SendAll: one successful send().  What is sent to a peer that has closed is
\* accepted by the kernel and answered with RST.
SendPart(t) ==
    LET fd == socket_fd[t] IN
    /\ pc[t] = "send"
    /\ \/ /\ status[fd] = "open"
          /\ up' = [up EXCEPT ![fd] = Append(@, RequestFrame(request_id[t])[offset[t] + 1])]
          /\ UNCHANGED status
       \/ /\ status[fd] = "closed"
          /\ status' = [status EXCEPT ![fd] = "reset"]
          /\ UNCHANGED up
    /\ offset' = [offset EXCEPT ![t] = @ + 1]
    /\ Goto(t, IF offset[t] + 1 = FrameParts THEN "recv_length" ELSE "send")
    /\ UNCHANGED <<poolVars, argVars, socket_fd, frame, open, peer, down, orphans, served,
                   resultVars, lifetime>>

\* SendAll: send() times out or reports an error.
SendFails(t) ==
    /\ pc[t] = "send"
    /\ Goto(t, "fail")
    /\ UNCHANGED <<poolVars, argVars, socket_fd, ioVars, resultVars, lifetime, kernelVars>>

\* SendAll: send() after the peer's RST raises SIGPIPE (no MSG_NOSIGNAL, and
\* no handler anywhere in the program): the process is killed.
SendBrokenPipe(t) ==
    /\ pc[t] = "send"
    /\ status[socket_fd[t]] = "reset"
    /\ lifetime' = "killed"
    /\ UNCHANGED <<poolVars, pc, argVars, socket_fd, ioVars, resultVars, kernelVars>>

\* ReceiveFrame: the first RecvAll.  Whatever part comes first is read as the
\* length field.
RecvLength(t) ==
    LET fd == socket_fd[t] IN
    /\ pc[t] = "recv_length"
    /\ down[fd] # <<>>
    /\ Head(down[fd]).part # "oversized"
    /\ frame' = [frame EXCEPT ![t] = <<Head(down[fd])>>]
    /\ down' = [down EXCEPT ![fd] = Tail(@)]
    /\ Goto(t, "recv_body")
    /\ UNCHANGED <<poolVars, argVars, socket_fd, offset, open, peer, up, status, orphans, served,
                   resultVars, lifetime>>

\* ReceiveFrame: frame_size is below 4 or above kMaxFrameSize.
RecvLengthInvalid(t) ==
    LET fd == socket_fd[t] IN
    /\ pc[t] = "recv_length"
    /\ down[fd] # <<>>
    /\ Head(down[fd]).part # "length"
    /\ down' = [down EXCEPT ![fd] = Tail(@)]
    /\ Goto(t, "fail")
    /\ UNCHANGED <<poolVars, argVars, socket_fd, ioVars, open, peer, up, status, orphans, served,
                   resultVars, lifetime>>

RecvBody(t) ==
    LET fd == socket_fd[t] IN
    /\ pc[t] = "recv_body"
    /\ down[fd] # <<>>
    /\ frame' = [frame EXCEPT ![t] = Append(@, Head(down[fd]))]
    /\ down' = [down EXCEPT ![fd] = Tail(@)]
    /\ Goto(t, "return")
    /\ UNCHANGED <<poolVars, argVars, socket_fd, offset, open, peer, up, status, orphans, served,
                   resultVars, lifetime>>

\* Mutant: a connection goes back to the pool although receiving timed out.
RecvFails_Pools(t) ==
    /\ pc[t] \in {"recv_length", "recv_body"} /\ pool_mutex = None
    /\ Finish(t, "error")
    /\ idle_pool' = [idle_pool EXCEPT ![endpoint[t]] = Append(@, socket_fd[t])]
    /\ UNCHANGED <<pool_mutex, argVars, socket_fd, ioVars, reply, lifetime, kernelVars>>

\* Mutant: no SO_RCVTIMEO, so recv() only fails when the connection does.
RecvFails_NoTimeout(t) ==
    /\ pc[t] \in {"recv_length", "recv_body"} /\ status[socket_fd[t]] # "open"
    /\ Goto(t, "fail")
    /\ UNCHANGED <<poolVars, argVars, socket_fd, ioVars, resultVars, lifetime, kernelVars>>

\* RecvAll: recv() reports the peer's close or reset, or SO_RCVTIMEO expires
\* before the next part arrives.
RecvFails(t) ==
    /\ pc[t] \in {"recv_length", "recv_body"}
    /\ Goto(t, "fail")
    /\ UNCHANGED <<poolVars, argVars, socket_fd, ioVars, resultVars, lifetime, kernelVars>>

\* Mutant: RoundTrip tries again on a new connection.
CloseAfterFailure_Retries(t) ==
    /\ pc[t] = "fail"
    /\ CloseSocket(socket_fd[t])
    /\ Goto(t, "borrow")
    /\ offset' = [offset EXCEPT ![t] = 0]
    /\ UNCHANGED <<poolVars, argVars, socket_fd, frame, served, resultVars, lifetime>>

\* RoundTrip after a failed SendAll or ReceiveFrame.
CloseAfterFailure(t) ==
    /\ pc[t] = "fail"
    /\ CloseSocket(socket_fd[t])
    /\ Finish(t, "error")
    /\ UNCHANGED <<poolVars, argVars, socket_fd, ioVars, served, reply, lifetime>>

\* Mutant: the connection is filed under some endpoint's key.
ReturnConnection_AnyKey(t) ==
    /\ pc[t] = "return" /\ pool_mutex = None
    /\ Finish(t, "ok")
    /\ reply' = [reply EXCEPT ![request_id[t]] = frame[t]]
    /\ \E e \in Endpoints : idle_pool' = [idle_pool EXCEPT ![e] = Append(@, socket_fd[t])]
    /\ UNCHANGED <<pool_mutex, argVars, socket_fd, ioVars, lifetime, kernelVars>>

\* ReturnConnection, under pool_mutex_: back into the pool unless its bucket
\* is full.
ReturnConnection(t) ==
    LET e == endpoint[t]  fd == socket_fd[t] IN
    /\ pc[t] = "return" /\ pool_mutex = None
    /\ Finish(t, "ok")
    /\ reply' = [reply EXCEPT ![request_id[t]] = frame[t]]
    /\ \/ /\ Len(idle_pool[e]) >= MaxIdlePerEndpoint
          /\ CloseSocket(fd)
          /\ UNCHANGED idle_pool
       \/ /\ Len(idle_pool[e]) < MaxIdlePerEndpoint
          /\ idle_pool' = [idle_pool EXCEPT ![e] = Append(@, fd)]
          /\ UNCHANGED <<open, wireVars, orphans>>
    /\ UNCHANGED <<pool_mutex, argVars, socket_fd, ioVars, served, lifetime>>

\* ~TcpClientTransport, once no call is in progress: every pooled socket is
\* closed.
PooledFds ==
    {fd \in Fds : \E e \in Endpoints : \E i \in DOMAIN idle_pool[e] : idle_pool[e][i] = fd}
Destroy ==
    /\ \A t \in Threads : pc[t] = "idle"
    /\ lifetime' = "destroyed"
    /\ idle_pool' = [e \in Endpoints |-> <<>>]
    /\ CloseSockets(PooledFds)
    /\ UNCHANGED <<pool_mutex, pc, argVars, socket_fd, ioVars, served, resultVars>>

-----------------------------------------------------------------------------
(* The server, as its ConnectionManager and dispatcher behave *)

\* A complete request is executed and answered with a frame for its id.
Serve(fd) ==
    LET id == up[fd][FrameParts].id IN
    /\ fd \in open /\ status[fd] = "open"
    /\ Len(up[fd]) >= FrameParts /\ up[fd][1].part = "length"
    /\ up' = [up EXCEPT ![fd] = SubSeq(@, FrameParts + 1, Len(@))]
    /\ \E len \in {"length", "oversized"} :
        down' = [down EXCEPT ![fd] = @ \o <<Part(id, len), Part(id, "body")>>]
    /\ served' = [served EXCEPT ![id] = @ + 1]
    /\ UNCHANGED <<clientVars, open, peer, status, orphans>>

\* A request of a connection that the client has already closed is executed,
\* or lost with the connection; its response goes nowhere.
ServeOrphan(id) ==
    /\ id \in orphans
    /\ orphans' = orphans \ {id}
    /\ served' \in {served, [served EXCEPT ![id] = @ + 1]}
    /\ UNCHANGED <<clientVars, open, wireVars>>

\* The server closes the connection, or its process ends: unread requests
\* and any unsent suffix of the responses are lost.
PeerCloses(fd) ==
    /\ fd \in open /\ status[fd] = "open"
    /\ status' = [status EXCEPT ![fd] = "closed"]
    /\ up' = [up EXCEPT ![fd] = <<>>]
    /\ \E n \in 0..Len(down[fd]) : down' = [down EXCEPT ![fd] = SubSeq(@, 1, n)]
    /\ UNCHANGED <<clientVars, open, peer, orphans, served>>

-----------------------------------------------------------------------------
Step(t) ==
    \/ BorrowReuse(t) \/ BorrowConfigureFails(t) \/ BorrowBlockingModeFails(t)
    \/ BorrowMiss(t)
    \/ OpenSocket(t) \/ OpenSocketFails(t) \/ ConnectSucceeds(t) \/ ConnectFails(t)
    \/ SendPart(t) \/ SendFails(t) \/ SendBrokenPipe(t)
    \/ RecvLength(t) \/ RecvLengthInvalid(t) \/ RecvBody(t) \/ RecvFails(t)
    \/ CloseAfterFailure(t) \/ ReturnConnection(t)

ThreadStep(t) == lifetime = "running" /\ Step(t)

Client ==
    /\ lifetime = "running"
    /\ \/ \E t \in Threads, e \in Endpoints : Call(t, e)
       \/ Destroy

Server ==
    \/ \E fd \in Fds : Serve(fd) \/ PeerCloses(fd)
    \/ \E id \in Ids : ServeOrphan(id)

\* The process has ended or no longer has a transport.
Ended == lifetime # "running" /\ UNCHANGED vars

Next == Client \/ (\E t \in Threads : ThreadStep(t)) \/ Server \/ Ended

\* A runnable thread runs, and a blocked socket call returns: each has the
\* call's SO_RCVTIMEO/SO_SNDTIMEO, which BuildClientConfig keeps positive.
Fairness == \A t \in Threads : WF_vars(ThreadStep(t))

Spec == Init /\ [][Next]_vars
FairSpec == Spec /\ Fairness

-----------------------------------------------------------------------------
(* Properties *)

\* Every variable stays in its type.
TypeOK ==
    /\ idle_pool \in [Endpoints -> Seq(Fds)]
    /\ pool_mutex \in Threads \cup {None}
    /\ pc \in [Threads -> Locations]
    /\ endpoint \in [Threads -> Endpoints \cup {None}]
    /\ request_id \in [Threads -> Nat]
    /\ socket_fd \in [Threads -> Fds \cup {None}]
    /\ offset \in [Threads -> 0..FrameParts]
    /\ frame \in [Threads -> Seq(Parts)]
    /\ next_request_id \in 1..(MaxCalls + 1)
    /\ open \in SUBSET Fds
    /\ peer \in [Fds -> Endpoints \cup {None}]
    /\ up \in [Fds -> Seq(Parts)] /\ down \in [Fds -> Seq(Parts)]
    /\ status \in [Fds -> Statuses]
    /\ orphans \in SUBSET Ids
    /\ served \in [Ids -> Nat]
    /\ outcome \in [Ids -> {"none", "pending", "ok", "error"}]
    /\ reply \in [Ids -> Seq(Parts)]
    /\ lifetime \in {"running", "destroyed", "killed"}

\* The sockets a thread is using: RoundTrip's local socket_fd.
Holds(t, fd) == pc[t] \in Holding /\ socket_fd[t] = fd
Pooled(e, i, fd) == i \in DOMAIN idle_pool[e] /\ idle_pool[e][i] = fd

OpenOwned == \A fd \in open :
    \/ \E t \in Threads : Holds(t, fd)
    \/ \E e \in Endpoints : \E i \in DOMAIN idle_pool[e] : Pooled(e, i, fd)
HeldOpen == \A t \in Threads : pc[t] \in Holding => socket_fd[t] \in open
HeldOnce == \A t, u \in Threads :
    pc[t] \in Holding /\ pc[u] \in Holding /\ socket_fd[t] = socket_fd[u] => t = u
PooledOpen == \A e \in Endpoints : \A i \in DOMAIN idle_pool[e] : idle_pool[e][i] \in open
PooledOnce == \A e, f \in Endpoints :
    \A i \in DOMAIN idle_pool[e], j \in DOMAIN idle_pool[f] :
        idle_pool[e][i] = idle_pool[f][j] => e = f /\ i = j
HeldNotPooled == \A t \in Threads, e \in Endpoints : pc[t] \in Holding =>
    \A i \in DOMAIN idle_pool[e] : idle_pool[e][i] # socket_fd[t]

\* An open socket always has exactly one owner: one thread in RoundTrip or one
\* slot of the pool.  No socket is leaked on an error path, closed while
\* somebody uses it, or handed to two calls, whatever the interleaving.
OneOwner ==
    OpenOwned /\ HeldOpen /\ HeldOnce /\ PooledOpen /\ PooledOnce /\ HeldNotPooled

\* A successful round trip returns the response to its own request, although
\* nothing compares the ids: a connection goes back to the pool only when the
\* exchange on it is over.
ResponseMatchesRequest ==
    \A i \in Ids : outcome[i] = "ok" =>
        Len(reply[i]) = FrameParts /\ \A k \in 1..FrameParts : reply[i][k].id = i

\* A request is written only to a connection of the endpoint it was resolved to.
RightEndpoint ==
    \A t \in Threads : pc[t] \in Holding => peer[socket_fd[t]] = endpoint[t]

\* RoundTrip never sends a request twice: the server executes it at most once,
\* and exactly once when the call succeeds.
AtMostOnce ==
    \A i \in Ids : /\ served[i] <= 1
                   /\ outcome[i] = "ok" => served[i] = 1

-----------------------------------------------------------------------------
(* Refinement *)

\* The request that the frame belongs to which RoundTrip returned for i.
Answer(i) == IF reply[i] = <<>> THEN 0 ELSE reply[i][Len(reply[i])].id

Interface == INSTANCE RpcCall WITH
    call <- outcome,
    executions <- served,
    answer <- [i \in Ids |-> Answer(i)],
    alive <- lifetime # "killed"

\* With its pool, lock, sockets and timeouts the transport is a ClientTransport
\* as its callers see it: every step is a step of RpcCall or invisible to the
\* caller, and every round trip ends as RpcCall promises.
ImplementsRpcCall == Interface!FairSpec

-----------------------------------------------------------------------------
(* The inductive invariant behind the safety properties *)

Active(t) == pc[t] # "idle"

\* RoundTrip's arguments are set while it runs.
ArgsOK == \A t \in Threads :
    /\ Active(t) => request_id[t] \in Ids /\ endpoint[t] \in Endpoints
    /\ pc[t] \in {"borrow", "connect", "connecting"} => offset[t] = 0
    /\ pc[t] = "send" => offset[t] < FrameParts
    /\ pc[t] \in Holding => socket_fd[t] \in Fds

\* Two calls in progress never share a request id, and an id is fresh until
\* it is taken.
IdsOK ==
    /\ \A t, u \in Threads :
         Active(t) /\ Active(u) /\ request_id[t] = request_id[u] => t = u
    /\ \A t \in Threads : Active(t) =>
         request_id[t] < next_request_id /\ outcome[request_id[t]] = "pending"
    /\ \A i \in Ids : i >= next_request_id =>
         outcome[i] = "none" /\ served[i] = 0

\* An abandoned request belongs to a call that failed and has not been executed.
OrphansOK == \A i \in orphans : outcome[i] = "error" /\ served[i] = 0

\* Nothing is left on a connection in the pool, and it leads where its bucket says.
PoolQuiet == \A e \in Endpoints : \A i \in DOMAIN idle_pool[e] :
    LET fd == idle_pool[e][i] IN up[fd] = <<>> /\ down[fd] = <<>> /\ peer[fd] = e

\* The bytes on a borrowed connection are those of the borrower's own exchange,
\* as far as it has got.
Exchange(t) ==
    LET fd == socket_fd[t]  id == request_id[t] IN
    /\ pc[t] = "connecting" => up[fd] = <<>> /\ down[fd] = <<>>
    /\ pc[t] = "send" =>
        /\ down[fd] = <<>>
        /\ \/ up[fd] = <<>> /\ (offset[t] = 0 \/ status[fd] # "open")
           \/ up[fd] = <<Part(id, "length")>> /\ offset[t] = 1 /\ status[fd] = "open"
    /\ pc[t] = "recv_length" =>
        \/ up[fd] = RequestFrame(id) /\ down[fd] = <<>> /\ served[id] = 0
        \/ up[fd] = <<>> /\ down[fd] = <<>> /\ status[fd] # "open"
        \/ /\ up[fd] = <<>> /\ served[id] = 1
           /\ \E len \in {"length", "oversized"} :
                \/ down[fd] = <<Part(id, len), Part(id, "body")>>
                \/ down[fd] = <<Part(id, len)>> /\ status[fd] # "open"
    /\ pc[t] = "recv_body" =>
        /\ up[fd] = <<>> /\ served[id] = 1 /\ frame[t] = <<Part(id, "length")>>
        /\ down[fd] \in {<<>>, <<Part(id, "body")>>}
    /\ pc[t] = "return" =>
        /\ up[fd] = <<>> /\ down[fd] = <<>> /\ served[id] = 1
        /\ frame[t] = <<Part(id, "length"), Part(id, "body")>>
    /\ pc[t] = "fail" =>
        \/ up[fd] \in {<<>>, <<Part(id, "length")>>}
        \/ up[fd] = RequestFrame(id) /\ served[id] = 0

ThreadOK(t) ==
    /\ pc[t] \in {"borrow", "connect", "connecting", "send"} => served[request_id[t]] = 0
    /\ pc[t] \in Holding => Exchange(t)
ExchangeOK == \A t \in Threads : ThreadOK(t)

CallsOK == /\ RightEndpoint /\ IdsOK /\ OrphansOK /\ PoolQuiet /\ ExchangeOK
           /\ ResponseMatchesRequest /\ AtMostOnce

Inv == TypeOK /\ ArgsOK /\ OneOwner /\ CallsOK
=============================================================================
