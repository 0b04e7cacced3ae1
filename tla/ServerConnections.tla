--------------------------- MODULE ServerConnections ---------------------------
(***************************************************************************)
(* The server's event loop: Reactor (src/reactor.cc), ConnectionManager    *)
(* (src/connection_manager.cc) and the frame handler RpcServer::OnFrame    *)
(* (src/rpc_server.cc), all in the thread that called RpcServer::Run.      *)
(* Clients and the network act between any two system calls of that        *)
(* thread, and Stop is called by another thread.                           *)
(*                                                                         *)
(* A frame is two parts, its length field and its body, tagged with the    *)
(* client and the number of the request.  A short read or write ends       *)
(* between two parts.                                                      *)
(***************************************************************************)
EXTENDS Integers, Sequences, FiniteSets

CONSTANTS
    Clients,      \* TCP connections made to the server, one per client
    Fds,          \* descriptors the process can have open
    MaxEvents,    \* ReactorConfig::max_events
    SendBuffer,   \* parts a socket takes until its peer reads
    MaxRequests,  \* bound: client -> number of its requests
    None

ASSUME MaxEventsAssumption == MaxEvents \in Nat \ {0}
ASSUME SendBufferAssumption == SendBuffer \in Nat \ {0}
ASSUME MaxRequestsAssumption == MaxRequests \in [Clients -> Nat]
ASSUME FdsAssumption == Fds \subseteq Nat
ASSUME NoneAssumption == None \notin Clients \cup Fds

VARIABLES
    pc,             \* where the server thread is
    connection_fd,  \* the descriptor whose event is being handled
    caller,         \* where HandleWritable returns to
    running,        \* Reactor::running_
    stop_called,    \* RpcServer::Stop has been called
    events,         \* descriptor -> its event in events_ not yet handled
    handlers,       \* Reactor::handlers_: descriptor -> events of interest, {} if absent
    listen_fd,      \* ConnectionManager::listen_fd_
    connections,    \* the keys of ConnectionManager::connections_
    input_buffer, output_buffer, bytes_sent,  \* the fields of ConnectionState
    socket,         \* open descriptor -> the client at the other end, None if closed
    backlog,        \* connections not accepted yet
    status,         \* the client's side of each connection
    up,             \* client -> request parts the server has not read
    down,           \* client -> response parts the client has not read
    sent,           \* client -> number of request parts it has sent
    malformed,      \* the clients that have sent an invalid length
    handled,        \* client -> requests executed by the dispatcher, in order
    received        \* client -> response parts it has read

bufferVars == <<input_buffer, output_buffer, bytes_sent>>
managerVars == <<listen_fd, connections, bufferVars>>
controlVars == <<connection_fd, caller>>
clientVars == <<sent, malformed, received>>
netVars == <<backlog, status, up, down>>
stopVars == <<running, stop_called>>
serverVars == <<pc, controlVars, stopVars, events, handlers, managerVars, socket, handled>>
vars == <<serverVars, netVars, clientVars>>

FrameParts == 2
Part(c, id, p) == [client |-> c, id |-> id, part |-> p]
Parts == [client : Clients, id : Nat, part : {"length", "invalid", "body"}]
Frame(c, id) == <<Part(c, id, "length"), Part(c, id, "body")>>

\* "none" before connect; "closed" after the client's FIN; "broken" when it has
\* answered data sent after that with RST; "aborted" by RST without a FIN.
Statuses == {"none", "open", "closed", "broken", "aborted"}
Ended == {"stopped", "destroyed", "killed", "crashed"}
Locations == {"listen", "start", "wait", "dispatch", "accept", "recv", "process", "send",
              "writable"} \cup Ended
EventBits == {"in", "out", "err"}

Init ==
    /\ pc = "listen" /\ connection_fd = None /\ caller = "dispatch"
    /\ running = FALSE /\ stop_called = FALSE
    /\ events = [fd \in Fds |-> {}] /\ handlers = [fd \in Fds |-> {}]
    /\ listen_fd = None /\ connections = {}
    /\ input_buffer = [fd \in Fds |-> <<>>] /\ output_buffer = [fd \in Fds |-> <<>>]
    /\ bytes_sent = [fd \in Fds |-> 0]
    /\ socket = [fd \in Fds |-> None]
    /\ backlog = {} /\ status = [c \in Clients |-> "none"]
    /\ up = [c \in Clients |-> <<>>] /\ down = [c \in Clients |-> <<>>]
    /\ sent = [c \in Clients |-> 0] /\ malformed = {}
    /\ handled = [c \in Clients |-> <<>>] /\ received = [c \in Clients |-> <<>>]

-----------------------------------------------------------------------------
(* Helpers *)

Goto(loc) == pc' = loc
FreeFds == {fd \in Fds : socket[fd] = None /\ fd # listen_fd}
\* accept4 and socket return the lowest free descriptor.
LowestFd == {fd \in FreeFds : \A other \in FreeFds : fd <= other}
Peer == socket[connection_fd]

\* Mutant: Close forgets Reactor::Remove.
Close_KeepsHandler(fd) ==
    /\ socket' = [socket EXCEPT ![fd] = None]
    /\ connections' = connections \ {fd}
    /\ UNCHANGED handlers

\* ConnectionManager::Close of a connection, with Reactor::Remove.  The buffers
\* are freed with the map node; their old content is only reachable through a
\* dangling reference.
Close(fd) ==
    /\ handlers' = [handlers EXCEPT ![fd] = {}]
    /\ socket' = [socket EXCEPT ![fd] = None]
    /\ connections' = connections \ {fd}

UpdateInterest(fd, interest) == handlers' = [handlers EXCEPT ![fd] = interest]

\* What epoll_wait reports for fd.
Ready(fd) ==
    IF handlers[fd] = {} THEN {}
    ELSE IF fd = listen_fd THEN IF backlog # {} THEN {"in"} ELSE {}
    ELSE LET c == socket[fd] IN
        (IF up[c] # <<>> \/ status[c] # "open" THEN {"in"} ELSE {})
        \cup (IF "out" \in handlers[fd] /\ Len(down[c]) < SendBuffer THEN {"out"} ELSE {})
        \cup (IF status[c] \in {"broken", "aborted"} THEN {"err"} ELSE {})
ReadyFds == {fd \in Fds : Ready(fd) # {}}

-----------------------------------------------------------------------------
(* RpcServer::Run and Reactor::Loop *)

\* ConnectionManager::Listen
Listen ==
    /\ pc = "listen"
    /\ \E fd \in LowestFd :
        /\ listen_fd' = fd
        /\ handlers' = [handlers EXCEPT ![fd] = {"in"}]
    /\ Goto("start")
    /\ UNCHANGED <<controlVars, stopVars, events, connections, bufferVars, socket, handled,
                   netVars, clientVars>>

\* Any step of Listen fails: the descriptor is closed and Run throws.
ListenFails ==
    /\ pc = "listen"
    /\ Goto("stopped")
    /\ UNCHANGED <<controlVars, stopVars, events, handlers, managerVars, socket, handled,
                   netVars, clientVars>>

\* Loop begins with running_ = true.
LoopStart ==
    /\ pc = "start"
    /\ running' = TRUE
    /\ Goto("wait")
    /\ UNCHANGED <<controlVars, stop_called, events, handlers, managerVars, socket, handled,
                   netVars, clientVars>>

\* epoll_wait fills events_ with up to max_events ready descriptors.
EpollWait ==
    /\ pc = "wait" /\ running
    /\ ReadyFds # {}
    /\ \E S \in SUBSET ReadyFds :
        /\ Cardinality(S) =
             IF Cardinality(ReadyFds) < MaxEvents THEN Cardinality(ReadyFds) ELSE MaxEvents
        /\ events' = [fd \in Fds |-> IF fd \in S THEN Ready(fd) ELSE {}]
    /\ Goto("dispatch")
    /\ UNCHANGED <<controlVars, stopVars, handlers, managerVars, socket, handled, netVars,
                   clientVars>>

\* while (running_) ends, after at most one more 100 ms poll, or epoll_wait fails.
LoopExit ==
    /\ pc = "wait" /\ ~running
    /\ Goto("stopped")
    /\ UNCHANGED <<controlVars, stopVars, events, handlers, managerVars, socket, handled,
                   netVars, clientVars>>
EpollWaitFails ==
    /\ pc = "wait" /\ running
    /\ Goto("stopped")
    /\ UNCHANGED <<controlVars, stopVars, events, handlers, managerVars, socket, handled,
                   netVars, clientVars>>

\* An error event, or the event of a descriptor that has no handler any more.
DispatchError(fd) ==
    /\ pc = "dispatch"
    /\ "err" \in events[fd] \/ (events[fd] # {} /\ handlers[fd] = {})
    /\ events' = [events EXCEPT ![fd] = {}]
    /\ IF fd \in connections THEN Close(fd) ELSE UNCHANGED <<handlers, socket, connections>>
    /\ UNCHANGED <<pc, controlVars, stopVars, listen_fd, bufferVars, handled, netVars, clientVars>>

\* on_readable is called when EPOLLIN is set; EPOLLOUT is looked at afterwards.
Dispatch(fd) ==
    /\ pc = "dispatch"
    /\ events[fd] # {} /\ "err" \notin events[fd] /\ handlers[fd] # {}
    /\ connection_fd' = fd
    /\ Goto(IF "in" \notin events[fd] THEN "writable"
            ELSE IF fd = listen_fd THEN "accept" ELSE "recv")
    /\ UNCHANGED <<caller, stopVars, events, handlers, managerVars, socket, handled, netVars,
                   clientVars>>

DispatchDone ==
    /\ pc = "dispatch"
    /\ \A fd \in Fds : events[fd] = {}
    /\ Goto("wait")
    /\ UNCHANGED <<controlVars, stopVars, events, handlers, managerVars, socket, handled,
                   netVars, clientVars>>

\* EPOLLOUT was reported too: on_writable of the handler found before the read.
CallWritable ==
    LET fd == connection_fd IN
    /\ pc = "writable"
    /\ events' = [events EXCEPT ![fd] = {}]
    /\ caller' = "dispatch"
    /\ Goto(IF "out" \in events[fd] /\ fd \in connections THEN "send" ELSE "dispatch")
    /\ UNCHANGED <<connection_fd, stopVars, handlers, managerVars, socket, handled, netVars,
                   clientVars>>

\* The same when on_readable has closed the connection: handler_it dangles.  The
\* freed callback may still run, and HandleWritable finds no connection
\* (CallWritable), or the process crashes.
CallFreedHandler ==
    /\ pc = "writable"
    /\ "out" \in events[connection_fd] /\ handlers[connection_fd] = {}
    /\ Goto("crashed")
    /\ UNCHANGED <<controlVars, stopVars, events, handlers, managerVars, socket, handled,
                   netVars, clientVars>>

-----------------------------------------------------------------------------
(* AcceptLoop *)

\* Mutant: the buffers of the descriptor's last connection are kept.
Accept_KeepsBuffers(c) ==
    /\ pc = "accept" /\ c \in backlog
    /\ backlog' = backlog \ {c}
    /\ \E fd \in LowestFd :
        /\ socket' = [socket EXCEPT ![fd] = c]
        /\ connections' = connections \cup {fd}
        /\ handlers' = [handlers EXCEPT ![fd] = {"in"}]
    /\ UNCHANGED <<pc, controlVars, stopVars, events, listen_fd, bufferVars, handled, status, up,
                   down, clientVars>>

Accept(c) ==
    /\ pc = "accept"
    /\ c \in backlog
    /\ backlog' = backlog \ {c}
    /\ \E fd \in LowestFd :
        /\ socket' = [socket EXCEPT ![fd] = c]
        /\ connections' = connections \cup {fd}
        /\ input_buffer' = [input_buffer EXCEPT ![fd] = <<>>]
        /\ output_buffer' = [output_buffer EXCEPT ![fd] = <<>>]
        /\ bytes_sent' = [bytes_sent EXCEPT ![fd] = 0]
        /\ handlers' = [handlers EXCEPT ![fd] = {"in"}]
    /\ UNCHANGED <<pc, controlVars, stopVars, events, listen_fd, handled, status, up, down,
                   clientVars>>

\* SetNonBlocking fails: the new connection is closed and the loop goes on.
AcceptRejects(c) ==
    /\ pc = "accept"
    /\ c \in backlog /\ FreeFds # {}
    /\ backlog' = backlog \ {c}
    /\ UNCHANGED <<serverVars, status, up, down, clientVars>>

\* Mutant: when accept() fails another connection is closed to make room.
AcceptDone_Evicts ==
    /\ pc = "accept"
    /\ IF backlog # {} /\ connections # {} THEN \E fd \in connections : Close(fd)
       ELSE UNCHANGED <<handlers, socket, connections>>
    /\ Goto("writable")
    /\ UNCHANGED <<controlVars, stopVars, events, listen_fd, bufferVars, handled, netVars,
                   clientVars>>

\* accept() has no more connections, or fails: at the descriptor limit, for
\* want of memory, or because the connection is gone already.
AcceptDone ==
    /\ pc = "accept"
    /\ Goto("writable")
    /\ UNCHANGED <<controlVars, stopVars, events, handlers, managerVars, socket, handled,
                   netVars, clientVars>>

-----------------------------------------------------------------------------
(* HandleReadable: recv() until EAGAIN *)

RecvData ==
    /\ pc = "recv"
    /\ up[Peer] # <<>>
    /\ input_buffer' = [input_buffer EXCEPT ![connection_fd] = @ \o up[Peer]]
    /\ up' = [up EXCEPT ![Peer] = <<>>]
    /\ UNCHANGED <<pc, controlVars, stopVars, events, handlers, listen_fd, connections,
                   output_buffer, bytes_sent, socket, handled, backlog, status, down, clientVars>>

\* Mutant: recv() is tried again until there is data.
RecvAgain_Spins ==
    /\ pc = "recv"
    /\ up[Peer] = <<>> /\ status[Peer] = "open"
    /\ UNCHANGED vars

RecvAgain ==
    /\ pc = "recv"
    /\ up[Peer] = <<>> /\ status[Peer] = "open"
    /\ Goto("process")
    /\ UNCHANGED <<controlVars, stopVars, events, handlers, managerVars, socket, handled,
                   netVars, clientVars>>

\* recv() returns 0 at the client's FIN, or an error at its RST.
RecvCloses ==
    /\ pc = "recv"
    /\ up[Peer] = <<>> /\ status[Peer] # "open"
    /\ Close(connection_fd)
    /\ Goto("writable")
    /\ UNCHANGED <<controlVars, stopVars, events, listen_fd, bufferVars, handled, netVars,
                   clientVars>>

-----------------------------------------------------------------------------
(* ProcessInput, whose reference to input_buffer dangles once a nested Send *)
(* has closed the connection                                                *)

InputOf == input_buffer[connection_fd]
InvalidLength == InputOf # <<>> /\ InputOf[1].part = "invalid"

\* Mutant: one frame per read, an if instead of the while.
HandleFrame_Once ==
    LET fd == connection_fd  f == InputOf[FrameParts] IN
    /\ pc = "process" /\ fd \in connections
    /\ Len(InputOf) >= FrameParts /\ ~InvalidLength
    /\ input_buffer' = [input_buffer EXCEPT ![fd] = SubSeq(@, FrameParts + 1, Len(@))]
    /\ handled' = [handled EXCEPT ![f.client] = Append(@, f.id)]
    /\ output_buffer' = [output_buffer EXCEPT ![fd] = @ \o Frame(f.client, f.id)]
    /\ UpdateInterest(fd, {"in", "out"})
    /\ caller' = "writable" /\ Goto("send")
    /\ UNCHANGED <<connection_fd, stopVars, events, listen_fd, connections, bytes_sent, socket,
                   netVars, clientVars>>

\* A whole frame goes to OnFrame.  The dispatcher answers it in the same
\* thread, with a response or a framework error, and Send queues the answer.
HandleFrame ==
    LET fd == connection_fd  f == InputOf[FrameParts] IN
    /\ pc = "process"
    /\ Len(InputOf) >= FrameParts /\ ~InvalidLength
    /\ input_buffer' = [input_buffer EXCEPT ![fd] = SubSeq(@, FrameParts + 1, Len(@))]
    /\ handled' = [handled EXCEPT ![f.client] = Append(@, f.id)]
    /\ \/ /\ fd \in connections
          /\ output_buffer' = [output_buffer EXCEPT ![fd] = @ \o Frame(f.client, f.id)]
          /\ UpdateInterest(fd, {"in", "out"})
          /\ caller' = "process"
          /\ Goto("send")
       \/ /\ fd \notin connections
          /\ UNCHANGED <<output_buffer, handlers, caller, pc>>
    /\ UNCHANGED <<connection_fd, stopVars, events, listen_fd, connections, bytes_sent, socket,
                   netVars, clientVars>>

\* frame_size is below 4 or above kMaxFrameBodySize.
FrameInvalid ==
    /\ pc = "process"
    /\ connection_fd \in connections
    /\ InvalidLength
    /\ Close(connection_fd)
    /\ Goto("writable")
    /\ UNCHANGED <<controlVars, stopVars, events, listen_fd, bufferVars, handled, netVars,
                   clientVars>>

FrameIncomplete ==
    /\ pc = "process"
    /\ connection_fd \in connections
    /\ Len(InputOf) < FrameParts /\ ~InvalidLength
    /\ Goto("writable")
    /\ UNCHANGED <<controlVars, stopVars, events, handlers, managerVars, socket, handled,
                   netVars, clientVars>>

\* The loop reads input_buffer after its map node was freed: it may end, crash,
\* or see the old content and go on with HandleFrame.
ReadFreedInput ==
    /\ pc = "process"
    /\ connection_fd \notin connections
    /\ \E loc \in {"writable", "crashed"} : Goto(loc)
    /\ UNCHANGED <<controlVars, stopVars, events, handlers, managerVars, socket, handled,
                   netVars, clientVars>>

-----------------------------------------------------------------------------
(* HandleWritable: send() until output_buffer is empty or EAGAIN *)

Unsent(fd) == SubSeq(output_buffer[fd], bytes_sent[fd] + 1, Len(output_buffer[fd]))
HasUnsent(fd) == bytes_sent[fd] < Len(output_buffer[fd])

SendPart ==
    LET fd == connection_fd IN
    /\ pc = "send" /\ HasUnsent(fd)
    /\ bytes_sent' = [bytes_sent EXCEPT ![fd] = @ + 1]
    /\ \/ /\ status[Peer] = "open" /\ Len(down[Peer]) < SendBuffer
          /\ down' = [down EXCEPT ![Peer] = Append(@, Head(Unsent(fd)))]
          /\ UNCHANGED status
       \/ /\ status[Peer] = "closed"
          /\ status' \in {status, [status EXCEPT ![Peer] = "broken"]}
          /\ UNCHANGED down
    /\ UNCHANGED <<pc, controlVars, stopVars, events, handlers, listen_fd, connections,
                   input_buffer, output_buffer, socket, handled, backlog, up, clientVars>>

\* Mutant: EPOLLOUT is not subscribed after a short write.
SendAgain_Unsubscribed ==
    /\ pc = "send" /\ HasUnsent(connection_fd)
    /\ status[Peer] = "open" /\ Len(down[Peer]) >= SendBuffer
    /\ UpdateInterest(connection_fd, {"in"})
    /\ Goto(caller)
    /\ UNCHANGED <<controlVars, stopVars, events, managerVars, socket, handled, netVars,
                   clientVars>>

SendAgain ==
    /\ pc = "send" /\ HasUnsent(connection_fd)
    /\ status[Peer] = "open" /\ Len(down[Peer]) >= SendBuffer
    /\ UpdateInterest(connection_fd, {"in", "out"})
    /\ Goto(caller)
    /\ UNCHANGED <<controlVars, stopVars, events, managerVars, socket, handled, netVars,
                   clientVars>>

SendCloses ==
    /\ pc = "send" /\ HasUnsent(connection_fd)
    /\ status[Peer] = "aborted"
    /\ Close(connection_fd)
    /\ Goto(caller)
    /\ UNCHANGED <<controlVars, stopVars, events, listen_fd, bufferVars, handled, netVars,
                   clientVars>>

\* send() on a connection reset after its FIN raises SIGPIPE: there is no
\* MSG_NOSIGNAL and no handler.
SendBrokenPipe ==
    /\ pc = "send" /\ HasUnsent(connection_fd)
    /\ status[Peer] = "broken"
    /\ Goto("killed")
    /\ UNCHANGED <<controlVars, stopVars, events, handlers, managerVars, socket, handled,
                   netVars, clientVars>>

SendDone ==
    /\ pc = "send" /\ ~HasUnsent(connection_fd)
    /\ output_buffer' = [output_buffer EXCEPT ![connection_fd] = <<>>]
    /\ bytes_sent' = [bytes_sent EXCEPT ![connection_fd] = 0]
    /\ UpdateInterest(connection_fd, {"in"})
    /\ Goto(caller)
    /\ UNCHANGED <<controlVars, stopVars, events, listen_fd, connections, input_buffer, socket,
                   handled, netVars, clientVars>>

-----------------------------------------------------------------------------
(* Another thread, and the end *)

\* RpcServer::Stop
Stop ==
    /\ pc \notin Ended /\ ~stop_called
    /\ running' = FALSE /\ stop_called' = TRUE
    /\ UNCHANGED <<pc, controlVars, events, handlers, managerVars, socket, handled, netVars,
                   clientVars>>

\* ~ConnectionManager, after Run has returned or thrown.
Destroy ==
    /\ pc = "stopped"
    /\ socket' = [fd \in Fds |-> IF fd \in connections THEN None ELSE socket[fd]]
    /\ connections' = {} /\ listen_fd' = None
    /\ handlers' = [fd \in Fds |-> {}]
    /\ Goto("destroyed")
    /\ UNCHANGED <<controlVars, stopVars, events, bufferVars, handled, netVars, clientVars>>

-----------------------------------------------------------------------------
(* Clients and the network *)

Connected(c) == c \in backlog \/ \E fd \in connections : socket[fd] = c

Connect(c) ==
    /\ status[c] = "none" /\ listen_fd # None
    /\ status' = [status EXCEPT ![c] = "open"]
    /\ backlog' = backlog \cup {c}
    /\ UNCHANGED <<serverVars, up, down, clientVars>>

\* The next part of the client's requests reaches the server.
ClientSend(c) ==
    LET id == sent[c] \div FrameParts + 1 IN
    /\ status[c] = "open" /\ Connected(c) /\ c \notin malformed
    /\ id <= MaxRequests[c]
    /\ \/ /\ up' = [up EXCEPT ![c] = Append(@, Frame(c, id)[(sent[c] % FrameParts) + 1])]
          /\ sent' = [sent EXCEPT ![c] = @ + 1]
          /\ UNCHANGED malformed
       \/ /\ sent[c] % FrameParts = 0
          /\ up' = [up EXCEPT ![c] = Append(@, Part(c, id, "invalid"))]
          /\ malformed' = malformed \cup {c}
          /\ UNCHANGED sent
    /\ UNCHANGED <<serverVars, backlog, status, down, received>>

ClientRead(c) ==
    /\ status[c] = "open" /\ down[c] # <<>>
    /\ received' = [received EXCEPT ![c] = Append(@, Head(down[c]))]
    /\ down' = [down EXCEPT ![c] = Tail(@)]
    /\ UNCHANGED <<serverVars, backlog, status, up, sent, malformed>>

\* close() sends FIN, or RST when responses are unread or the client dies.
ClientCloses(c) ==
    /\ status[c] = "open"
    /\ \E s \in {"closed", "aborted"} : status' = [status EXCEPT ![c] = s]
    /\ UNCHANGED <<serverVars, backlog, up, down, clientVars>>

-----------------------------------------------------------------------------
Run == Listen \/ ListenFails \/ LoopStart
Loop ==
    \/ EpollWait \/ LoopExit \/ DispatchDone
    \/ \E fd \in Fds : DispatchError(fd) \/ Dispatch(fd)
    \/ CallWritable \/ CallFreedHandler
AcceptLoop == (\E c \in Clients : Accept(c) \/ AcceptRejects(c)) \/ AcceptDone
HandleReadable == RecvData \/ RecvAgain \/ RecvCloses
ProcessInput == HandleFrame \/ FrameInvalid \/ FrameIncomplete \/ ReadFreedInput
HandleWritable == SendPart \/ SendAgain \/ SendCloses \/ SendBrokenPipe \/ SendDone

ServerStep == Run \/ Loop \/ AcceptLoop \/ HandleReadable \/ ProcessInput \/ HandleWritable
ClientStep(c) == Connect(c) \/ ClientSend(c) \/ ClientRead(c) \/ ClientCloses(c)

\* Nothing more happens once the process is gone or the server object is.
Over == pc \in {"destroyed", "killed", "crashed"} /\ UNCHANGED vars

Next == ServerStep \/ EpollWaitFails \/ Stop \/ Destroy \/ (\E c \in Clients : ClientStep(c)) \/ Over

\* The server thread runs, and the clients in question read their responses.
Fairness == WF_vars(ServerStep) /\ \A c \in Clients : WF_vars(ClientRead(c))

Spec == Init /\ [][Next]_vars
FairSpec == Spec /\ Fairness

-----------------------------------------------------------------------------
(* Properties *)

\* Every variable stays in its type.
TypeOK ==
    /\ pc \in Locations /\ caller \in {"dispatch", "process"}
    /\ connection_fd \in Fds \cup {None} /\ listen_fd \in Fds \cup {None}
    /\ running \in BOOLEAN /\ stop_called \in BOOLEAN
    /\ events \in [Fds -> SUBSET EventBits] /\ handlers \in [Fds -> SUBSET {"in", "out"}]
    /\ connections \in SUBSET Fds
    /\ input_buffer \in [Fds -> Seq(Parts)] /\ output_buffer \in [Fds -> Seq(Parts)]
    /\ bytes_sent \in [Fds -> Nat]
    /\ socket \in [Fds -> Clients \cup {None}]
    /\ backlog \in SUBSET Clients /\ status \in [Clients -> Statuses]
    /\ up \in [Clients -> Seq(Parts)] /\ down \in [Clients -> Seq(Parts)]
    /\ sent \in [Clients -> Nat] /\ malformed \in SUBSET Clients
    /\ handled \in [Clients -> Seq(Nat)] /\ received \in [Clients -> Seq(Parts)]

\* The reactor's handlers, the manager's connections and the open sockets are
\* the same descriptors at every step of the loop, on every error path.
OneTable ==
    \A fd \in Fds :
        /\ fd \in connections <=> socket[fd] # None
        /\ handlers[fd] # {} <=> (fd \in connections \/ fd = listen_fd)
        /\ fd = listen_fd => fd \notin connections

\* An event waiting in events_ is about the connection it was reported for: no
\* handler of the batch closes another descriptor, whose number an accept
\* later in the batch could reuse.
Handling(fd) ==
    pc \in {"accept", "recv", "process", "send", "writable"} /\ connection_fd = fd
EventsNotStale ==
    [][\A fd \in Fds : events[fd] # {} /\ events'[fd] # {} /\ ~Handling(fd) =>
         socket'[fd] = socket[fd]]_vars

\* Responses waiting in output_buffer always have EPOLLOUT subscribed, or are
\* being written right now.
OutputSubscribed ==
    pc \notin Ended => \A fd \in connections :
        HasUnsent(fd) => "out" \in handlers[fd] \/ (pc = "send" /\ connection_fd = fd)

Responses(c) ==
    [i \in 1..(FrameParts * Len(handled[c])) |->
        Frame(c, handled[c][(i + 1) \div FrameParts])[((i + 1) % FrameParts) + 1]]
IsPrefixOf(s, t) == Len(s) <= Len(t) /\ \A i \in 1..Len(s) : s[i] = t[i]

\* The dispatcher sees each request of a connection once, in the order sent, and
\* the client gets whole responses to its own requests in that order: what it
\* has read and what is on its way is a prefix of them, and nothing is missing
\* while its connection is open.
ResponsesInOrder ==
    \A c \in Clients :
        /\ handled[c] = [i \in 1..Len(handled[c]) |-> i]
        /\ FrameParts * Len(handled[c]) <= sent[c]
        /\ IsPrefixOf(received[c] \o down[c], Responses(c))
        /\ \A fd \in connections : socket[fd] = c /\ status[c] = "open" =>
             received[c] \o down[c] \o Unsent(fd) = Responses(c)

Accepted(c) == \E fd \in connections : socket[fd] = c

\* A complete request of a client that stays connected is answered, however the
\* reads, writes and other connections interleave.
RequestsAnswered ==
    \A c \in Clients : \A n \in 1..MaxRequests[c] :
        Accepted(c) /\ sent[c] >= FrameParts * n
            ~> \/ Len(received[c]) >= FrameParts * n
               \/ status[c] # "open" \/ c \in malformed \/ stop_called \/ pc \in Ended

\* Once the loop has begun, Stop makes Run return.
StopReturns == (~running /\ pc \notin {"listen", "start"}) ~> pc \in Ended

\* The comment in Loop says that a descriptor removed meanwhile is skipped
\* safely; here, on_writable is never looked up in a handler that was erased.
HandlerAlive ==
    pc = "writable" /\ "out" \in events[connection_fd] => handlers[connection_fd] # {}
=============================================================================
