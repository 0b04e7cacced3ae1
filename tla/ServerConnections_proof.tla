------------------------- MODULE ServerConnections_proof -------------------------
(* Proofs about ServerConnections, for any clients, descriptors, event batches *)
(* and socket buffers.                                                       *)
EXTENDS ServerConnections, SequenceTheorems, TLAPS

-----------------------------------------------------------------------------
(* Types *)

\* In a handler, connection_fd is a descriptor.
InHandler == {"accept", "recv", "process", "send", "writable"}
Targeted == pc \in InHandler => connection_fd \in Fds

\* In on_readable before a frame is handled, and in on_writable, the connection is there.
Attached ==
    /\ pc \in {"recv", "send"} => connection_fd \in connections
    /\ pc = "accept" => connection_fd = listen_fd
    /\ pc = "listen" => listen_fd = None

\* Cutting the front of a sequence off.
LEMMA CutFront ==
    ASSUME NEW S, NEW s \in Seq(S), NEW k \in Nat, k <= Len(s)
    PROVE  /\ SubSeq(s, k + 1, Len(s)) \in Seq(S)
           /\ Len(SubSeq(s, k + 1, Len(s))) = Len(s) - k
           /\ \A i \in 1..(Len(s) - k) : SubSeq(s, k + 1, Len(s))[i] = s[k + i]
<1>1. Len(s) \in Nat /\ k + 1 \in 1..(Len(s) + 1)
  OBVIOUS
<1>2. \A i \in (k + 1)..Len(s) : s[i] \in S
  OBVIOUS
<1>3. SubSeq(s, k + 1, Len(s)) \in Seq(S)
  BY <1>1, <1>2, SubSeqProperties
<1>4. Len(SubSeq(s, k + 1, Len(s))) = Len(s) - k
  BY <1>1, SubSeqProperties
<1>5. \A i \in 1..(Len(s) - k) : SubSeq(s, k + 1, Len(s))[i] = s[k + i]
  BY <1>1, SubSeqProperties
<1> QED BY <1>3, <1>4, <1>5

\* The parts of a frame.
LEMMA FrameType ==
    ASSUME NEW c \in Clients, NEW id \in Nat
    PROVE  /\ Frame(c, id) \in Seq(Parts) /\ Len(Frame(c, id)) = 2
           /\ Frame(c, id)[1] = Part(c, id, "length") /\ Frame(c, id)[2] = Part(c, id, "body")
           /\ \A p \in {"length", "invalid", "body"} : Part(c, id, p) \in Parts
<1>1. \A p \in {"length", "invalid", "body"} : Part(c, id, p) \in Parts
  BY DEF Part, Parts
<1> QED BY <1>1 DEF Frame

\* The steps that only move the server thread, in TypeOK's terms.
LEMMA MoveType ==
    ASSUME TypeOK, Targeted,
           \/ ListenFails \/ LoopStart \/ LoopExit \/ EpollWaitFails \/ DispatchDone
           \/ (\E fd \in Fds : Dispatch(fd)) \/ CallFreedHandler \/ AcceptDone \/ RecvAgain
           \/ FrameIncomplete \/ ReadFreedInput \/ SendBrokenPipe \/ Stop
    PROVE  TypeOK' /\ Targeted'
<1>1. /\ events' = events /\ handlers' = handlers /\ listen_fd' = listen_fd
      /\ connections' = connections /\ input_buffer' = input_buffer
      /\ output_buffer' = output_buffer /\ bytes_sent' = bytes_sent /\ socket' = socket
      /\ handled' = handled /\ backlog' = backlog /\ status' = status /\ up' = up /\ down' = down
      /\ sent' = sent /\ malformed' = malformed /\ received' = received /\ caller' = caller
  BY DEF ListenFails, LoopStart, LoopExit, EpollWaitFails, DispatchDone, Dispatch,
         CallFreedHandler, AcceptDone, RecvAgain, FrameIncomplete, ReadFreedInput,
         SendBrokenPipe, Stop, managerVars, bufferVars, netVars, clientVars, controlVars
<1>2. pc' \in Locations /\ connection_fd' \in Fds \cup {None} /\ Targeted'
  BY DEF TypeOK, Targeted, InHandler, Locations, Ended, Goto, ListenFails, LoopStart, LoopExit,
         EpollWaitFails, DispatchDone, Dispatch, CallFreedHandler, AcceptDone, RecvAgain,
         FrameIncomplete, ReadFreedInput, SendBrokenPipe, Stop, controlVars
<1>3. running' \in BOOLEAN /\ stop_called' \in BOOLEAN
  BY DEF TypeOK, ListenFails, LoopStart, LoopExit, EpollWaitFails, DispatchDone, Dispatch,
         CallFreedHandler, AcceptDone, RecvAgain, FrameIncomplete, ReadFreedInput,
         SendBrokenPipe, Stop, stopVars
<1> QED BY <1>1, <1>2, <1>3 DEF TypeOK

\* Listen, the batch of events, and the closing of connections.
LEMMA TableType ==
    ASSUME TypeOK, Targeted,
           \/ Listen \/ EpollWait \/ (\E fd \in Fds : DispatchError(fd)) \/ CallWritable
           \/ RecvCloses \/ FrameInvalid \/ SendCloses \/ SendAgain \/ Destroy
    PROVE  TypeOK' /\ Targeted'
<1>1. /\ running' = running /\ stop_called' = stop_called /\ input_buffer' = input_buffer
      /\ output_buffer' = output_buffer /\ bytes_sent' = bytes_sent
      /\ handled' = handled /\ backlog' = backlog /\ status' = status /\ up' = up /\ down' = down
      /\ sent' = sent /\ malformed' = malformed /\ received' = received
      /\ connection_fd' = connection_fd
  BY DEF Listen, EpollWait, DispatchError, CallWritable, RecvCloses, FrameInvalid, SendCloses,
         SendAgain, Destroy, managerVars, bufferVars, netVars, clientVars, controlVars, stopVars
<1>2. pc' \in Locations /\ Targeted' /\ caller' \in {"dispatch", "process"}
  BY <1>1 DEF TypeOK, Targeted, InHandler, Locations, Ended, Goto, Listen, EpollWait,
         DispatchError, CallWritable, RecvCloses, FrameInvalid, SendCloses, SendAgain, Destroy,
         controlVars
<1>3. /\ listen_fd' \in Fds \cup {None} /\ connections' \in SUBSET Fds
      /\ socket' \in [Fds -> Clients \cup {None}]
  BY DEF TypeOK, Listen, LowestFd, FreeFds, EpollWait, DispatchError, CallWritable, RecvCloses,
         FrameInvalid, SendCloses, SendAgain, Destroy, Close, managerVars
<1>4. handlers' \in [Fds -> SUBSET {"in", "out"}]
  <2>1. /\ {} \in SUBSET {"in", "out"} /\ {"in"} \in SUBSET {"in", "out"}
        /\ {"in", "out"} \in SUBSET {"in", "out"}
    OBVIOUS
  <2>2. \/ handlers' = handlers \/ handlers' = [fd \in Fds |-> {}]
        \/ \E fd \in Fds : \E i \in {{}, {"in"}, {"in", "out"}} :
             handlers' = [handlers EXCEPT ![fd] = i]
    BY DEF Targeted, InHandler, Listen, LowestFd, FreeFds, EpollWait, DispatchError,
           CallWritable, RecvCloses, FrameInvalid, SendCloses, SendAgain, Destroy, Close,
           UpdateInterest
  <2> QED BY <2>1, <2>2 DEF TypeOK
<1>5. events' \in [Fds -> SUBSET EventBits]
  <2>1. \A fd \in Fds : Ready(fd) \in SUBSET EventBits
    BY DEF Ready, EventBits
  <2>2. CASE EpollWait
    BY <2>1, <2>2 DEF EpollWait
  <2>3. CASE ~EpollWait
    BY <2>3 DEF TypeOK, Listen, DispatchError, CallWritable, RecvCloses, FrameInvalid, SendCloses,
           SendAgain, Destroy
  <2> QED BY <2>2, <2>3
<1> QED BY <1>1, <1>2, <1>3, <1>4, <1>5 DEF TypeOK

\* Accepting, and the clients.
LEMMA ClientType ==
    ASSUME TypeOK, Targeted, NEW c \in Clients, Accept(c) \/ AcceptRejects(c) \/ ClientStep(c)
    PROVE  TypeOK' /\ Targeted'
<1>1. /\ pc' = pc /\ connection_fd' = connection_fd /\ caller' = caller /\ running' = running
      /\ stop_called' = stop_called /\ events' = events /\ listen_fd' = listen_fd
      /\ handled' = handled
  BY DEF Accept, AcceptRejects, ClientStep, Connect, ClientSend, ClientRead, ClientCloses,
         serverVars, controlVars, stopVars, managerVars
<1>2. Targeted'
  BY <1>1 DEF Targeted
<1>3. CASE Accept(c)
  <2>1. PICK fd \in LowestFd :
          /\ socket' = [socket EXCEPT ![fd] = c]
          /\ connections' = connections \cup {fd}
          /\ input_buffer' = [input_buffer EXCEPT ![fd] = <<>>]
          /\ output_buffer' = [output_buffer EXCEPT ![fd] = <<>>]
          /\ bytes_sent' = [bytes_sent EXCEPT ![fd] = 0]
          /\ handlers' = [handlers EXCEPT ![fd] = {"in"}]
    BY <1>3 DEF Accept
  <2>2. fd \in Fds /\ backlog' \in SUBSET Clients /\ status' = status /\ up' = up /\ down' = down
        /\ sent' = sent /\ malformed' = malformed /\ received' = received
    BY <1>3 DEF Accept, LowestFd, FreeFds, clientVars, TypeOK
  <2> QED BY <1>1, <1>2, <2>1, <2>2 DEF TypeOK
<1>4. CASE AcceptRejects(c) \/ Connect(c) \/ ClientCloses(c)
  <2>1. /\ handlers' = handlers /\ connections' = connections /\ input_buffer' = input_buffer
        /\ output_buffer' = output_buffer /\ bytes_sent' = bytes_sent /\ socket' = socket
        /\ up' = up /\ down' = down
        /\ sent' = sent /\ malformed' = malformed /\ received' = received
    BY <1>4 DEF AcceptRejects, Connect, ClientCloses, serverVars, managerVars, bufferVars, clientVars
  <2>2. backlog' \in SUBSET Clients /\ status' \in [Clients -> Statuses]
    BY <1>4 DEF AcceptRejects, Connect, ClientCloses, TypeOK, Statuses
  <2> QED BY <1>1, <1>2, <2>1, <2>2 DEF TypeOK
<1>5. CASE ClientRead(c) \/ ClientSend(c)
  <2>1. /\ handlers' = handlers /\ connections' = connections /\ input_buffer' = input_buffer
        /\ output_buffer' = output_buffer /\ bytes_sent' = bytes_sent /\ socket' = socket
        /\ backlog' = backlog /\ status' = status
    BY <1>5 DEF ClientRead, ClientSend, serverVars, managerVars, bufferVars
  <2>2. /\ down' \in [Clients -> Seq(Parts)] /\ received' \in [Clients -> Seq(Parts)]
    <3>1. CASE ClientSend(c)
      BY <3>1 DEF ClientSend, TypeOK
    <3>2. CASE ClientRead(c)
      <4>1. down[c] \in Seq(Parts) /\ down[c] # <<>> /\ received[c] \in Seq(Parts)
        BY <3>2 DEF ClientRead, TypeOK
      <4>2. Head(down[c]) \in Parts /\ Tail(down[c]) \in Seq(Parts)
            /\ Append(received[c], Head(down[c])) \in Seq(Parts)
        BY <4>1
      <4> QED BY <3>2, <4>2 DEF ClientRead, TypeOK
    <3> QED BY <1>5, <3>1, <3>2
  <2>3. /\ up' \in [Clients -> Seq(Parts)] /\ sent' \in [Clients -> Nat]
        /\ malformed' \in SUBSET Clients
    <3>1. CASE ClientRead(c)
      BY <3>1 DEF ClientRead, TypeOK
    <3>2. CASE ClientSend(c)
      <4> DEFINE id == sent[c] \div FrameParts + 1  k == (sent[c] % FrameParts) + 1
      <4>1. sent[c] \in Nat /\ up[c] \in Seq(Parts)
        BY DEF TypeOK
      <4>2. id \in Nat /\ k \in {1, 2}
        BY <4>1 DEF FrameParts
      <4>3. \/ /\ up' = [up EXCEPT ![c] = Append(@, Frame(c, id)[k])]
               /\ sent' = [sent EXCEPT ![c] = @ + 1] /\ malformed' = malformed
            \/ /\ up' = [up EXCEPT ![c] = Append(@, Part(c, id, "invalid"))]
               /\ sent' = sent /\ malformed' = malformed \cup {c}
        BY <3>2 DEF ClientSend
      <4> HIDE DEF id, k
      <4>4. Frame(c, id)[k] \in Parts /\ Part(c, id, "invalid") \in Parts
        BY <4>2, FrameType
      <4>5. Append(up[c], Frame(c, id)[k]) \in Seq(Parts)
            /\ Append(up[c], Part(c, id, "invalid")) \in Seq(Parts)
        BY <4>1, <4>4
      <4>6. sent[c] + 1 \in Nat
        BY <4>1
      <4>7. up' \in [Clients -> Seq(Parts)]
        BY <4>3, <4>5 DEF TypeOK
      <4>8. sent' \in [Clients -> Nat]
        BY <4>3, <4>6 DEF TypeOK
      <4> QED BY <4>3, <4>7, <4>8 DEF TypeOK
    <3> QED BY <1>5, <3>1, <3>2
  <2> QED BY <1>1, <1>2, <2>1, <2>2, <2>3 DEF TypeOK
<1> QED BY <1>3, <1>4, <1>5 DEF ClientStep

\* The steps that move data through the buffers.
LEMMA DataType ==
    ASSUME TypeOK, Targeted, OneTable, Attached, RecvData \/ HandleFrame \/ SendPart \/ SendDone
    PROVE  TypeOK' /\ Targeted'
<1> DEFINE fd == connection_fd
<1>0. fd \in Fds /\ running' = running /\ stop_called' = stop_called /\ fd' = fd /\ events' = events
      /\ listen_fd' = listen_fd /\ connections' = connections /\ socket' = socket
      /\ backlog' = backlog /\ sent' = sent /\ malformed' = malformed /\ received' = received
  BY DEF Targeted, InHandler, RecvData, HandleFrame, SendPart, SendDone, controlVars, stopVars,
         netVars, clientVars
<1>1. pc' \in Locations /\ caller' \in {"dispatch", "process"} /\ Targeted'
  BY <1>0 DEF TypeOK, Targeted, InHandler, Locations, RecvData, HandleFrame, SendPart, SendDone,
         Goto, controlVars
<1>2. input_buffer[fd] \in Seq(Parts) /\ output_buffer[fd] \in Seq(Parts) /\ bytes_sent[fd] \in Nat
  BY <1>0 DEF TypeOK
<1>3. CASE RecvData
  <2>1. Peer \in Clients
    BY <1>0, <1>3 DEF RecvData, Attached, OneTable, TypeOK, Peer
  <2>2. /\ handlers' = handlers /\ output_buffer' = output_buffer /\ bytes_sent' = bytes_sent
        /\ handled' = handled /\ status' = status /\ down' = down
        /\ input_buffer' = [input_buffer EXCEPT ![fd] = @ \o up[Peer]]
        /\ up' = [up EXCEPT ![Peer] = <<>>]
    BY <1>3 DEF RecvData
  <2>3. input_buffer[fd] \o up[Peer] \in Seq(Parts)
    BY <1>2, <2>1 DEF TypeOK
  <2> QED BY <1>0, <1>1, <2>1, <2>2, <2>3 DEF TypeOK
<1>4. CASE HandleFrame
  <2> DEFINE in == input_buffer[fd]  f == in[2]
  <2>1. /\ Len(in) >= 2 /\ input_buffer' = [input_buffer EXCEPT ![fd] = SubSeq(in, 2 + 1, Len(in))]
        /\ handled' = [handled EXCEPT ![f.client] = Append(@, f.id)]
        /\ bytes_sent' = bytes_sent /\ status' = status /\ up' = up /\ down' = down
        /\ \/ output_buffer' = output_buffer /\ handlers' = handlers
           \/ /\ output_buffer' = [output_buffer EXCEPT ![fd] = @ \o Frame(f.client, f.id)]
              /\ handlers' = [handlers EXCEPT ![fd] = {"in", "out"}]
    BY <1>4 DEF HandleFrame, FrameParts, InputOf, UpdateInterest, netVars
  <2>2. f \in Parts /\ f.client \in Clients /\ f.id \in Nat
    <3>1. Len(in) \in Nat /\ 2 \in 1..Len(in)
      BY <1>2, <2>1
    <3>2. f \in Parts
      BY <1>2, <3>1
    <3> QED BY <3>2 DEF Parts
  <2>3. SubSeq(in, 2 + 1, Len(in)) \in Seq(Parts)
    BY <1>2, <2>1, CutFront
  <2> HIDE DEF f
  <2>4. output_buffer[fd] \o Frame(f.client, f.id) \in Seq(Parts)
    BY <1>2, <2>2, FrameType
  <2>5. handled' \in [Clients -> Seq(Nat)]
    BY <2>1, <2>2 DEF TypeOK
  <2>6. output_buffer' \in [Fds -> Seq(Parts)] /\ handlers' \in [Fds -> SUBSET {"in", "out"}]
    BY <1>0, <2>1, <2>4 DEF TypeOK
  <2>7. input_buffer' \in [Fds -> Seq(Parts)]
    BY <1>0, <2>1, <2>3 DEF TypeOK
  <2> QED BY <1>0, <1>1, <2>1, <2>5, <2>6, <2>7 DEF TypeOK
<1>5. CASE SendPart
  <2> DEFINE k == bytes_sent[fd]  out == output_buffer[fd]
  <2>0. Peer \in Clients /\ k < Len(out)
    BY <1>0, <1>5 DEF SendPart, HasUnsent, Attached, OneTable, TypeOK, Peer
  <2>1. /\ handlers' = handlers /\ output_buffer' = output_buffer /\ input_buffer' = input_buffer
        /\ handled' = handled /\ up' = up
        /\ bytes_sent' = [bytes_sent EXCEPT ![fd] = @ + 1]
        /\ \/ /\ down' = [down EXCEPT ![Peer] = Append(@, Head(SubSeq(out, k + 1, Len(out))))]
              /\ status' = status
           \/ down' = down /\ status' \in {status, [status EXCEPT ![Peer] = "broken"]}
    BY <1>5 DEF SendPart, Unsent
  <2>2. Head(SubSeq(out, k + 1, Len(out))) = out[k + 1] /\ out[k + 1] \in Parts
    BY <1>2, <2>0, CutFront
  <2> HIDE DEF out, k
  <2>3. down' \in [Clients -> Seq(Parts)]
    <3>1. Append(down[Peer], out[k + 1]) \in Seq(Parts)
      BY <2>0, <2>2 DEF TypeOK
    <3> QED BY <2>0, <2>1, <2>2, <3>1 DEF TypeOK
  <2>4. bytes_sent' \in [Fds -> Nat]
    <3>1. bytes_sent \in [Fds -> Nat] /\ bytes_sent[fd] + 1 \in Nat
      BY <1>2 DEF TypeOK
    <3> QED BY <2>1, <3>1
  <2>5. status' \in [Clients -> Statuses]
    <3>1. "broken" \in Statuses /\ status \in [Clients -> Statuses]
      BY DEF TypeOK, Statuses
    <3> QED BY <2>1, <3>1
  <2> QED BY <1>0, <1>1, <2>1, <2>3, <2>4, <2>5 DEF TypeOK
<1>6. CASE SendDone
  <2>1. /\ input_buffer' = input_buffer /\ handled' = handled /\ status' = status /\ up' = up
        /\ down' = down
        /\ output_buffer' = [output_buffer EXCEPT ![fd] = <<>>]
        /\ bytes_sent' = [bytes_sent EXCEPT ![fd] = 0]
        /\ handlers' = [handlers EXCEPT ![fd] = {"in"}]
    BY <1>6 DEF SendDone, UpdateInterest, netVars
  <2> QED BY <1>0, <1>1, <2>1 DEF TypeOK
<1> QED BY <1>3, <1>4, <1>5, <1>6

-----------------------------------------------------------------------------
(* The tables of descriptors *)

\* An event that waits is about a connection, the listening socket, or the descriptor
\* whose handler has just closed it; between batches none waits.
Pending ==
    /\ pc \notin Ended => \A fd \in Fds : events[fd] # {} =>
          fd \in connections \/ fd = listen_fd \/ (pc \in {"process", "writable"} /\ connection_fd = fd)
    /\ pc \in {"listen", "start", "wait", "stopped"} => \A fd \in Fds : events[fd] = {}
    /\ pc = "send" /\ caller = "dispatch" => events[connection_fd] = {}

Tables == TypeOK /\ Targeted /\ OneTable /\ Attached /\ Pending /\ OutputSubscribed

\* The steps that close connection_fd in its handler.
CloseStep == RecvCloses \/ FrameInvalid \/ SendCloses

\* The steps that leave handlers_, connections_ and the sockets as they are.
TablesKept == UNCHANGED <<handlers, connections, socket, listen_fd>>

\* Which steps keep the tables, and which change them.
LEMMA TableSteps ==
    ASSUME Next
    PROVE  \/ TablesKept
           \/ Listen \/ (\E fd \in Fds : DispatchError(fd)) \/ (\E c \in Clients : Accept(c))
           \/ CloseStep \/ HandleFrame \/ SendAgain \/ SendDone \/ Destroy
<1>1. CASE ServerStep
  <2>1. CASE Run \/ Loop
    BY <2>1 DEF Run, Loop, TablesKept, ListenFails, LoopStart, EpollWait, LoopExit, DispatchDone,
                Dispatch, CallWritable, CallFreedHandler, managerVars
  <2>2. CASE AcceptLoop \/ HandleReadable
    BY <2>2 DEF AcceptLoop, HandleReadable, CloseStep, TablesKept, AcceptRejects, AcceptDone,
                RecvData, RecvAgain, managerVars, serverVars
  <2>3. CASE ProcessInput \/ HandleWritable
    BY <2>3 DEF ProcessInput, HandleWritable, CloseStep, TablesKept, FrameIncomplete,
                ReadFreedInput, SendPart, SendBrokenPipe, managerVars
  <2> QED BY <1>1, <2>1, <2>2, <2>3 DEF ServerStep
<1>2. CASE EpollWaitFails \/ Stop \/ Over \/ (\E c \in Clients : ClientStep(c))
  BY <1>2 DEF EpollWaitFails, Stop, Over, ClientStep, Connect, ClientSend, ClientRead,
              ClientCloses, TablesKept, vars, serverVars, managerVars
<1> QED BY <1>1, <1>2 DEF Next

\* The three tables agree after every step.
LEMMA OneTableStep ==
    ASSUME Tables, Next
    PROVE  OneTable'
<1>0. TypeOK /\ Targeted /\ OneTable /\ Attached /\ connections \subseteq Fds
  BY DEF Tables, TypeOK
<1>1. CASE TablesKept
  BY <1>0, <1>1 DEF TablesKept, OneTable
<1>2. CASE Listen
  <2>1. PICK fd \in LowestFd : listen_fd' = fd /\ handlers' = [handlers EXCEPT ![fd] = {"in"}]
    BY <1>2 DEF Listen
  <2>2. fd \in Fds /\ socket[fd] = None /\ listen_fd = None /\ connections' = connections
        /\ socket' = socket
    BY <1>0, <1>2 DEF Listen, Attached, LowestFd, FreeFds
  <2> QED BY <1>0, <2>1, <2>2, NoneAssumption DEF OneTable, TypeOK
<1>3. ASSUME NEW fd \in Fds, Close(fd), fd \in connections, listen_fd' = listen_fd
      PROVE  OneTable'
  <2>1. \A other \in Fds \ {fd} : /\ handlers'[other] = handlers[other]
                                  /\ socket'[other] = socket[other]
                                  /\ other \in connections' <=> other \in connections
    BY <1>0, <1>3 DEF Close, TypeOK
  <2>2. handlers'[fd] = {} /\ socket'[fd] = None /\ fd \notin connections' /\ fd # listen_fd
    BY <1>0, <1>3 DEF Close, TypeOK, OneTable
  <2> QED BY <1>0, <1>3, <2>1, <2>2 DEF OneTable
<1>4. CASE CloseStep
  <2>1. connection_fd \in connections /\ Close(connection_fd) /\ listen_fd' = listen_fd
    BY <1>0, <1>4 DEF CloseStep, RecvCloses, FrameInvalid, SendCloses, Attached
  <2> QED BY <1>0, <1>3, <2>1
<1>5. ASSUME NEW fd \in Fds, DispatchError(fd) PROVE OneTable'
  <2>1. CASE fd \in connections
    BY <1>3, <1>5, <2>1 DEF DispatchError
  <2>2. CASE fd \notin connections
    BY <1>1, <1>5, <2>2 DEF DispatchError, TablesKept
  <2> QED BY <2>1, <2>2
<1>6. ASSUME NEW c \in Clients, Accept(c) PROVE OneTable'
  <2>1. PICK fd \in LowestFd : /\ socket' = [socket EXCEPT ![fd] = c]
                               /\ connections' = connections \cup {fd}
                               /\ handlers' = [handlers EXCEPT ![fd] = {"in"}]
    BY <1>6 DEF Accept
  <2>2. fd \in Fds /\ fd # listen_fd /\ listen_fd' = listen_fd /\ c # None
    BY <1>6, NoneAssumption DEF Accept, LowestFd, FreeFds
  <2> QED BY <1>0, <2>1, <2>2 DEF OneTable, TypeOK
<1>7. CASE HandleFrame \/ SendAgain \/ SendDone
  <2>1. /\ connections' = connections /\ socket' = socket /\ listen_fd' = listen_fd
        /\ \/ handlers' = handlers
           \/ /\ connection_fd \in connections
              /\ \E i \in {{"in"}, {"in", "out"}} : handlers' = [handlers EXCEPT ![connection_fd] = i]
    BY <1>0, <1>7 DEF HandleFrame, SendAgain, SendDone, UpdateInterest, Attached, managerVars
  <2>2. ASSUME NEW i \in {{"in"}, {"in", "out"}}, connection_fd \in connections,
               handlers' = [handlers EXCEPT ![connection_fd] = i]
        PROVE  \A fd \in Fds : handlers'[fd] # {} <=> handlers[fd] # {}
    <3>1. i # {} /\ handlers[connection_fd] # {} /\ connection_fd \in Fds
      BY <1>0, <2>2 DEF OneTable
    <3> QED BY <1>0, <2>2, <3>1 DEF TypeOK
  <2>3. \A fd \in Fds : handlers'[fd] # {} <=> handlers[fd] # {}
    BY <2>1, <2>2
  <2> QED BY <1>0, <2>1, <2>3 DEF OneTable
<1>8. CASE Destroy
  BY <1>0, <1>8, NoneAssumption DEF Destroy, OneTable, TypeOK
<1> QED BY <1>1, <1>2, <1>4, <1>5, <1>6, <1>7, <1>8, TableSteps

\* Where the thread is says which connection is there.
LEMMA AttachedStep ==
    ASSUME Tables, Next
    PROVE  Attached'
<1>0. TypeOK /\ Targeted /\ OneTable /\ Attached
  BY DEF Tables
<1>1. CASE Run \/ Stop \/ Destroy \/ EpollWaitFails \/ Over
  BY <1>0, <1>1 DEF Run, Listen, ListenFails, LoopStart, Stop, Destroy, EpollWaitFails, Over,
                    Goto, Attached, Ended, vars, serverVars, controlVars, managerVars
<1>2. CASE Loop
  <2>1. CASE EpollWait \/ LoopExit \/ DispatchDone \/ CallWritable \/ CallFreedHandler
    BY <1>0, <2>1 DEF EpollWait, LoopExit, DispatchDone, CallWritable, CallFreedHandler, Goto, Attached,
           controlVars, managerVars
  <2>2. ASSUME NEW fd \in Fds, Dispatch(fd) PROVE Attached'
    <3>1. /\ connection_fd' = fd /\ connections' = connections /\ listen_fd' = listen_fd
          /\ handlers[fd] # {}
          /\ pc' = IF "in" \notin events[fd] THEN "writable"
                   ELSE IF fd = listen_fd THEN "accept" ELSE "recv"
      BY <2>2 DEF Dispatch, Goto, managerVars
    <3> QED BY <1>0, <3>1 DEF Attached, OneTable
  <2>3. ASSUME NEW fd \in Fds, DispatchError(fd) PROVE Attached'
    BY <2>3 DEF DispatchError, Attached
  <2> QED BY <1>2, <2>1, <2>2, <2>3 DEF Loop
<1>3. CASE AcceptLoop \/ HandleReadable
  BY <1>0, <1>3 DEF AcceptLoop, Accept, AcceptRejects, AcceptDone, HandleReadable, RecvData,
         RecvAgain, RecvCloses, Goto, Attached, serverVars, controlVars, managerVars
<1>4. CASE ProcessInput \/ HandleWritable
  BY <1>0, <1>4 DEF ProcessInput, HandleFrame, FrameInvalid, FrameIncomplete, ReadFreedInput,
         HandleWritable, SendPart, SendAgain, SendCloses, SendBrokenPipe, SendDone, Goto,
         Attached, TypeOK, controlVars, managerVars
<1>5. CASE \E c \in Clients : ClientStep(c)
  BY <1>0, <1>5 DEF ClientStep, Connect, ClientSend, ClientRead, ClientCloses, Attached,
         serverVars, controlVars, managerVars
<1> QED BY <1>1, <1>2, <1>3, <1>4, <1>5 DEF Next, ServerStep

\* The events that wait stay about what they were reported for.
LEMMA PendingStep ==
    ASSUME Tables, Next
    PROVE  Pending'
<1>0. TypeOK /\ Targeted /\ OneTable /\ Attached /\ Pending
  BY DEF Tables
<1>1. CASE Run \/ Stop \/ Destroy \/ EpollWaitFails
  BY <1>0, <1>1 DEF Run, Listen, ListenFails, LoopStart, Stop, Destroy, EpollWaitFails,
                    Goto, Pending, Ended, controlVars, managerVars
<1>2. CASE Loop
  <2>1. CASE LoopExit \/ DispatchDone \/ CallFreedHandler
    BY <1>0, <2>1 DEF LoopExit, DispatchDone, CallFreedHandler, Goto, Pending, Ended, controlVars, managerVars
  <2>2. CASE CallWritable
    <3>1. /\ connections' = connections /\ listen_fd' = listen_fd /\ connection_fd' = connection_fd
          /\ events' = [events EXCEPT ![connection_fd] = {}] /\ connection_fd \in Fds
          /\ pc' \in {"send", "dispatch"} /\ pc = "writable"
      BY <1>0, <2>2 DEF CallWritable, Goto, managerVars, Targeted, InHandler
    <3> QED BY <1>0, <3>1 DEF Pending, TypeOK, Ended
  <2>3. CASE EpollWait
    <3>1. /\ pc' = "dispatch" /\ connections' = connections /\ listen_fd' = listen_fd
          /\ \A fd \in Fds : events'[fd] # {} => Ready(fd) # {}
      BY <2>3 DEF EpollWait, Goto, managerVars
    <3>2. \A fd \in Fds : Ready(fd) # {} => handlers[fd] # {}
      BY DEF Ready
    <3> QED BY <1>0, <3>1, <3>2 DEF Pending, OneTable
  <2>4. ASSUME NEW fd \in Fds, Dispatch(fd) PROVE Pending'
    <3>1. /\ events' = events /\ connections' = connections /\ listen_fd' = listen_fd
          /\ pc = "dispatch" /\ pc' \in {"writable", "accept", "recv"}
      BY <2>4 DEF Dispatch, Goto, managerVars
    <3> QED BY <1>0, <3>1 DEF Pending, Ended
  <2>5. ASSUME NEW fd \in Fds, DispatchError(fd) PROVE Pending'
    <3>1. /\ events' = [events EXCEPT ![fd] = {}] /\ listen_fd' = listen_fd
          /\ pc = "dispatch" /\ pc' = pc
          /\ (connections' = connections \/ connections' = connections \ {fd})
      BY <2>5 DEF DispatchError, Close
    <3> QED BY <1>0, <3>1 DEF Pending, TypeOK, Ended
  <2> QED BY <1>2, <2>1, <2>2, <2>3, <2>4, <2>5 DEF Loop
<1>3. CASE AcceptLoop
  <2>1. /\ events' = events /\ listen_fd' = listen_fd /\ connections \subseteq connections'
        /\ pc = "accept" /\ pc' \in {"accept", "writable"}
    BY <1>3 DEF AcceptLoop, Accept, AcceptRejects, AcceptDone, Goto, serverVars, managerVars
  <2> QED BY <1>0, <2>1 DEF Pending, Ended
<1>4. CASE HandleReadable
  <2>1. /\ events' = events /\ listen_fd' = listen_fd /\ connection_fd' = connection_fd
        /\ pc = "recv" /\ pc' \in {"recv", "process", "writable"}
        /\ \/ connections' = connections
           \/ connections' = connections \ {connection_fd} /\ pc' = "writable"
    BY <1>4 DEF HandleReadable, RecvData, RecvAgain, RecvCloses, Close, Goto, controlVars, managerVars
  <2> QED BY <1>0, <2>1 DEF Pending, Ended
<1>5. CASE ProcessInput
  <2>1. /\ events' = events /\ listen_fd' = listen_fd /\ connection_fd' = connection_fd
        /\ pc = "process"
        /\ \/ connections' = connections \ {connection_fd} /\ pc' = "writable"
           \/ connections' = connections /\ pc' \in {"writable", "crashed"}
           \/ connections' = connections /\ pc' = "process"
           \/ /\ connections' = connections /\ pc' = "send" /\ caller' = "process"
              /\ connection_fd \in connections
    BY <1>5 DEF ProcessInput, HandleFrame, FrameInvalid, FrameIncomplete, ReadFreedInput, Close,
                Goto, controlVars, managerVars
  <2> QED BY <1>0, <2>1 DEF Pending, Ended
<1>6. CASE HandleWritable
  <2>1. /\ events' = events /\ listen_fd' = listen_fd /\ connection_fd' = connection_fd
        /\ pc = "send" /\ caller' = caller /\ pc' \in {"send", caller, "killed"}
        /\ \/ connections' = connections
           \/ connections' = connections \ {connection_fd} /\ pc' = caller
        /\ caller \in {"dispatch", "process"} /\ connection_fd \in connections
    BY <1>0, <1>6 DEF HandleWritable, SendPart, SendAgain, SendCloses, SendBrokenPipe, SendDone,
                      Close, Goto, controlVars, managerVars, TypeOK, Attached
  <2> QED BY <1>0, <2>1 DEF Pending, Ended
<1>7. CASE Over \/ \E c \in Clients : ClientStep(c)
  BY <1>0, <1>7 DEF Over, ClientStep, Connect, ClientSend, ClientRead, ClientCloses, Pending,
         vars, serverVars, controlVars, managerVars
<1> QED BY <1>1, <1>2, <1>3, <1>4, <1>5, <1>6, <1>7 DEF Next, ServerStep

\* Responses that wait stay subscribed to EPOLLOUT.
LEMMA OutputStep ==
    ASSUME Tables, Next
    PROVE  OutputSubscribed'
<1>0. TypeOK /\ Targeted /\ OneTable /\ Attached /\ OutputSubscribed /\ connections \subseteq Fds
  BY DEF Tables, TypeOK
<1>1. ASSUME output_buffer' = output_buffer, bytes_sent' = bytes_sent, handlers' = handlers,
             connections' = connections, connection_fd' = connection_fd,
             pc # "send" \/ pc' = "send", pc \in Ended => pc' \in Ended
      PROVE  OutputSubscribed'
  BY <1>0, <1>1 DEF OutputSubscribed, HasUnsent
<1>2. CASE Run \/ Stop \/ Destroy \/ EpollWaitFails \/ Over
  <2>1. CASE Listen
    <3>1. PICK fd \in LowestFd : handlers' = [handlers EXCEPT ![fd] = {"in"}]
      BY <2>1 DEF Listen
    <3>2. \A g \in connections : handlers'[g] = handlers[g]
      BY <1>0, <3>1 DEF OneTable, LowestFd, FreeFds, TypeOK
    <3>3. /\ output_buffer' = output_buffer /\ bytes_sent' = bytes_sent /\ pc = "listen"
          /\ connections' = connections
      BY <2>1 DEF Listen, bufferVars
    <3> QED BY <1>0, <3>2, <3>3 DEF OutputSubscribed, HasUnsent, Ended
  <2>2. CASE Destroy \/ ListenFails \/ EpollWaitFails
    BY <2>2 DEF Destroy, ListenFails, EpollWaitFails, Goto, OutputSubscribed, Ended
  <2>3. CASE LoopStart \/ Stop \/ Over
    BY <1>1, <2>3 DEF LoopStart, Stop, Over, Goto, Ended, vars, serverVars, controlVars,
                      managerVars, bufferVars
  <2> QED BY <1>2, <2>1, <2>2, <2>3 DEF Run
<1>3. CASE Loop
  <2>1. CASE EpollWait \/ LoopExit \/ DispatchDone \/ CallWritable \/ CallFreedHandler
    BY <1>1, <2>1 DEF EpollWait, LoopExit, DispatchDone, CallWritable, CallFreedHandler, Goto,
                      Ended, controlVars, managerVars, bufferVars
  <2>2. ASSUME NEW fd \in Fds, Dispatch(fd) \/ DispatchError(fd) PROVE OutputSubscribed'
    <3>1. /\ output_buffer' = output_buffer /\ bytes_sent' = bytes_sent /\ pc = "dispatch"
          /\ \/ connections' = connections /\ handlers' = handlers
             \/ /\ connections' = connections \ {fd}
                /\ handlers' = [handlers EXCEPT ![fd] = {}]
      BY <2>2 DEF Dispatch, DispatchError, Close, managerVars, bufferVars
    <3> QED BY <1>0, <3>1 DEF OutputSubscribed, HasUnsent, Ended, TypeOK
  <2> QED BY <1>3, <2>1, <2>2 DEF Loop
<1>4. CASE AcceptLoop
  <2>1. ASSUME NEW c \in Clients, Accept(c) PROVE OutputSubscribed'
    <3>1. PICK fd \in LowestFd : /\ connections' = connections \cup {fd}
                                 /\ output_buffer' = [output_buffer EXCEPT ![fd] = <<>>]
                                 /\ bytes_sent' = [bytes_sent EXCEPT ![fd] = 0]
                                 /\ handlers' = [handlers EXCEPT ![fd] = {"in"}]
      BY <2>1 DEF Accept
    <3>2. fd \in Fds /\ fd \notin connections /\ pc = "accept"
      BY <1>0, <2>1 DEF LowestFd, FreeFds, OneTable, Accept
    <3>3. /\ output_buffer'[fd] = <<>> /\ bytes_sent'[fd] = 0 /\ Len(<<>>) = 0
          /\ \A g \in connections : /\ output_buffer'[g] = output_buffer[g]
                                    /\ bytes_sent'[g] = bytes_sent[g] /\ handlers'[g] = handlers[g]
      BY <1>0, <3>1, <3>2 DEF TypeOK
    <3>4. \A g \in connections : HasUnsent(g) => "out" \in handlers[g]
      BY <1>0, <3>2 DEF OutputSubscribed, Ended
    <3> QED BY <3>1, <3>3, <3>4 DEF OutputSubscribed, HasUnsent
  <2>2. ASSUME NEW c \in Clients, AcceptRejects(c) PROVE OutputSubscribed'
    BY <1>1, <2>2 DEF AcceptRejects, serverVars, controlVars, managerVars, bufferVars
  <2>3. CASE AcceptDone
    BY <1>1, <2>3 DEF AcceptDone, Goto, Ended, controlVars, managerVars, bufferVars
  <2> QED BY <1>4, <2>1, <2>2, <2>3 DEF AcceptLoop
<1>5. CASE CloseStep
  <2>1. /\ output_buffer' = output_buffer /\ bytes_sent' = bytes_sent
        /\ connections' = connections \ {connection_fd}
        /\ handlers' = [handlers EXCEPT ![connection_fd] = {}]
        /\ pc \notin Ended
    BY <1>5 DEF CloseStep, RecvCloses, FrameInvalid, SendCloses, Close, bufferVars, Ended
  <2> QED BY <1>0, <2>1 DEF OutputSubscribed, HasUnsent, TypeOK
<1>6. CASE RecvData \/ RecvAgain \/ FrameIncomplete \/ ReadFreedInput
  BY <1>1, <1>6 DEF RecvData, RecvAgain, FrameIncomplete, ReadFreedInput, Goto, Ended,
                    controlVars, managerVars, bufferVars
<1>7. CASE HandleFrame
  <2>1. /\ bytes_sent' = bytes_sent /\ connections' = connections /\ connection_fd' = connection_fd
        /\ pc = "process"
        /\ \/ output_buffer' = output_buffer /\ handlers' = handlers
           \/ /\ pc' = "send" /\ handlers' = [handlers EXCEPT ![connection_fd] = {"in", "out"}]
              /\ \A g \in Fds \ {connection_fd} : output_buffer'[g] = output_buffer[g]
    BY <1>0, <1>7 DEF HandleFrame, UpdateInterest, Goto, TypeOK
  <2> QED BY <1>0, <2>1 DEF OutputSubscribed, HasUnsent, Ended, TypeOK
<1>8. CASE SendPart \/ SendBrokenPipe
  <2>1. CASE SendBrokenPipe
    BY <2>1 DEF SendBrokenPipe, Goto, OutputSubscribed, Ended
  <2>2. CASE SendPart
    <3>1. /\ output_buffer' = output_buffer /\ handlers' = handlers /\ connections' = connections
          /\ connection_fd' = connection_fd /\ pc' = "send" /\ pc = "send"
          /\ \A g \in Fds \ {connection_fd} : bytes_sent'[g] = bytes_sent[g]
      BY <1>0, <2>2 DEF SendPart, controlVars, TypeOK
    <3> QED BY <1>0, <3>1 DEF OutputSubscribed, HasUnsent, Ended
  <2> QED BY <1>8, <2>1, <2>2
<1>9. CASE SendAgain \/ SendDone
  <2>0. connection_fd \in Fds /\ pc = "send" /\ connections' = connections
    BY <1>9, <1>0 DEF SendAgain, SendDone, Targeted, InHandler, managerVars
  <2>1. \A g \in Fds \ {connection_fd} : /\ output_buffer'[g] = output_buffer[g]
                                         /\ bytes_sent'[g] = bytes_sent[g] /\ handlers'[g] = handlers[g]
    BY <1>0, <1>9, <2>0 DEF SendAgain, SendDone, UpdateInterest, TypeOK, managerVars, bufferVars
  <2>2. \/ "out" \in handlers'[connection_fd]
        \/ output_buffer'[connection_fd] = <<>> /\ bytes_sent'[connection_fd] = 0
    BY <1>0, <1>9, <2>0 DEF SendAgain, SendDone, UpdateInterest, TypeOK
  <2>3. ~(0 < Len(<<>>))
    OBVIOUS
  <2> QED BY <1>0, <2>0, <2>1, <2>2, <2>3 DEF OutputSubscribed, HasUnsent, Ended
<1>10. CASE \E c \in Clients : ClientStep(c)
  BY <1>1, <1>10 DEF ClientStep, Connect, ClientSend, ClientRead, ClientCloses,
         serverVars, controlVars, managerVars, bufferVars
<1> QED BY <1>2, <1>3, <1>4, <1>5, <1>6, <1>7, <1>8, <1>9, <1>10
        DEF Next, ServerStep, CloseStep, HandleReadable, ProcessInput, HandleWritable

\* Every step keeps the types.
LEMMA TypeStep ==
    ASSUME Tables, Next
    PROVE  TypeOK' /\ Targeted'
<1>0. TypeOK /\ Targeted /\ OneTable /\ Attached
  BY DEF Tables
<1>1. CASE Over
  BY <1>0, <1>1 DEF Over, vars, serverVars, controlVars, stopVars, managerVars, bufferVars,
                    netVars, clientVars, TypeOK, Targeted
<1>2. CASE \E c \in Clients : Accept(c) \/ AcceptRejects(c) \/ ClientStep(c)
  BY <1>0, <1>2, ClientType
<1>3. CASE RecvData \/ HandleFrame \/ SendPart \/ SendDone
  BY <1>0, <1>3, DataType
<1>4. CASE \/ Listen \/ EpollWait \/ (\E fd \in Fds : DispatchError(fd)) \/ CallWritable
           \/ RecvCloses \/ FrameInvalid \/ SendCloses \/ SendAgain \/ Destroy
  BY <1>0, <1>4, TableType
<1>5. CASE \/ ListenFails \/ LoopStart \/ LoopExit \/ EpollWaitFails \/ DispatchDone
           \/ (\E fd \in Fds : Dispatch(fd)) \/ CallFreedHandler \/ AcceptDone \/ RecvAgain
           \/ FrameIncomplete \/ ReadFreedInput \/ SendBrokenPipe \/ Stop
  BY <1>0, <1>5, MoveType
<1> QED BY <1>1, <1>2, <1>3, <1>4, <1>5
        DEF Next, ServerStep, Run, Loop, AcceptLoop, HandleReadable, ProcessInput, HandleWritable

\* Nothing is open before Listen.
LEMMA TablesInit == Init => Tables
<1> SUFFICES ASSUME Init PROVE Tables
  OBVIOUS
<1>1. TypeOK
  <2>1. pc \in Locations /\ "none" \in Statuses /\ <<>> \in Seq(Parts) /\ <<>> \in Seq(Nat)
    BY DEF Init, Locations, Statuses
  <2> QED BY <2>1 DEF Init, TypeOK
<1>2. Targeted /\ Attached /\ OneTable
  BY NoneAssumption DEF Init, Targeted, InHandler, Attached, OneTable
<1>3. Pending /\ OutputSubscribed
  BY DEF Init, Pending, OutputSubscribed
<1> QED BY <1>1, <1>2, <1>3 DEF Tables

\* A step that changes nothing.
LEMMA TablesStutter ==
    ASSUME Tables, UNCHANGED vars
    PROVE  Tables'
<1> USE DEF vars, serverVars, controlVars, stopVars, managerVars, bufferVars, netVars, clientVars
<1>1. TypeOK' /\ Targeted'
  BY DEF Tables, TypeOK, Targeted
<1>2. OneTable' /\ Attached' /\ Pending'
  BY DEF Tables, OneTable, Attached, Pending
<1>3. OutputSubscribed'
  BY DEF Tables, OutputSubscribed, HasUnsent
<1> QED BY <1>1, <1>2, <1>3 DEF Tables

\* The invariant about the descriptors and their tables.
THEOREM TablesInvariance == Spec => []Tables
<1>1. Tables /\ [Next]_vars => Tables'
  BY TypeStep, OneTableStep, AttachedStep, PendingStep, OutputStep, TablesStutter DEF Tables
<1> QED BY <1>1, TablesInit, PTL DEF Spec

\* Every variable of the event loop stays in its type.
THEOREM TypeCorrect == Spec => []TypeOK
<1>1. Tables => TypeOK
  BY DEF Tables
<1> QED BY <1>1, TablesInvariance, PTL

\* Reactor's handlers, the manager's connections and the open sockets never disagree,
\* whatever closes a connection and at whatever step of the loop.
THEOREM TablesAgree == Spec => []OneTable
<1>1. Tables => OneTable
  BY DEF Tables
<1> QED BY <1>1, TablesInvariance, PTL

\* No response is left in output_buffer without EPOLLOUT or a send() under way.
THEOREM OutputStaysSubscribed == Spec => []OutputSubscribed
<1>1. Tables => OutputSubscribed
  BY DEF Tables
<1> QED BY <1>1, TablesInvariance, PTL

\* While an event waits in events_, its descriptor is not closed or reused by the handler
\* of another one.
THEOREM EventsStayFresh == Spec => EventsNotStale
<1> DEFINE Fresh == \A fd \in Fds : events[fd] # {} /\ events'[fd] # {} /\ ~Handling(fd) =>
                       socket'[fd] = socket[fd]
<1>1. ASSUME Tables, Next PROVE Fresh
  <2>0. TypeOK /\ Targeted /\ OneTable /\ Attached /\ Pending
    BY <1>1 DEF Tables
  <2>1. CASE TablesKept \/ Listen \/ HandleFrame \/ SendAgain \/ SendDone
    BY <2>1 DEF TablesKept, Listen, HandleFrame, SendAgain, SendDone
  <2>2. CASE CloseStep
    <3>1. socket' = [socket EXCEPT ![connection_fd] = None] /\ pc \in {"recv", "process", "send"}
      BY <2>2 DEF CloseStep, RecvCloses, FrameInvalid, SendCloses, Close
    <3> QED BY <2>0, <3>1 DEF Handling, TypeOK
  <2>3. ASSUME NEW fd \in Fds, DispatchError(fd) PROVE Fresh
    <3>1. events'[fd] = {} /\ \A g \in Fds \ {fd} : socket'[g] = socket[g]
      BY <2>0, <2>3 DEF DispatchError, Close, TypeOK
    <3> QED BY <3>1
  <2>4. ASSUME NEW c \in Clients, Accept(c) PROVE Fresh
    <3>1. PICK fd \in LowestFd : socket' = [socket EXCEPT ![fd] = c]
      BY <2>4 DEF Accept
    <3>2. pc = "accept" /\ fd \in Fds /\ fd \notin connections /\ fd # listen_fd
      BY <2>0, <2>4 DEF Accept, LowestFd, FreeFds, OneTable
    <3>3. events[fd] = {}
      BY <2>0, <3>2 DEF Pending, Ended
    <3> QED BY <2>0, <3>1, <3>3 DEF TypeOK
  <2>5. CASE Destroy
    BY <2>0, <2>5 DEF Destroy, Pending
  <2> QED BY <1>1, <2>1, <2>2, <2>3, <2>4, <2>5, TableSteps
<1>2. Tables /\ [Next]_vars => [Fresh]_vars
  BY <1>1
<1>3. EventsNotStale <=> [][Fresh]_vars
  BY DEF EventsNotStale
<1> QED BY <1>2, <1>3, TablesInvariance, PTL DEF Spec

-----------------------------------------------------------------------------
(* The order of requests and responses *)

\* q is a piece of the endless stream F, from after position b on.
Along(F, b, q) == \A i \in 1..Len(q) : q[i] = F[b + i]

\* The same of q without its first k parts.
Rest(F, b, q, k) == \A i \in 1..(Len(q) - k) : q[k + i] = F[b + i]

\* The parts of a client's requests, which are also those of their responses, numbered
\* from 1; and what the client sends when it goes wrong after s parts.
Positions == Nat \ {0}
All(c) == [k \in Positions |-> Part(c, (k + 1) \div 2, IF k % 2 = 1 THEN "length" ELSE "body")]
Sent(c, s) == [k \in Positions |-> IF k <= s THEN All(c)[k] ELSE Part(c, s \div 2 + 1, "invalid")]
Bad(c, m) == IF c \in m THEN 1 ELSE 0

\* A piece of a stream that grows by the next part.
LEMMA AlongAppend ==
    ASSUME NEW S, NEW F, NEW b \in Nat, NEW q \in Seq(S), NEW x \in S,
           Along(F, b, q), x = F[b + Len(q) + 1]
    PROVE  Along(F, b, Append(q, x)) /\ Len(Append(q, x)) = Len(q) + 1
<1>1. Len(q) \in Nat /\ Len(Append(q, x)) = Len(q) + 1
  OBVIOUS
<1>2. ASSUME NEW i \in 1..(Len(q) + 1) PROVE Append(q, x)[i] = F[b + i]
  <2>1. CASE i = Len(q) + 1
    <3>1. b + i = b + Len(q) + 1 /\ Append(q, x)[i] = x
      BY <1>1, <2>1
    <3> QED BY <3>1
  <2>2. CASE i \in 1..Len(q)
    BY <2>2 DEF Along
  <2> QED BY <1>1, <1>2, <2>1, <2>2
<1> QED BY <1>1, <1>2 DEF Along

\* A piece of a stream without its first part.
LEMMA AlongTail ==
    ASSUME NEW S, NEW F, NEW b \in Nat, NEW q \in Seq(S), q # <<>>, Along(F, b, q)
    PROVE  /\ Head(q) = F[b + 1] /\ Along(F, b + 1, Tail(q)) /\ Len(Tail(q)) = Len(q) - 1
           /\ Len(q) \in Nat \ {0}
<1>1. Len(q) \in Nat \ {0} /\ Len(Tail(q)) = Len(q) - 1 /\ Head(q) = q[1]
      /\ \A i \in 1..(Len(q) - 1) : Tail(q)[i] = q[i + 1]
  OBVIOUS
<1>2. Head(q) = F[b + 1]
  BY <1>1 DEF Along
<1>3. ASSUME NEW i \in 1..(Len(q) - 1) PROVE Tail(q)[i] = F[(b + 1) + i]
  <2>1. i + 1 \in 1..Len(q) /\ b + (i + 1) = (b + 1) + i
    BY <1>1
  <2> QED BY <1>1, <2>1 DEF Along
<1> QED BY <1>1, <1>2, <1>3 DEF Along

\* Two pieces of a stream that follow each other.
LEMMA AlongConcat ==
    ASSUME NEW S, NEW F, NEW b \in Nat, NEW q \in Seq(S), NEW r \in Seq(S),
           Along(F, b, q), Along(F, b + Len(q), r)
    PROVE  Along(F, b, q \o r) /\ Len(q \o r) = Len(q) + Len(r)
<1>1. /\ Len(q) \in Nat /\ Len(r) \in Nat /\ Len(q \o r) = Len(q) + Len(r)
      /\ \A i \in 1..Len(q) : (q \o r)[i] = q[i]
      /\ \A i \in 1..Len(r) : (q \o r)[Len(q) + i] = r[i]
  OBVIOUS
<1>2. ASSUME NEW i \in 1..(Len(q) + Len(r)) PROVE (q \o r)[i] = F[b + i]
  <2>1. CASE i \in 1..Len(q)
    BY <1>1, <2>1 DEF Along
  <2>2. CASE i \notin 1..Len(q)
    <3>1. i - Len(q) \in 1..Len(r) /\ b + Len(q) + (i - Len(q)) = b + i /\ Len(q) + (i - Len(q)) = i
      BY <1>1, <2>2
    <3>2. (q \o r)[Len(q) + (i - Len(q))] = F[b + Len(q) + (i - Len(q))]
      BY <1>1, <3>1 DEF Along
    <3> QED BY <3>1, <3>2
  <2> QED BY <2>1, <2>2
<1> QED BY <1>1, <1>2 DEF Along

\* A piece of a stream without its first parts.
LEMMA AlongCut ==
    ASSUME NEW S, NEW F, NEW b \in Nat, NEW q \in Seq(S), NEW k \in Nat, k <= Len(q), Along(F, b, q)
    PROVE  /\ Along(F, b + k, SubSeq(q, k + 1, Len(q)))
           /\ Len(SubSeq(q, k + 1, Len(q))) = Len(q) - k
<1> DEFINE r == SubSeq(q, k + 1, Len(q))
<1>1. Len(q) \in Nat /\ Len(r) = Len(q) - k /\ \A i \in 1..(Len(q) - k) : r[i] = q[k + i]
  BY CutFront
<1> HIDE DEF r
<1>2. ASSUME NEW i \in 1..(Len(q) - k) PROVE r[i] = F[(b + k) + i]
  <2>1. k + i \in 1..Len(q) /\ b + (k + i) = (b + k) + i
    BY <1>1
  <2> QED BY <1>1, <2>1 DEF Along
<1>3. Along(F, b + k, r)
  BY <1>1, <1>2 DEF Along
<1> QED BY <1>1, <1>3 DEF r

\* What was sent before the next part is sent stays what it was.
LEMMA AlongLonger ==
    ASSUME NEW c, NEW s \in Nat, NEW b \in Nat, NEW q, Len(q) \in Nat, b + Len(q) <= s,
           Along(Sent(c, s), b, q)
    PROVE  Along(Sent(c, s + 1), b, q)
<1> SUFFICES ASSUME NEW i \in 1..Len(q) PROVE q[i] = Sent(c, s + 1)[b + i]
  BY DEF Along
<1>1. b + i \in Positions /\ b + i <= s /\ b + i <= s + 1
  BY DEF Positions
<1> QED BY <1>1 DEF Along, Sent

\* Frame n + 1 in the streams.
LEMMA NextFrame ==
    ASSUME NEW c, NEW n \in Nat
    PROVE  /\ All(c)[2 * n + 1] = Part(c, n + 1, "length") /\ All(c)[2 * n + 2] = Part(c, n + 1, "body")
           /\ 2 * n + 1 \in Positions /\ 2 * n + 2 \in Positions
<1>1. 2 * n + 1 \in Positions /\ 2 * n + 2 \in Positions
  BY DEF Positions
<1>2. (2 * n + 1 + 1) \div 2 = n + 1 /\ (2 * n + 1) % 2 = 1
  OBVIOUS
<1>3. (2 * n + 2 + 1) \div 2 = n + 1 /\ (2 * n + 2) % 2 = 0
  OBVIOUS
<1> QED BY <1>1, <1>2, <1>3 DEF All

\* What is known of a client: the requests executed, and the responses on their way.
Order(c) ==
    LET n == Len(handled[c])  r == Len(received[c])  d == Len(down[c]) IN
    /\ \A i \in 1..n : handled[c][i] = i
    /\ 2 * n <= sent[c]
    /\ c \in malformed => sent[c] % 2 = 0
    /\ Along(All(c), 0, received[c]) /\ Along(All(c), r, down[c])
    /\ r + d <= 2 * n
    /\ status[c] = "none" => c \notin backlog /\ c \notin malformed /\ sent[c] = 0 /\ up[c] = <<>>
    /\ c \in backlog \/ status[c] = "none" =>
         /\ n = 0 /\ r = 0 /\ d = 0
         /\ Along(Sent(c, sent[c]), 0, up[c]) /\ Len(up[c]) = sent[c] + Bad(c, malformed)

\* What is known of a connection: its input buffer and what is on its way to it are what
\* the client has sent after the requests executed, its output buffer what is missing of
\* the responses.
Link(fd) ==
    LET c == socket[fd]  n == Len(handled[c])  k == Len(input_buffer[fd]) IN
    /\ c \notin backlog /\ status[c] # "none"
    /\ \A g \in connections : socket[g] = c => g = fd
    /\ Along(Sent(c, sent[c]), 2 * n, input_buffer[fd])
    /\ Along(Sent(c, sent[c]), 2 * n + k, up[c])
    /\ 2 * n + k + Len(up[c]) = sent[c] + Bad(c, malformed)
    /\ bytes_sent[fd] <= Len(output_buffer[fd])
    /\ status[c] = "open" =>
         /\ Rest(All(c), Len(received[c]) + Len(down[c]), output_buffer[fd], bytes_sent[fd])
         /\ Len(received[c]) + Len(down[c]) + (Len(output_buffer[fd]) - bytes_sent[fd]) = 2 * n

\* The frames in a buffer that ProcessInput reads after its connection was closed are the
\* next of a client that has no connection any more.
Dangling(c) ==
    LET n == Len(handled[c])  in == input_buffer[connection_fd] IN
    /\ ~Connected(c) /\ status[c] # "none"
    /\ Along(Sent(c, sent[c]), 2 * n, in)
    /\ 2 * n + Len(in) <= sent[c] + Bad(c, malformed)

Ordered ==
    /\ \A c \in Clients : Order(c)
    /\ \A fd \in connections : Link(fd)
    /\ pc = "process" /\ connection_fd \notin connections => \E c \in Clients : Dangling(c)

\* What a client's record depends on, and a connection's.
LEMMA OrderKept ==
    ASSUME NEW c, Order(c),
           handled'[c] = handled[c], received'[c] = received[c], down'[c] = down[c],
           sent'[c] = sent[c], up'[c] = up[c], status'[c] = status[c],
           c \in malformed' <=> c \in malformed, c \in backlog' <=> c \in backlog
    PROVE  Order(c)'
BY DEF Order, Bad

\* A step that leaves a connection and its client alone keeps their link.
LEMMA LinkKept ==
    ASSUME NEW fd, Link(fd), socket'[fd] = socket[fd],
           handled'[socket[fd]] = handled[socket[fd]], received'[socket[fd]] = received[socket[fd]],
           down'[socket[fd]] = down[socket[fd]], sent'[socket[fd]] = sent[socket[fd]],
           up'[socket[fd]] = up[socket[fd]], status'[socket[fd]] = status[socket[fd]],
           socket[fd] \in malformed' <=> socket[fd] \in malformed,
           socket[fd] \in backlog' <=> socket[fd] \in backlog,
           input_buffer'[fd] = input_buffer[fd], output_buffer'[fd] = output_buffer[fd],
           bytes_sent'[fd] = bytes_sent[fd],
           \A g \in connections' : socket'[g] = socket[fd] => g = fd
    PROVE  Link(fd)'
BY DEF Link, Bad

\* The same of a buffer that was freed while it is read.
LEMMA DanglingKept ==
    ASSUME NEW c, Dangling(c), connection_fd' = connection_fd,
           handled'[c] = handled[c], sent'[c] = sent[c], status'[c] # "none",
           c \in malformed' <=> c \in malformed,
           input_buffer'[connection_fd] = input_buffer[connection_fd],
           ~Connected(c)'
    PROVE  Dangling(c)'
BY DEF Dangling, Bad

\* ProcessInput gets to a closed connection when a nested Send has closed it.
LEMMA DanglingFrom ==
    ASSUME Tables, Next, pc' = "process", connection_fd' \notin connections'
    PROVE  \/ SendCloses
           \/ pc = "process" /\ connection_fd' = connection_fd /\ connections' = connections
                             /\ connection_fd \notin connections
<1>0. TypeOK /\ Attached
  BY DEF Tables
<1>1. CASE Run \/ Stop \/ Destroy \/ EpollWaitFails \/ Over
  BY <1>1 DEF Run, Listen, ListenFails, LoopStart, Stop, Destroy, EpollWaitFails, Over,
              Goto, vars, serverVars, controlVars, managerVars
<1>2. CASE Loop
  <2>1. CASE EpollWait \/ LoopExit \/ DispatchDone \/ CallWritable \/ CallFreedHandler
    BY <2>1 DEF EpollWait, LoopExit, DispatchDone, CallWritable, CallFreedHandler, Goto
  <2>2. ASSUME NEW fd \in Fds, Dispatch(fd) \/ DispatchError(fd) PROVE FALSE
    BY <2>2 DEF Dispatch, DispatchError, Goto
  <2> QED BY <1>2, <2>1, <2>2 DEF Loop
<1>3. CASE AcceptLoop \/ HandleReadable
  <2>1. CASE AcceptLoop
    <3>1. pc = "accept" /\ (pc' = pc \/ pc' = "writable")
      BY <2>1 DEF AcceptLoop, Accept, AcceptRejects, AcceptDone, Goto, serverVars
    <3> QED BY <3>1
  <2>2. CASE HandleReadable
    <3>1. pc = "recv" /\ (pc' = pc \/ pc' = "writable" \/ RecvAgain)
      BY <2>2 DEF HandleReadable, RecvData, RecvCloses, RecvAgain, Goto
    <3>2. RecvAgain => connection_fd' = connection_fd /\ connections' = connections
      BY DEF RecvAgain, controlVars, managerVars
    <3> QED BY <1>0, <3>1, <3>2 DEF Attached
  <2> QED BY <1>3, <2>1, <2>2
<1>4. CASE ProcessInput \/ HandleWritable
  BY <1>0, <1>4 DEF ProcessInput, HandleFrame, FrameInvalid, FrameIncomplete, ReadFreedInput,
         HandleWritable, SendPart, SendAgain, SendBrokenPipe, SendDone, Goto,
         Attached, controlVars, managerVars
<1>5. CASE \E c \in Clients : ClientStep(c)
  BY <1>5 DEF ClientStep, Connect, ClientSend, ClientRead, ClientCloses,
         serverVars, controlVars, managerVars
<1> QED BY <1>1, <1>2, <1>3, <1>4, <1>5 DEF Next, ServerStep

\* The steps that at most close connections.
LEMMA ShrinkStep ==
    ASSUME Tables, Ordered, Next, UNCHANGED <<bufferVars, handled, netVars, clientVars>>,
           connections' \subseteq connections,
           \A fd \in connections' : socket'[fd] = socket[fd]
    PROVE  Ordered'
<1>0. /\ TypeOK /\ OneTable /\ Attached /\ connections \subseteq Fds
      /\ input_buffer' = input_buffer /\ output_buffer' = output_buffer /\ bytes_sent' = bytes_sent
      /\ handled' = handled /\ backlog' = backlog /\ status' = status /\ up' = up /\ down' = down
      /\ sent' = sent /\ malformed' = malformed /\ received' = received
  BY DEF Tables, TypeOK, bufferVars, netVars, clientVars
<1>1. \A c \in Clients : Order(c)'
  BY <1>0, OrderKept DEF Ordered
<1>2. ASSUME NEW fd \in connections' PROVE Link(fd)'
  <2>1. Link(fd) /\ socket'[fd] = socket[fd]
    BY DEF Ordered
  <2>2. \A g \in connections' : socket'[g] = socket[fd] => g = fd
    BY <2>1 DEF Link
  <2> QED BY <1>0, <2>1, <2>2, LinkKept
<1>3. ASSUME pc' = "process", connection_fd' \notin connections' PROVE \E c \in Clients : Dangling(c)'
  <2>0. \A c \in Clients : Connected(c)' => Connected(c)
    BY <1>0 DEF Connected
  <2>1. CASE pc = "process" /\ connection_fd' = connection_fd /\ connection_fd \notin connections
    <3>1. PICK c \in Clients : Dangling(c)
      BY <2>1 DEF Ordered
    <3>2. ~Connected(c)' /\ status'[c] # "none"
      BY <1>0, <2>0, <3>1 DEF Dangling
    <3> QED BY <1>0, <2>1, <3>1, <3>2, DanglingKept
  <2>2. CASE SendCloses
    <3>0. connection_fd \in connections /\ socket[connection_fd] \in Clients
          /\ connection_fd' = connection_fd /\ connections' = connections \ {connection_fd}
      BY <1>0, <2>2 DEF SendCloses, Attached, OneTable, TypeOK, Close, controlVars
    <3>1. PICK fd \in connections, c \in Clients : fd = connection_fd /\ c = socket[fd] /\ Link(fd)
      BY <3>0 DEF Ordered
    <3>2. ~Connected(c)' /\ status'[c] # "none"
      BY <1>0, <3>0, <3>1 DEF Link, Connected
    <3>3. /\ Along(Sent(c, sent[c]), 2 * Len(handled[c]), input_buffer[fd])
          /\ 2 * Len(handled[c]) + Len(input_buffer[fd]) + Len(up[c]) = sent[c] + Bad(c, malformed)
      BY <3>1 DEF Link
    <3>4. Len(up[c]) \in Nat /\ Len(handled[c]) \in Nat /\ Len(input_buffer[fd]) \in Nat
          /\ sent[c] \in Nat /\ Bad(c, malformed) \in Nat
      BY <1>0, <3>1 DEF TypeOK, Bad
    <3>5. 2 * Len(handled[c]) + Len(input_buffer[fd]) <= sent[c] + Bad(c, malformed)
      <4>1. \A a, b, u \in Nat : 2 * a + b <= 2 * a + b + u
        OBVIOUS
      <4>2. 2 * Len(handled[c]) + Len(input_buffer[fd])
              <= 2 * Len(handled[c]) + Len(input_buffer[fd]) + Len(up[c])
        BY <3>4, <4>1
      <4> QED BY <3>3, <4>2
    <3> QED BY <1>0, <3>0, <3>1, <3>2, <3>3, <3>5 DEF Dangling
  <2> QED BY <1>3, <2>1, <2>2, DanglingFrom
<1> QED BY <1>1, <1>2, <1>3 DEF Ordered

\* A connection that is accepted takes over what its client has sent meanwhile.
LEMMA AcceptStep ==
    ASSUME Tables, Ordered, NEW c \in Clients, Accept(c) \/ AcceptRejects(c)
    PROVE  Ordered'
<1>0. TypeOK /\ OneTable /\ connections \subseteq Fds
  BY DEF Tables, TypeOK
<1>1. /\ handled' = handled /\ status' = status /\ up' = up /\ down' = down /\ sent' = sent
      /\ malformed' = malformed /\ received' = received /\ backlog' = backlog \ {c}
      /\ c \in backlog /\ pc = "accept" /\ pc' = pc
  BY DEF Accept, AcceptRejects, serverVars, clientVars
<1>2. ASSUME NEW x \in Clients PROVE Order(x)'
  <2>1. CASE x = c
    BY <1>1, <2>1 DEF Ordered, Order, Bad
  <2>2. CASE x # c
    BY <1>1, <2>2, OrderKept DEF Ordered
  <2> QED BY <2>1, <2>2
<1>3. CASE AcceptRejects(c)
  <2>1. /\ connections' = connections /\ socket' = socket /\ input_buffer' = input_buffer
        /\ output_buffer' = output_buffer /\ bytes_sent' = bytes_sent
    BY <1>3 DEF AcceptRejects, serverVars, managerVars, bufferVars
  <2>2. ASSUME NEW fd \in connections PROVE Link(fd)'
    <3>1. Link(fd)
      BY DEF Ordered
    <3> QED BY <1>1, <2>1, <3>1 DEF Link, Bad
  <2> QED BY <1>1, <1>2, <2>1, <2>2 DEF Ordered
<1>4. CASE Accept(c)
  <2>1. PICK fd \in LowestFd :
          /\ socket' = [socket EXCEPT ![fd] = c]
          /\ connections' = connections \cup {fd}
          /\ input_buffer' = [input_buffer EXCEPT ![fd] = <<>>]
          /\ output_buffer' = [output_buffer EXCEPT ![fd] = <<>>]
          /\ bytes_sent' = [bytes_sent EXCEPT ![fd] = 0]
    BY <1>4 DEF Accept
  <2>2. fd \in Fds /\ fd \notin connections
    BY <1>0 DEF LowestFd, FreeFds, OneTable
  <2>3. /\ socket'[fd] = c /\ input_buffer'[fd] = <<>> /\ output_buffer'[fd] = <<>> /\ bytes_sent'[fd] = 0
        /\ \A g \in connections : /\ socket'[g] = socket[g] /\ input_buffer'[g] = input_buffer[g]
                                  /\ output_buffer'[g] = output_buffer[g] /\ bytes_sent'[g] = bytes_sent[g]
    BY <1>0, <2>1, <2>2 DEF TypeOK
  <2>4. \A g \in connections : socket[g] # c
    BY <1>1 DEF Ordered, Link
  <2>5. ASSUME NEW g \in connections PROVE Link(g)'
    <3>1. Link(g) /\ socket[g] # c
      BY <2>4 DEF Ordered
    <3>2. \A h \in connections : socket[h] = socket[g] => h = g
      BY <3>1 DEF Link
    <3>3. \A h \in connections' : socket'[h] = socket[g] => h = g
      BY <2>1, <2>3, <3>1, <3>2
    <3> QED BY <1>1, <2>3, <3>1, <3>3, LinkKept
  <2>6. Link(fd)'
    <3>1. /\ status[c] # "none" /\ Len(handled[c]) = 0 /\ Len(received[c]) = 0 /\ Len(down[c]) = 0
          /\ Along(Sent(c, sent[c]), 0, up[c]) /\ Len(up[c]) = sent[c] + Bad(c, malformed)
      BY <1>1 DEF Ordered, Order
    <3>2. /\ Len(<<>>) = 0 /\ Along(Sent(c, sent[c]), 0, <<>>) /\ Rest(All(c), 0, <<>>, 0)
          /\ 2 * 0 = 0 /\ 2 * 0 + 0 = 0 /\ 0 + 0 = 0 /\ 0 + 0 + (0 - 0) = 2 * 0
          /\ 0 <= 0
      BY DEF Along, Rest
    <3>3. 2 * 0 + 0 + Len(up[c]) = sent[c] + Bad(c, malformed)
      BY <1>0, <3>1 DEF TypeOK, Bad
    <3>4. \A g \in connections' : socket'[g] = c => g = fd
      BY <2>1, <2>3, <2>4
    <3> QED BY <1>1, <2>3, <3>1, <3>2, <3>3, <3>4 DEF Link
  <2> QED BY <1>1, <1>2, <2>1, <2>5, <2>6 DEF Ordered
<1> QED BY <1>3, <1>4

\* Everything that has arrived goes to the input buffer.
LEMMA RecvDataStep ==
    ASSUME Tables, Ordered, RecvData
    PROVE  Ordered'
<1>0. TypeOK /\ OneTable /\ Attached /\ connections \subseteq Fds
  BY DEF Tables, TypeOK
<1>1. connection_fd \in connections /\ Peer \in Clients
  BY <1>0 DEF RecvData, Attached, OneTable, TypeOK, Peer
<1>2. PICK fd \in connections, c \in Clients : fd = connection_fd /\ c = socket[fd] /\ Link(fd)
  BY <1>1 DEF Ordered, Peer
<1>3. /\ handled' = handled /\ status' = status /\ down' = down /\ sent' = sent /\ socket' = socket
      /\ malformed' = malformed /\ received' = received /\ backlog' = backlog
      /\ connections' = connections /\ output_buffer' = output_buffer /\ bytes_sent' = bytes_sent
      /\ input_buffer' = [input_buffer EXCEPT ![fd] = @ \o up[c]] /\ up' = [up EXCEPT ![c] = <<>>]
      /\ pc' = "recv"
  BY <1>2 DEF RecvData, Peer, clientVars
<1>4. /\ input_buffer'[fd] = input_buffer[fd] \o up[c] /\ up'[c] = <<>>
      /\ \A g \in Fds \ {fd} : input_buffer'[g] = input_buffer[g]
      /\ \A x \in Clients \ {c} : up'[x] = up[x]
  BY <1>0, <1>3 DEF TypeOK
<1>5. ASSUME NEW x \in Clients PROVE Order(x)'
  <2>1. CASE x = c
    <3>1. c \notin backlog /\ status[c] # "none" /\ Order(c)
      BY <1>2 DEF Link, Ordered
    <3> QED BY <1>3, <2>1, <3>1 DEF Order, Bad
  <2>2. CASE x # c
    BY <1>3, <1>4, <2>2, OrderKept DEF Ordered
  <2> QED BY <2>1, <2>2
<1>6. ASSUME NEW g \in connections PROVE Link(g)'
  <2>0. Link(g) /\ (socket[g] = c => g = fd) /\ socket[g] \in Clients
    BY <1>0, <1>2 DEF Ordered, Link, OneTable, TypeOK
  <2>1. CASE g # fd
    <3>1. \A h \in connections' : socket'[h] = socket[g] => h = g
      BY <1>3, <2>0 DEF Link
    <3> QED BY <1>0, <1>3, <1>4, <2>0, <2>1, <3>1, LinkKept
  <2>2. CASE g = fd
    <3> DEFINE n == Len(handled[c])  in == input_buffer[fd]  u == up[c]  F == Sent(c, sent[c])
    <3>1. /\ n \in Nat /\ in \in Seq(Parts) /\ u \in Seq(Parts) /\ 2 * n \in Nat
          /\ Len(in) \in Nat /\ Len(u) \in Nat
      BY <1>0 DEF TypeOK
    <3>2. /\ Along(F, 2 * n, in) /\ Along(F, 2 * n + Len(in), u)
          /\ 2 * n + Len(in) + Len(u) = sent[c] + Bad(c, malformed)
      BY <1>2 DEF Link
    <3> HIDE DEF n, in, u, F
    <3>3. Along(F, 2 * n, in \o u) /\ Len(in \o u) = Len(in) + Len(u)
      BY <3>1, <3>2, AlongConcat
    <3>4. 2 * n + Len(in \o u) + 0 = sent[c] + Bad(c, malformed)
      BY <3>1, <3>2, <3>3
    <3>5. Along(F, 2 * n + Len(in \o u), <<>>) /\ Len(<<>>) = 0
      BY DEF Along
    <3> QED BY <1>2, <1>3, <1>4, <2>2, <3>3, <3>4, <3>5 DEF Link, n, in, u, F
  <2> QED BY <2>1, <2>2
<1> QED BY <1>3, <1>5, <1>6 DEF Ordered

\* output_buffer has been sent.
LEMMA SendDoneStep ==
    ASSUME Tables, Ordered, SendDone
    PROVE  Ordered'
<1>0. TypeOK /\ OneTable /\ Attached /\ connections \subseteq Fds
  BY DEF Tables, TypeOK
<1>1. connection_fd \in connections
  BY <1>0 DEF SendDone, Attached
<1>2. PICK fd \in connections : fd = connection_fd /\ Link(fd)
  BY <1>1 DEF Ordered
<1>3. /\ handled' = handled /\ status' = status /\ down' = down /\ sent' = sent /\ socket' = socket
      /\ malformed' = malformed /\ received' = received /\ backlog' = backlog /\ up' = up
      /\ connections' = connections /\ input_buffer' = input_buffer
      /\ output_buffer' = [output_buffer EXCEPT ![fd] = <<>>]
      /\ bytes_sent' = [bytes_sent EXCEPT ![fd] = 0] /\ connection_fd' = fd
      /\ ~(bytes_sent[fd] < Len(output_buffer[fd]))
  BY <1>2 DEF SendDone, HasUnsent, netVars, clientVars, controlVars
<1>4. /\ output_buffer'[fd] = <<>> /\ bytes_sent'[fd] = 0
      /\ \A g \in Fds \ {fd} : output_buffer'[g] = output_buffer[g] /\ bytes_sent'[g] = bytes_sent[g]
  BY <1>0, <1>3 DEF TypeOK
<1>5. \A x \in Clients : Order(x)'
  BY <1>3, OrderKept DEF Ordered
<1>6. ASSUME NEW g \in connections PROVE Link(g)'
  <2>0. Link(g) /\ \A h \in connections' : socket'[h] = socket[g] => h = g
    BY <1>3 DEF Ordered, Link
  <2>1. CASE g # fd
    BY <1>0, <1>3, <1>4, <2>0, <2>1, LinkKept
  <2>2. CASE g = fd
    <3>1. PICK c : c = socket[fd]
      OBVIOUS
    <3>2. bytes_sent[fd] \in Nat /\ Len(output_buffer[fd]) \in Nat
      <4>1. fd \in Fds /\ bytes_sent \in [Fds -> Nat] /\ output_buffer \in [Fds -> Seq(Parts)]
        BY <1>0, <1>2 DEF TypeOK
      <4> QED BY <4>1
    <3>3. Len(output_buffer[fd]) - bytes_sent[fd] = 0 - 0
      BY <1>2, <1>3, <3>2 DEF Link
    <3>4. Len(<<>>) = 0 /\ (\A F, b : Rest(F, b, <<>>, 0)) /\ 0 <= 0
      BY DEF Rest
    <3> QED BY <1>2, <1>3, <1>4, <2>2, <3>1, <3>3, <3>4 DEF Link
  <2> QED BY <2>1, <2>2
<1> QED BY <1>0, <1>1, <1>2, <1>3, <1>5, <1>6 DEF Ordered

\* What ProcessInput cuts off the front of the buffer is the next request, whole.
LEMMA FrontFrame ==
    ASSUME NEW c \in Clients, NEW s \in Nat, NEW m \in Nat, NEW id \in Nat, m + 2 = 2 * id,
           NEW bad \in Nat, bad = 0 \/ (bad = 1 /\ s % 2 = 0), NEW in \in Seq(Parts), Len(in) >= 2,
           Along(Sent(c, s), m, in), m + Len(in) <= s + bad, in[1].part # "invalid"
    PROVE  in[2] = Part(c, id, "body") /\ m + 2 <= s
<1>1. PICK l \in Nat, n \in Nat : l = Len(in) /\ m = 2 * n /\ id = n + 1
  <2>1. id - 1 \in Nat /\ m = 2 * (id - 1) /\ id = (id - 1) + 1 /\ Len(in) \in Nat
    OBVIOUS
  <2> QED BY <2>1
<1>2. 1 \in 1..Len(in) /\ 2 \in 1..Len(in) /\ l >= 2 /\ m + l <= s + bad
  BY <1>1
<1>3. in[1] = Sent(c, s)[m + 1] /\ in[2] = Sent(c, s)[m + 2]
  BY <1>1, <1>2 DEF Along
<1>4. m + 1 \in Positions /\ m + 2 \in Positions
  BY DEF Positions
<1>5. m + 1 <= s
  <2>1. ASSUME ~(m + 1 <= s) PROVE FALSE
    <3>1. in[1] = Part(c, s \div 2 + 1, "invalid")
      BY <1>3, <1>4, <2>1 DEF Sent
    <3>2. in[1].part = "invalid"
      BY <3>1 DEF Part
    <3> QED BY <3>2
  <2> QED BY <2>1
<1>6. m + 2 <= s
  <2>1. ASSUME ~(m + 2 <= s) PROVE FALSE
    <3>1. s = m + 1 /\ bad = 1
      BY <1>2, <1>5, <2>1
    <3>2. (2 * n + 1) % 2 = 1
      OBVIOUS
    <3> QED BY <1>1, <3>1, <3>2
  <2> QED BY <2>1
<1>7. in[2] = All(c)[m + 2]
  BY <1>3, <1>4, <1>6 DEF Sent
<1> QED BY <1>1, <1>6, <1>7, NextFrame

\* What is left of the buffer comes after that request.
LEMMA CutFrame ==
    ASSUME NEW F, NEW m \in Nat, NEW in \in Seq(Parts), Len(in) >= 2, Along(F, m, in)
    PROVE  /\ Along(F, m + 2, SubSeq(in, 2 + 1, Len(in)))
           /\ m + 2 + Len(SubSeq(in, 2 + 1, Len(in))) = m + Len(in)
<1>1. 2 \in Nat /\ 2 <= Len(in)
  OBVIOUS
<1>2. Along(F, m + 2, SubSeq(in, 2 + 1, Len(in))) /\ Len(SubSeq(in, 2 + 1, Len(in))) = Len(in) - 2
  BY <1>1, AlongCut, Zenon
<1>3. PICK l \in Nat : l = Len(in)
  OBVIOUS
<1>4. m + 2 + (l - 2) = m + l
  OBVIOUS
<1> QED BY <1>2, <1>3, <1>4

\* The next response continues the responses queued.
LEMMA QueueFrame ==
    ASSUME NEW c \in Clients, NEW m \in Nat, NEW id \in Nat, m + 2 = 2 * id, NEW b \in Nat,
           NEW out \in Seq(Parts), NEW k \in Nat, k <= Len(out),
           Rest(All(c), b, out, k), b + (Len(out) - k) = m
    PROVE  /\ Rest(All(c), b, out \o Frame(c, id), k)
           /\ b + (Len(out \o Frame(c, id)) - k) = m + 2
           /\ k <= Len(out \o Frame(c, id))
<1> DEFINE f == Frame(c, id)  o == out \o f
<1>1. PICK l \in Nat, n \in Nat : l = Len(out) /\ m = 2 * n /\ id = n + 1
  <2>1. id - 1 \in Nat /\ m = 2 * (id - 1) /\ id = (id - 1) + 1 /\ Len(out) \in Nat
    OBVIOUS
  <2> QED BY <2>1
<1>2. f \in Seq(Parts) /\ Len(f) = 2 /\ f[1] = All(c)[m + 1] /\ f[2] = All(c)[m + 2]
  BY <1>1, FrameType, NextFrame
<1> HIDE DEF f
<1>9. \A q, r \in Seq(Parts) :
        /\ Len(q \o r) = Len(q) + Len(r) /\ \A i \in 1..Len(q) : (q \o r)[i] = q[i]
        /\ \A i \in 1..Len(r) : (q \o r)[Len(q) + i] = r[i]
  OBVIOUS
<1>3. /\ Len(o) = l + 2 /\ o[l + 1] = f[1] /\ o[l + 2] = f[2]
      /\ \A i \in 1..l : o[i] = out[i]
  <2>1. Len(o) = Len(out) + Len(f) /\ \A i \in 1..Len(out) : o[i] = out[i]
    BY <1>2, <1>9, Zenon
  <2>2. \A i \in 1..Len(f) : o[Len(out) + i] = f[i]
    BY <1>2, <1>9, Zenon
  <2>3. 1 \in 1..Len(f) /\ 2 \in 1..Len(f)
    BY <1>2
  <2> HIDE DEF o
  <2> QED BY <1>1, <1>2, <2>1, <2>2, <2>3
<1> HIDE DEF o
<1>4. b + (l - k) = m /\ k <= l
  BY <1>1
<1>5. ASSUME NEW i \in 1..(l + 2 - k) PROVE o[k + i] = All(c)[b + i]
  <2>1. CASE i \in 1..(l - k)
    <3>1. k + i \in 1..l
      BY <1>4, <2>1
    <3>2. out[k + i] = All(c)[b + i]
      BY <1>1, <2>1 DEF Rest
    <3> QED BY <1>3, <3>1, <3>2
  <2>2. CASE i = l - k + 1
    <3>1. k + i = l + 1 /\ b + i = m + 1
      BY <1>4, <2>2
    <3> QED BY <1>2, <1>3, <3>1
  <2>3. CASE i = l - k + 2
    <3>1. k + i = l + 2 /\ b + i = m + 2
      BY <1>4, <2>3
    <3> QED BY <1>2, <1>3, <3>1
  <2> QED BY <1>4, <2>1, <2>2, <2>3
<1>6. Rest(All(c), b, o, k)
  <2>1. \A i \in 1..(Len(o) - k) : o[k + i] = All(c)[b + i]
    BY <1>3, <1>5
  <2> QED BY <2>1 DEF Rest
<1>7. b + (Len(o) - k) = m + 2 /\ k <= Len(o)
  BY <1>3, <1>4
<1> QED BY <1>6, <1>7 DEF o, f

\* A request is executed and its response queued, or dropped with its connection.
LEMMA HandleFrameStep ==
    ASSUME Tables, Ordered, HandleFrame
    PROVE  Ordered'
<1>0. TypeOK /\ OneTable /\ Attached /\ Targeted /\ connections \subseteq Fds
  BY DEF Tables, TypeOK
<1>1. PICK fd \in Fds, c \in Clients :
        /\ fd = connection_fd
        /\ fd \in connections => c = socket[fd] /\ Link(fd)
        /\ fd \notin connections => Dangling(c)
  <2>1. connection_fd \in Fds /\ pc = "process"
    BY <1>0 DEF HandleFrame, Targeted, InHandler
  <2>2. CASE connection_fd \in connections
    BY <1>0, <2>1, <2>2 DEF Ordered, OneTable, TypeOK
  <2>3. CASE connection_fd \notin connections
    BY <1>0, <2>1, <2>3 DEF Ordered
  <2> QED BY <2>2, <2>3
<1>2. PICK id \in Nat, m \in Nat : id = Len(handled[c]) + 1 /\ m = 2 * Len(handled[c]) /\ m + 2 = 2 * id
  <2>1. Len(handled[c]) \in Nat
    BY <1>0 DEF TypeOK
  <2>2. \A n \in Nat : n + 1 \in Nat /\ 2 * n \in Nat /\ 2 * n + 2 = 2 * (n + 1)
    OBVIOUS
  <2> QED BY <2>1, <2>2
<1>3. PICK in \in Seq(Parts), out \in Seq(Parts) : in = input_buffer[fd] /\ out = output_buffer[fd]
  BY <1>0 DEF TypeOK
<1>4. PICK s \in Nat, k \in Nat, b \in Nat, rd \in Nat :
        /\ s = sent[c] /\ k = bytes_sent[fd] /\ rd = Len(received[c]) + Len(down[c])
        /\ b = Bad(c, malformed) /\ (b = 0 \/ (b = 1 /\ c \in malformed))
  <2>1. sent[c] \in Nat /\ bytes_sent[fd] \in Nat /\ Len(received[c]) \in Nat /\ Len(down[c]) \in Nat
    BY <1>0 DEF TypeOK
  <2>2. \A x, y \in Nat : x + y \in Nat
    OBVIOUS
  <2>3. /\ Bad(c, malformed) \in Nat
        /\ Bad(c, malformed) = 0 \/ (Bad(c, malformed) = 1 /\ c \in malformed)
    BY DEF Bad
  <2> QED BY <2>1, <2>2, <2>3
<1>5. Order(c) /\ (b = 0 \/ (b = 1 /\ s % 2 = 0))
  BY <1>4 DEF Ordered, Order
<1>6. /\ c \notin backlog /\ status[c] # "none" /\ Along(Sent(c, s), m, in)
      /\ m + Len(in) <= s + b
      /\ \A g \in connections : socket[g] = c => g = fd
  <2>1. CASE fd \in connections
    <3>1. PICK l \in Nat, u \in Nat : l = Len(in) /\ u = Len(up[c])
      BY <1>0 DEF TypeOK
    <3>2. /\ c \notin backlog /\ status[c] # "none" /\ Along(Sent(c, s), m, in)
          /\ m + l + u = s + b /\ \A g \in connections : socket[g] = c => g = fd
      BY <1>1, <1>2, <1>3, <1>4, <2>1, <3>1 DEF Link
    <3>3. m + l <= s + b
      BY <3>2
    <3> QED BY <3>1, <3>2, <3>3
  <2>2. CASE fd \notin connections
    BY <1>1, <1>2, <1>3, <1>4, <2>2 DEF Dangling, Connected
  <2> QED BY <2>1, <2>2
<1>7. Len(in) >= 2 /\ in[1].part # "invalid"
  <2>1. Len(in) >= 2 /\ ~(in # <<>> /\ in[1].part = "invalid")
    BY <1>1, <1>3 DEF HandleFrame, InvalidLength, InputOf, FrameParts
  <2>2. in # <<>>
    BY <2>1
  <2> QED BY <2>1, <2>2
<1>8. in[2] = Part(c, id, "body") /\ m + 2 <= s
  <2>1. m + 2 = 2 * id
    BY <1>2
  <2>2. Along(Sent(c, s), m, in) /\ m + Len(in) <= s + b
    BY <1>6
  <2>3. b = 0 \/ (b = 1 /\ s % 2 = 0)
    BY <1>5
  <2> QED BY <1>7, <2>1, <2>2, <2>3, FrontFrame
<1>9. in[2].client = c /\ in[2].id = id
  BY <1>8 DEF Part
<1>10. /\ status' = status /\ down' = down /\ sent' = sent /\ socket' = socket /\ up' = up
       /\ malformed' = malformed /\ received' = received /\ backlog' = backlog
       /\ connections' = connections /\ bytes_sent' = bytes_sent /\ connection_fd' = fd
       /\ input_buffer' = [input_buffer EXCEPT ![fd] = SubSeq(in, 2 + 1, Len(in))]
       /\ handled' = [handled EXCEPT ![c] = Append(@, id)]
       /\ IF fd \in connections
          THEN output_buffer' = [output_buffer EXCEPT ![fd] = out \o Frame(c, id)] /\ pc' = "send"
          ELSE output_buffer' = output_buffer /\ pc' = pc /\ pc = "process"
  BY <1>1, <1>3, <1>9 DEF HandleFrame, InputOf, FrameParts, Goto, netVars, clientVars
<1>11. /\ handled'[c] = Append(handled[c], id) /\ Len(handled'[c]) = id
       /\ input_buffer'[fd] = SubSeq(in, 2 + 1, Len(in))
       /\ \A x \in Clients \ {c} : handled'[x] = handled[x]
       /\ \A g \in Fds \ {fd} : input_buffer'[g] = input_buffer[g] /\ output_buffer'[g] = output_buffer[g]
  BY <1>0, <1>2, <1>10 DEF TypeOK
<1>12. Along(Sent(c, s), 2 * id, input_buffer'[fd]) /\ 2 * id + Len(input_buffer'[fd]) = m + Len(in)
  BY <1>2, <1>6, <1>7, <1>11, CutFrame
<1>13. ASSUME NEW x \in Clients PROVE Order(x)'
  <2>1. CASE x = c
    <3>1. \A i \in 1..id : handled'[c][i] = i
      <4>1. \A i \in 1..Len(handled[c]) : handled[c][i] = i
        BY <1>5 DEF Order
      <4>2. handled[c] \in Seq(Nat)
        BY <1>0 DEF TypeOK
      <4> QED BY <1>2, <1>11, <4>1, <4>2
    <3>2. 2 * id <= s
      BY <1>2, <1>8
    <3>3. rd <= 2 * id
      <4>1. rd <= m
        BY <1>2, <1>4, <1>5 DEF Order
      <4> QED BY <1>2, <4>1
    <3>4. /\ c \in malformed => sent[c] % 2 = 0
          /\ Along(All(c), 0, received[c]) /\ Along(All(c), Len(received[c]), down[c])
      BY <1>5 DEF Order
    <3> QED BY <1>4, <1>6, <1>10, <1>11, <2>1, <3>1, <3>2, <3>3, <3>4 DEF Order
  <2>2. CASE x # c
    BY <1>10, <1>11, <2>2, OrderKept DEF Ordered
  <2> QED BY <2>1, <2>2
<1>14. ASSUME NEW g \in connections PROVE Link(g)'
  <2>0. Link(g) /\ socket[g] \in Clients /\ \A h \in connections' : socket'[h] = socket[g] => h = g
    BY <1>0, <1>10 DEF Ordered, Link, OneTable, TypeOK
  <2>1. CASE g # fd
    <3>1. socket[g] # c
      BY <1>6, <2>1
    <3> QED BY <1>0, <1>10, <1>11, <2>0, <2>1, <3>1, LinkKept
  <2>2. CASE g = fd
    <3>1. /\ c = socket[fd] /\ Along(Sent(c, s), m + Len(in), up[c]) /\ k <= Len(out)
          /\ m + Len(in) + Len(up[c]) = s + b
          /\ status[c] = "open" => Rest(All(c), rd, out, k) /\ rd + (Len(out) - k) = m
          /\ fd \in connections
      BY <1>1, <1>2, <1>3, <1>4, <2>2 DEF Link
    <3>2. PICK o : output_buffer'[fd] = o /\ o = out \o Frame(c, id)
      BY <1>0, <1>10, <3>1 DEF TypeOK
    <3>3. k <= Len(o)
      <4>1. Frame(c, id) \in Seq(Parts)
        BY FrameType
      <4>2. Len(o) = Len(out) + Len(Frame(c, id)) /\ Len(Frame(c, id)) \in Nat /\ Len(out) \in Nat
        BY <3>2, <4>1
      <4> QED BY <3>1, <4>2
    <3>4. /\ Along(Sent(c, s), 2 * id + Len(input_buffer'[fd]), up[c])
          /\ 2 * id + Len(input_buffer'[fd]) + Len(up[c]) = s + b
      BY <1>12, <3>1
    <3>5. ASSUME status[c] = "open" PROVE Rest(All(c), rd, o, k) /\ rd + (Len(o) - k) = 2 * id
      <4>1. Rest(All(c), rd, o, k) /\ rd + (Len(o) - k) = m + 2
        <5>1. m + 2 = 2 * id
          BY <1>2
        <5>2. k <= Len(out) /\ Rest(All(c), rd, out, k) /\ rd + (Len(out) - k) = m
          BY <3>1, <3>5
        <5>3. /\ Rest(All(c), rd, out \o Frame(c, id), k)
              /\ rd + (Len(out \o Frame(c, id)) - k) = m + 2
          BY <5>1, <5>2, QueueFrame
        <5> QED BY <3>2, <5>3
      <4> QED BY <1>2, <4>1
    <3>6. /\ rd = Len(received'[c]) + Len(down'[c]) /\ s = sent'[c] /\ b = Bad(c, malformed')
          /\ k = bytes_sent'[fd] /\ socket'[fd] = c /\ up'[c] = up[c] /\ status'[c] = status[c]
          /\ c \notin backlog' /\ status'[c] # "none"
      BY <1>4, <1>6, <1>10, <3>1
    <3> QED BY <1>11, <1>12, <2>0, <2>2, <3>1, <3>2, <3>3, <3>4, <3>5, <3>6 DEF Link
  <2> QED BY <2>1, <2>2
<1>15. ASSUME fd \notin connections PROVE Dangling(c)'
  <2>1. ~Connected(c) /\ ~Connected(c)'
    BY <1>1, <1>10, <1>15 DEF Dangling, Connected
  <2>2. 2 * id + Len(input_buffer'[fd]) <= s + b
    BY <1>6, <1>12
  <2> QED BY <1>4, <1>6, <1>10, <1>11, <1>12, <2>1, <2>2 DEF Dangling
<1> QED BY <1>10, <1>13, <1>14, <1>15 DEF Ordered

\* The next part to send continues the responses the client has been sent.
LEMMA RestNext ==
    ASSUME NEW F, NEW b \in Nat, NEW out \in Seq(Parts), NEW k \in Nat, k < Len(out), Rest(F, b, out, k)
    PROVE  /\ Head(SubSeq(out, k + 1, Len(out))) = F[b + 1] /\ Rest(F, b + 1, out, k + 1)
           /\ b + 1 + (Len(out) - (k + 1)) = b + (Len(out) - k) /\ b + 1 <= b + (Len(out) - k)
           /\ F[b + 1] = out[k + 1] /\ out[k + 1] \in Parts
<1>1. PICK l \in Nat : l = Len(out)
  OBVIOUS
<1>2. k < l /\ \A i \in 1..(l - k) : out[k + i] = F[b + i]
  BY <1>1 DEF Rest
<1>3. 1 \in 1..(l - k) /\ k + 1 \in 1..l
  BY <1>2
<1>4. out[k + 1] = F[b + 1] /\ out[k + 1] \in Parts
  <2>1. out[k + 1] \in Parts
    BY <1>1, <1>3
  <2> QED BY <1>2, <1>3, <2>1
<1>5. Head(SubSeq(out, k + 1, Len(out))) = out[k + 1]
  <2> DEFINE t == SubSeq(out, k + 1, Len(out))
  <2>1. k <= Len(out)
    BY <1>1, <1>2
  <2>2. t \in Seq(Parts) /\ Len(t) = Len(out) - k /\ \A i \in 1..(Len(out) - k) : t[i] = out[k + i]
    BY <2>1, CutFront
  <2> HIDE DEF t
  <2>3. Len(t) = l - k /\ t[1] = out[k + 1]
    BY <1>1, <1>3, <2>2
  <2>4. Head(t) = t[1]
    BY <1>2, <2>2, <2>3
  <2> QED BY <2>3, <2>4 DEF t
<1>6. Rest(F, b + 1, out, k + 1)
  <2> SUFFICES ASSUME NEW i \in 1..(Len(out) - (k + 1)) PROVE out[k + 1 + i] = F[b + 1 + i]
    BY DEF Rest
  <2>1. i + 1 \in 1..(l - k) /\ k + (i + 1) = k + 1 + i /\ b + (i + 1) = b + 1 + i
    BY <1>1
  <2> QED BY <1>2, <2>1
<1>7. b + 1 + (l - (k + 1)) = b + (l - k) /\ b + 1 <= b + (l - k)
  BY <1>2
<1> QED BY <1>1, <1>4, <1>5, <1>6, <1>7

\* send() moves a part of the response to the client, or loses it with the client.
LEMMA SendPartStep ==
    ASSUME Tables, Ordered, SendPart
    PROVE  Ordered'
<1>0. TypeOK /\ OneTable /\ Attached /\ connections \subseteq Fds
  BY DEF Tables, TypeOK
<1>1. connection_fd \in connections /\ Peer \in Clients
  BY <1>0 DEF SendPart, Attached, OneTable, TypeOK, Peer
<1>2. PICK fd \in connections, c \in Clients : fd = connection_fd /\ c = socket[fd] /\ Link(fd)
  BY <1>1 DEF Ordered, Peer
<1>3. /\ handled' = handled /\ sent' = sent /\ socket' = socket /\ up' = up
      /\ malformed' = malformed /\ received' = received /\ backlog' = backlog
      /\ connections' = connections /\ output_buffer' = output_buffer /\ input_buffer' = input_buffer
      /\ bytes_sent' = [bytes_sent EXCEPT ![fd] = @ + 1] /\ pc' = "send"
      /\ bytes_sent[fd] < Len(output_buffer[fd])
  BY <1>2 DEF SendPart, HasUnsent, Peer, clientVars
<1>4. /\ bytes_sent'[fd] = bytes_sent[fd] + 1
      /\ \A g \in Fds \ {fd} : bytes_sent'[g] = bytes_sent[g]
  BY <1>0, <1>3 DEF TypeOK
<1>5. \/ /\ status[c] = "open" /\ status' = status
         /\ down' = [down EXCEPT ![c] = Append(@, Head(Unsent(fd)))]
      \/ /\ status[c] = "closed" /\ status'[c] \in {"closed", "broken"} /\ down' = down
         /\ \A x \in Clients \ {c} : status'[x] = status[x]
  BY <1>0, <1>2 DEF SendPart, Peer, TypeOK
<1>6. \A x \in Clients \ {c} : status'[x] = status[x] /\ down'[x] = down[x]
  BY <1>0, <1>5 DEF TypeOK
<1>7. ASSUME NEW g \in connections, g # fd PROVE Link(g)'
  <2>1. Link(g) /\ socket[g] \in Clients /\ socket[g] # c
        /\ \A h \in connections' : socket'[h] = socket[g] => h = g
    BY <1>0, <1>2, <1>3, <1>7 DEF Ordered, Link, OneTable, TypeOK
  <2> QED BY <1>0, <1>3, <1>4, <1>6, <1>7, <2>1, LinkKept
<1>8. ASSUME NEW x \in Clients, x # c PROVE Order(x)'
  BY <1>3, <1>6, <1>8, OrderKept DEF Ordered
<1>9. Order(c) /\ c \notin backlog /\ status[c] # "none" /\ \A g \in connections : socket[g] = c => g = fd
  BY <1>2 DEF Ordered, Link
<1>10. PICK k \in Nat, l \in Nat : k = bytes_sent[fd] /\ l = Len(output_buffer[fd]) /\ k < l
  <2>1. bytes_sent[fd] \in Nat /\ Len(output_buffer[fd]) \in Nat
    BY <1>0, <1>2 DEF TypeOK
  <2> QED BY <1>3, <2>1
<1>11. k + 1 <= l
  BY <1>10
<1>12. Order(c)' /\ Link(fd)'
  <2>1. CASE status[c] = "closed" /\ status'[c] \in {"closed", "broken"} /\ down' = down
    <3>1. Order(c)'
      BY <1>3, <1>9, <2>1 DEF Order, Bad
    <3>2. Link(fd)'
      BY <1>2, <1>3, <1>4, <1>10, <1>11, <2>1 DEF Link
    <3> QED BY <3>1, <3>2
  <2>2. CASE /\ status[c] = "open" /\ status' = status
             /\ down' = [down EXCEPT ![c] = Append(@, Head(Unsent(fd)))]
    <3>1. PICK out \in Seq(Parts), q \in Seq(Parts) : out = output_buffer[fd] /\ q = down[c]
      BY <1>0, <1>2 DEF TypeOK
    <3>2. PICK r \in Nat, d \in Nat, m \in Nat : r = Len(received[c]) /\ d = Len(q) /\ m = 2 * Len(handled[c])
      <4>1. Len(received[c]) \in Nat /\ Len(handled[c]) \in Nat /\ Len(q) \in Nat
        BY <1>0, <1>2 DEF TypeOK
      <4>2. \A n \in Nat : 2 * n \in Nat
        OBVIOUS
      <4> QED BY <4>1, <4>2
    <3>3. PICK b \in Nat : b = r + d
      OBVIOUS
    <3>4. Rest(All(c), b, out, k) /\ b + (Len(out) - k) = m
      BY <1>2, <1>10, <2>2, <3>1, <3>2, <3>3 DEF Link
    <3>5. k < Len(out)
      BY <1>10, <3>1
    <3>6. /\ Head(SubSeq(out, k + 1, Len(out))) = All(c)[b + 1] /\ Rest(All(c), b + 1, out, k + 1)
          /\ b + 1 + (Len(out) - (k + 1)) = b + (Len(out) - k) /\ b + 1 <= b + (Len(out) - k)
          /\ All(c)[b + 1] = out[k + 1] /\ out[k + 1] \in Parts
      BY <3>4, <3>5, RestNext
    <3>7. PICK x \in Parts : x = out[k + 1] /\ x = All(c)[r + Len(q) + 1]
      BY <3>2, <3>3, <3>6
    <3>8. down'[c] = Append(q, x)
      BY <1>0, <1>2, <1>10, <2>2, <3>1, <3>6, <3>7 DEF Unsent, TypeOK
    <3>9. Along(All(c), r, q) /\ Along(All(c), 0, received[c])
      BY <1>9, <3>1, <3>2 DEF Order
    <3>10. Along(All(c), r, Append(q, x)) /\ Len(Append(q, x)) = Len(q) + 1
      BY <3>7, <3>9, AlongAppend
    <3>11. Len(received'[c]) + Len(down'[c]) = b + 1
      <4>1. Len(received'[c]) = r /\ Len(down'[c]) = d + 1
        BY <1>3, <3>2, <3>8, <3>10
      <4>2. r + (d + 1) = b + 1
        BY <3>3
      <4> QED BY <4>1, <4>2
    <3>12. b + 1 <= m /\ b + 1 + (Len(out) - (k + 1)) = m
      BY <3>4, <3>6
    <3>13. Order(c)'
      BY <1>3, <1>9, <2>2, <3>2, <3>8, <3>9, <3>10, <3>11, <3>12 DEF Order, Bad
    <3>14. Link(fd)'
      BY <1>2, <1>3, <1>4, <1>10, <1>11, <2>2, <3>1, <3>2, <3>6, <3>11, <3>12 DEF Link
    <3> QED BY <3>13, <3>14
  <2> QED BY <1>5, <2>1, <2>2
<1> QED BY <1>3, <1>7, <1>8, <1>12 DEF Ordered

\* A client connects.
LEMMA ConnectStep ==
    ASSUME Tables, Ordered, NEW c \in Clients, Connect(c)
    PROVE  Ordered'
<1>0. TypeOK /\ OneTable /\ connections \subseteq Fds
  BY DEF Tables, TypeOK
<1>1. /\ handled' = handled /\ sent' = sent /\ socket' = socket /\ up' = up /\ down' = down
      /\ malformed' = malformed /\ received' = received /\ backlog' = backlog \cup {c}
      /\ connections' = connections /\ output_buffer' = output_buffer /\ input_buffer' = input_buffer
      /\ bytes_sent' = bytes_sent /\ pc' = pc /\ connection_fd' = connection_fd
      /\ status[c] = "none" /\ status' = [status EXCEPT ![c] = "open"]
  BY DEF Connect, clientVars, serverVars, managerVars, bufferVars, controlVars
<1>2. status'[c] = "open" /\ \A x \in Clients \ {c} : status'[x] = status[x]
  BY <1>0, <1>1 DEF TypeOK
<1>3. ASSUME NEW x \in Clients PROVE Order(x)'
  <2>1. CASE x = c
    BY <1>1, <1>2, <2>1 DEF Ordered, Order, Bad
  <2>2. CASE x # c
    BY <1>1, <1>2, <2>2, OrderKept DEF Ordered
  <2> QED BY <2>1, <2>2
<1>4. ASSUME NEW g \in connections PROVE Link(g)'
  <2>1. Link(g) /\ socket[g] \in Clients /\ socket[g] # c
        /\ \A h \in connections' : socket'[h] = socket[g] => h = g
    BY <1>0, <1>1 DEF Ordered, Link, OneTable, TypeOK
  <2> QED BY <1>1, <1>2, <2>1, LinkKept
<1>5. ASSUME pc = "process", connection_fd \notin connections PROVE \E x \in Clients : Dangling(x)'
  <2>1. PICK x \in Clients : Dangling(x)
    BY <1>5 DEF Ordered
  <2>2. x # c /\ ~Connected(x)' /\ status'[x] # "none"
    BY <1>1, <1>2, <2>1 DEF Dangling, Connected
  <2> QED BY <1>1, <2>1, <2>2, DanglingKept
<1> QED BY <1>1, <1>3, <1>4, <1>5 DEF Ordered

\* The next part a client sends, valid or not, continues what it has sent.
LEMMA SendNext ==
    ASSUME NEW c \in Clients, NEW s \in Nat, NEW b \in Nat, NEW q \in Seq(Parts),
           Along(Sent(c, s), b, q), b + Len(q) = s
    PROVE  /\ Along(Sent(c, s + 1), b, Append(q, Frame(c, s \div 2 + 1)[(s % 2) + 1]))
           /\ Along(Sent(c, s), b, Append(q, Part(c, s \div 2 + 1, "invalid")))
           /\ Frame(c, s \div 2 + 1)[(s % 2) + 1] \in Parts
           /\ Part(c, s \div 2 + 1, "invalid") \in Parts
<1>1. PICK l \in Nat, id \in Nat : l = Len(q) /\ id = s \div 2 + 1 /\ b + l = s
  <2>1. s \div 2 + 1 \in Nat /\ Len(q) \in Nat
    OBVIOUS
  <2> QED BY <2>1
<1>2. s + 1 \in Positions /\ s + 1 \in Nat /\ ~(s + 1 <= s)
  BY DEF Positions
<1>3. Sent(c, s)[s + 1] = Part(c, id, "invalid")
  BY <1>1, <1>2 DEF Sent
<1>4. Sent(c, s + 1)[s + 1] = All(c)[s + 1]
  BY <1>2 DEF Sent
<1>5. All(c)[s + 1] = Frame(c, id)[(s % 2) + 1] /\ Frame(c, id)[(s % 2) + 1] \in Parts
  <2>1. /\ Frame(c, id)[1] = Part(c, id, "length") /\ Frame(c, id)[2] = Part(c, id, "body")
        /\ Part(c, id, "length") \in Parts /\ Part(c, id, "body") \in Parts
    BY FrameType
  <2>2. s % 2 = 0 \/ s % 2 = 1
    OBVIOUS
  <2>3. (s + 1 + 1) \div 2 = s \div 2 + 1
    OBVIOUS
  <2>4. CASE s % 2 = 0
    <3>1. (s + 1) % 2 = 1 /\ (s % 2) + 1 = 1
      BY <2>4
    <3> QED BY <1>1, <1>2, <2>1, <2>3, <3>1 DEF All
  <2>5. CASE s % 2 = 1
    <3>1. (s + 1) % 2 = 0 /\ (s % 2) + 1 = 2
      BY <2>5
    <3> QED BY <1>1, <1>2, <2>1, <2>3, <3>1 DEF All
  <2> QED BY <2>2, <2>4, <2>5
<1>6. Part(c, id, "invalid") \in Parts
  BY FrameType
<1>7. b + Len(q) + 1 = s + 1 /\ b + Len(q) <= s /\ Len(q) \in Nat
  BY <1>1
<1>8. Along(Sent(c, s + 1), b, q)
  BY <1>7, AlongLonger
<1>9. Along(Sent(c, s + 1), b, Append(q, Frame(c, id)[(s % 2) + 1]))
  <2>1. PICK x \in Parts, F \in {Sent(c, s + 1)} : x = Frame(c, id)[(s % 2) + 1] /\ F = Sent(c, s + 1)
    BY <1>5
  <2>2. x = F[b + Len(q) + 1] /\ Along(F, b, q)
    BY <1>4, <1>5, <1>7, <1>8, <2>1
  <2>3. Along(F, b, Append(q, x))
    BY <2>2, AlongAppend
  <2> QED BY <2>1, <2>3
<1>10. Along(Sent(c, s), b, Append(q, Part(c, id, "invalid")))
  <2>1. PICK x \in Parts, F \in {Sent(c, s)} : x = Part(c, id, "invalid") /\ F = Sent(c, s)
    BY <1>6
  <2>2. x = F[b + Len(q) + 1] /\ Along(F, b, q)
    BY <1>3, <1>7, <2>1
  <2>3. Along(F, b, Append(q, x))
    BY <2>2, AlongAppend
  <2> QED BY <2>1, <2>3
<1> QED BY <1>1, <1>5, <1>6, <1>9, <1>10

\* A client sends the next part of a request, or an invalid length.
LEMMA ClientSendStep ==
    ASSUME Tables, Ordered, NEW c \in Clients, ClientSend(c)
    PROVE  Ordered'
<1>0. TypeOK /\ OneTable /\ connections \subseteq Fds
  BY DEF Tables, TypeOK
<1>1. /\ handled' = handled /\ socket' = socket /\ down' = down /\ status' = status
      /\ received' = received /\ backlog' = backlog
      /\ connections' = connections /\ output_buffer' = output_buffer /\ input_buffer' = input_buffer
      /\ bytes_sent' = bytes_sent /\ pc' = pc /\ connection_fd' = connection_fd
      /\ status[c] = "open" /\ Connected(c) /\ c \notin malformed
  BY DEF ClientSend, serverVars, managerVars, bufferVars, controlVars
<1>2. PICK s \in Nat, q \in Seq(Parts), m \in Nat : s = sent[c] /\ q = up[c] /\ m = 2 * Len(handled[c])
  <2>1. Len(handled[c]) \in Nat /\ sent[c] \in Nat /\ up[c] \in Seq(Parts)
    BY <1>0 DEF TypeOK
  <2>2. \A n \in Nat : 2 * n \in Nat
    OBVIOUS
  <2> QED BY <2>1, <2>2
<1>3. PICK x, s2, mal :
        /\ up' = [up EXCEPT ![c] = Append(@, x)] /\ sent' = [sent EXCEPT ![c] = s2] /\ malformed' = mal
        /\ \/ x = Frame(c, s \div 2 + 1)[(s % 2) + 1] /\ s2 = s + 1 /\ mal = malformed
           \/ x = Part(c, s \div 2 + 1, "invalid") /\ s2 = s /\ mal = malformed \cup {c} /\ s % 2 = 0
  BY <1>0, <1>2 DEF ClientSend, FrameParts, TypeOK
<1>4. /\ up'[c] = Append(q, x) /\ sent'[c] = s2
      /\ \A y \in Clients \ {c} : up'[y] = up[y] /\ sent'[y] = sent[y] /\ (y \in malformed' <=> y \in malformed)
  BY <1>0, <1>2, <1>3 DEF TypeOK
<1>5. /\ s2 \in Nat /\ s <= s2 /\ s + 1 = s2 + Bad(c, mal)
      /\ Bad(c, malformed) = 0 /\ (c \in mal => s2 % 2 = 0) /\ s + Bad(c, malformed) = s
  BY <1>1, <1>3 DEF Bad
<1>6. ASSUME NEW b \in Nat, Along(Sent(c, s), b, q), b + Len(q) = s
      PROVE  Along(Sent(c, s2), b, Append(q, x)) /\ b + Len(Append(q, x)) = s2 + Bad(c, mal)
  <2>1. /\ Along(Sent(c, s + 1), b, Append(q, Frame(c, s \div 2 + 1)[(s % 2) + 1]))
        /\ Along(Sent(c, s), b, Append(q, Part(c, s \div 2 + 1, "invalid")))
        /\ Frame(c, s \div 2 + 1)[(s % 2) + 1] \in Parts
        /\ Part(c, s \div 2 + 1, "invalid") \in Parts
    BY <1>6, SendNext
  <2>2. Along(Sent(c, s2), b, Append(q, x)) /\ x \in Parts
    BY <1>3, <2>1
  <2>3. Len(Append(q, x)) = Len(q) + 1 /\ Len(q) \in Nat
    BY <2>2
  <2>4. b + (Len(q) + 1) = s + 1
    BY <1>6, <2>3
  <2> QED BY <1>5, <2>2, <2>3, <2>4
<1>7. Order(c)'
  <2>1. Order(c)
    BY DEF Ordered
  <2>2. m <= s2
    <3>1. m <= s
      BY <1>2, <2>1 DEF Order
    <3> QED BY <1>5, <3>1
  <2>3. ASSUME c \in backlog
        PROVE  Along(Sent(c, s2), 0, Append(q, x)) /\ Len(Append(q, x)) = s2 + Bad(c, mal)
    <3>1. Along(Sent(c, s), 0, q) /\ Len(q) = s
      BY <1>2, <1>5, <2>1, <2>3 DEF Order
    <3>2. PICK b \in Nat : b = 0
      OBVIOUS
    <3>3. Along(Sent(c, s), b, q) /\ b + Len(q) = s
      BY <3>1, <3>2
    <3>4. Along(Sent(c, s2), b, Append(q, x)) /\ b + Len(Append(q, x)) = s2 + Bad(c, mal)
      BY <1>6, <3>3
    <3>5. Len(Append(q, x)) \in Nat
      OBVIOUS
    <3> QED BY <3>2, <3>4, <3>5
  <2> QED BY <1>1, <1>2, <1>3, <1>4, <1>5, <2>1, <2>2, <2>3 DEF Order
<1>8. ASSUME NEW y \in Clients, y # c PROVE Order(y)'
  BY <1>1, <1>4, <1>8, OrderKept DEF Ordered
<1>9. ASSUME NEW g \in connections PROVE Link(g)'
  <2>1. Link(g) /\ socket[g] \in Clients /\ \A h \in connections' : socket'[h] = socket[g] => h = g
    BY <1>0, <1>1 DEF Ordered, Link, OneTable, TypeOK
  <2>2. CASE socket[g] # c
    BY <1>1, <1>4, <2>1, <2>2, LinkKept
  <2>3. CASE socket[g] = c
    <3>1. PICK in \in Seq(Parts), k \in Nat : in = input_buffer[g] /\ k = Len(in)
      <4>1. input_buffer[g] \in Seq(Parts) /\ Len(input_buffer[g]) \in Nat
        BY <1>0 DEF TypeOK
      <4> QED BY <4>1
    <3>2. Along(Sent(c, s), m, in) /\ Along(Sent(c, s), m + k, q) /\ m + k + Len(q) = s
      BY <1>2, <1>5, <2>1, <2>3, <3>1 DEF Link
    <3>3. PICK b \in Nat : b = m + k
      OBVIOUS
    <3>4. Along(Sent(c, s), b, q) /\ b + Len(q) = s /\ b <= s
      BY <3>2, <3>3
    <3>5. Along(Sent(c, s2), b, Append(q, x)) /\ b + Len(Append(q, x)) = s2 + Bad(c, mal)
      BY <1>6, <3>4
    <3>6. Along(Sent(c, s2), m, in)
      <4>1. Len(in) \in Nat /\ m + Len(in) <= s
        BY <3>1, <3>3, <3>4
      <4>2. Along(Sent(c, s + 1), m, in)
        BY <3>2, <4>1, AlongLonger
      <4> QED BY <1>3, <3>2, <4>2
    <3>7. socket'[g] = c /\ connections' = connections /\ input_buffer'[g] = in /\ backlog' = backlog
          /\ status' = status
      BY <1>1, <2>3, <3>1
    <3>8. /\ handled' = handled /\ received' = received /\ down' = down
          /\ output_buffer' = output_buffer /\ bytes_sent' = bytes_sent
      BY <1>1
    <3> QED BY <1>2, <1>3, <1>4, <2>1, <2>3, <3>1, <3>3, <3>5, <3>6, <3>7, <3>8 DEF Link
  <2> QED BY <2>2, <2>3
<1>10. ASSUME pc = "process", connection_fd \notin connections PROVE \E y \in Clients : Dangling(y)'
  <2>1. PICK y \in Clients : Dangling(y)
    BY <1>10 DEF Ordered
  <2>2. y # c /\ ~Connected(y)' /\ status'[y] # "none"
    BY <1>1, <2>1 DEF Dangling, Connected
  <2> QED BY <1>1, <1>4, <2>1, <2>2, DanglingKept
<1> QED BY <1>1, <1>7, <1>8, <1>9, <1>10 DEF Ordered

\* A client reads a part of a response.
LEMMA ClientReadStep ==
    ASSUME Tables, Ordered, NEW c \in Clients, ClientRead(c)
    PROVE  Ordered'
<1>0. TypeOK /\ OneTable /\ connections \subseteq Fds
  BY DEF Tables, TypeOK
<1>1. /\ handled' = handled /\ sent' = sent /\ socket' = socket /\ up' = up /\ status' = status
      /\ malformed' = malformed /\ backlog' = backlog
      /\ connections' = connections /\ output_buffer' = output_buffer /\ input_buffer' = input_buffer
      /\ bytes_sent' = bytes_sent /\ pc' = pc /\ connection_fd' = connection_fd
      /\ status[c] = "open" /\ down[c] # <<>>
      /\ received' = [received EXCEPT ![c] = Append(@, Head(down[c]))]
      /\ down' = [down EXCEPT ![c] = Tail(@)]
  BY DEF ClientRead, serverVars, managerVars, bufferVars, controlVars
<1>2. PICK q \in Seq(Parts), t \in Seq(Parts) : q = down[c] /\ t = received[c]
  BY <1>0 DEF TypeOK
<1>3. /\ received'[c] = Append(t, Head(q)) /\ down'[c] = Tail(q)
      /\ \A y \in Clients \ {c} : received'[y] = received[y] /\ down'[y] = down[y]
  BY <1>0, <1>1, <1>2 DEF TypeOK
<1>4. PICK r \in Nat, z \in Nat : r = Len(t) /\ z = 0
  OBVIOUS
<1>5. Order(c) /\ Along(All(c), z, t) /\ Along(All(c), r, q)
  BY <1>2, <1>4 DEF Ordered, Order
<1>6. /\ Head(q) = All(c)[r + 1] /\ Along(All(c), r + 1, Tail(q)) /\ Len(Tail(q)) = Len(q) - 1
      /\ Len(q) \in Nat \ {0} /\ q # <<>>
  <2>1. q # <<>>
    BY <1>1, <1>2
  <2>2. Along(All(c), r, q)
    BY <1>5
  <2> QED BY <2>1, <2>2, AlongTail
<1>7. PICK x \in Parts : x = Head(q)
  BY <1>6
<1>8. x = All(c)[z + Len(t) + 1]
  <2>1. r + 1 = z + Len(t) + 1
    BY <1>4
  <2> QED BY <1>6, <1>7, <2>1
<1>9. Along(All(c), z, Append(t, x)) /\ Len(Append(t, x)) = Len(t) + 1
  BY <1>5, <1>8, AlongAppend
<1>10. Len(received'[c]) = r + 1 /\ Len(down'[c]) = Len(q) - 1
       /\ Len(received'[c]) + Len(down'[c]) = Len(received[c]) + Len(down[c])
  <2>1. PICK l \in Nat : l = Len(q)
    BY <1>6
  <2>2. (r + 1) + (l - 1) = r + l
    OBVIOUS
  <2> QED BY <1>2, <1>3, <1>4, <1>6, <1>7, <1>9, <2>1, <2>2
<1>11. Order(c)'
  <2>1. c \notin backlog
    BY <1>2, <1>5, <1>6 DEF Order
  <2>2. Along(All(c), 0, received'[c]) /\ Along(All(c), Len(received'[c]), down'[c])
    BY <1>3, <1>4, <1>6, <1>7, <1>9, <1>10
  <2> QED BY <1>1, <1>5, <1>10, <2>1, <2>2 DEF Order
<1>12. ASSUME NEW y \in Clients, y # c PROVE Order(y)'
  BY <1>1, <1>3, <1>12, OrderKept DEF Ordered
<1>13. ASSUME NEW g \in connections PROVE Link(g)'
  <2>1. Link(g) /\ socket[g] \in Clients /\ \A h \in connections' : socket'[h] = socket[g] => h = g
    BY <1>0, <1>1 DEF Ordered, Link, OneTable, TypeOK
  <2>2. CASE socket[g] # c
    BY <1>1, <1>3, <2>1, <2>2, LinkKept
  <2>3. CASE socket[g] = c
    BY <1>1, <1>10, <2>1, <2>3 DEF Link
  <2> QED BY <2>2, <2>3
<1>14. ASSUME pc = "process", connection_fd \notin connections PROVE \E y \in Clients : Dangling(y)'
  <2>1. PICK y \in Clients : Dangling(y)
    BY <1>14 DEF Ordered
  <2> QED BY <1>1, <2>1 DEF Dangling, Connected
<1> QED BY <1>1, <1>11, <1>12, <1>13, <1>14 DEF Ordered

\* A client closes its side.
LEMMA ClientClosesStep ==
    ASSUME Tables, Ordered, NEW c \in Clients, ClientCloses(c)
    PROVE  Ordered'
<1>0. TypeOK /\ OneTable /\ connections \subseteq Fds
  BY DEF Tables, TypeOK
<1>1. /\ handled' = handled /\ sent' = sent /\ socket' = socket /\ up' = up /\ down' = down
      /\ malformed' = malformed /\ received' = received /\ backlog' = backlog
      /\ connections' = connections /\ output_buffer' = output_buffer /\ input_buffer' = input_buffer
      /\ bytes_sent' = bytes_sent /\ pc' = pc /\ connection_fd' = connection_fd
      /\ status[c] = "open"
  BY DEF ClientCloses, clientVars, serverVars, managerVars, bufferVars, controlVars
<1>2. status'[c] \in {"closed", "aborted"} /\ \A x \in Clients \ {c} : status'[x] = status[x]
  BY <1>0 DEF ClientCloses, TypeOK
<1>3. ASSUME NEW x \in Clients PROVE Order(x)'
  <2>1. CASE x = c
    BY <1>1, <1>2, <2>1 DEF Ordered, Order, Bad
  <2>2. CASE x # c
    BY <1>1, <1>2, <2>2, OrderKept DEF Ordered
  <2> QED BY <2>1, <2>2
<1>4. ASSUME NEW g \in connections PROVE Link(g)'
  <2>1. Link(g) /\ socket[g] \in Clients /\ \A h \in connections' : socket'[h] = socket[g] => h = g
    BY <1>0, <1>1 DEF Ordered, Link, OneTable, TypeOK
  <2>2. CASE socket[g] # c
    BY <1>1, <1>2, <2>1, <2>2, LinkKept
  <2>3. CASE socket[g] = c
    BY <1>1, <1>2, <2>1, <2>3 DEF Link, Bad
  <2> QED BY <2>2, <2>3
<1>5. ASSUME pc = "process", connection_fd \notin connections PROVE \E x \in Clients : Dangling(x)'
  <2>1. PICK x \in Clients : Dangling(x)
    BY <1>5 DEF Ordered
  <2>2. ~Connected(x)' /\ status'[x] # "none"
    BY <1>1, <1>2, <2>1 DEF Dangling, Connected
  <2> QED BY <1>1, <2>1, <2>2, DanglingKept
<1> QED BY <1>1, <1>3, <1>4, <1>5 DEF Ordered

\* Before the first connection nothing was sent.
LEMMA OrderedInit == Init => Ordered
<1> SUFFICES ASSUME Init PROVE Ordered
  OBVIOUS
<1>1. Len(<<>>) = 0 /\ 2 * 0 <= 0 /\ 0 + 0 <= 2 * 0 /\ 0 % 2 = 0 /\ 0 = 0 + 0
  OBVIOUS
<1>2. \A F, b : Along(F, b, <<>>)
  BY DEF Along
<1>3. ASSUME NEW c \in Clients PROVE Order(c)
  <2>1. /\ handled[c] = <<>> /\ received[c] = <<>> /\ down[c] = <<>> /\ up[c] = <<>> /\ sent[c] = 0
        /\ backlog = {} /\ malformed = {}
    BY DEF Init
  <2> QED BY <1>1, <1>2, <2>1 DEF Order, Bad
<1> QED BY <1>3 DEF Ordered, Init

\* Every step keeps requests and responses in order.
LEMMA OrderedStep ==
    ASSUME Tables, Ordered, Next
    PROVE  Ordered'
<1>0. TypeOK /\ OneTable /\ Attached
  BY DEF Tables
<1>1. CASE Run \/ Stop \/ EpollWaitFails \/ Destroy
  BY <1>1, ShrinkStep DEF Run, Listen, ListenFails, LoopStart, Stop, EpollWaitFails, Destroy, managerVars
<1>2. CASE Loop
  <2>1. CASE EpollWait \/ LoopExit \/ DispatchDone \/ CallWritable \/ CallFreedHandler
    BY <2>1, ShrinkStep DEF EpollWait, LoopExit, DispatchDone, CallWritable, CallFreedHandler, managerVars
  <2>2. ASSUME NEW fd \in Fds, Dispatch(fd) PROVE Ordered'
    BY <2>2, ShrinkStep DEF Dispatch, managerVars
  <2>3. ASSUME NEW fd \in Fds, DispatchError(fd) PROVE Ordered'
    <3>1. connections' \subseteq connections /\ \A g \in connections' : socket'[g] = socket[g]
      BY <1>0, <2>3 DEF DispatchError, Close, TypeOK
    <3> QED BY <2>3, <3>1, ShrinkStep DEF DispatchError
  <2> QED BY <1>2, <2>1, <2>2, <2>3 DEF Loop
<1>3. CASE AcceptLoop
  <2>1. CASE AcceptDone
    BY <2>1, ShrinkStep DEF AcceptDone, managerVars
  <2> QED BY <1>3, <2>1, AcceptStep DEF AcceptLoop
<1>4. CASE RecvCloses \/ FrameInvalid \/ SendCloses
  <2>1. connections' \subseteq connections /\ \A g \in connections' : socket'[g] = socket[g]
    BY <1>0, <1>4 DEF RecvCloses, FrameInvalid, SendCloses, Close, TypeOK
  <2> QED BY <1>4, <2>1, ShrinkStep DEF RecvCloses, FrameInvalid, SendCloses
<1>5. CASE RecvAgain \/ FrameIncomplete \/ ReadFreedInput \/ SendAgain \/ SendBrokenPipe
  BY <1>5, ShrinkStep DEF RecvAgain, FrameIncomplete, ReadFreedInput, SendAgain, SendBrokenPipe, managerVars
<1>6. CASE HandleReadable \/ ProcessInput \/ HandleWritable
  BY <1>4, <1>5, <1>6, RecvDataStep, HandleFrameStep, SendPartStep, SendDoneStep
     DEF HandleReadable, ProcessInput, HandleWritable
<1>7. CASE \E c \in Clients : ClientStep(c)
  BY <1>7, ConnectStep, ClientSendStep, ClientReadStep, ClientClosesStep DEF ClientStep
<1>8. CASE Over
  BY <1>8, ShrinkStep DEF Over, vars, serverVars, managerVars
<1> QED BY <1>1, <1>2, <1>3, <1>6, <1>7, <1>8 DEF Next, ServerStep

\* A stuttering step keeps them in order.
LEMMA OrderedStutter ==
    ASSUME Ordered, UNCHANGED vars
    PROVE  Ordered'
BY DEF Ordered, Order, Link, Dangling, Connected, Bad, vars, serverVars, managerVars, bufferVars,
       controlVars, netVars, clientVars

\* Every client's requests and responses, and every buffer, stay in order.
THEOREM OrderedInvariance == Spec => []Ordered
<1>1. Tables /\ Ordered /\ [Next]_vars => Ordered'
  BY OrderedStep, OrderedStutter
<1> QED BY <1>1, OrderedInit, TablesInvariance, PTL DEF Spec

\* The responses to the requests executed are the first parts of the client's stream.
LEMMA ResponsesAlong ==
    ASSUME TypeOK, NEW c \in Clients, Order(c)
    PROVE  /\ Responses(c) \in Seq(Parts) /\ Len(Responses(c)) = 2 * Len(handled[c])
           /\ Along(All(c), 0, Responses(c))
<1>1. PICK n \in Nat, m \in Nat : n = Len(handled[c]) /\ m = 2 * n
  <2>1. Len(handled[c]) \in Nat
    BY DEF TypeOK
  <2>2. \A x \in Nat : 2 * x \in Nat
    OBVIOUS
  <2> QED BY <2>1, <2>2
<1>2. \A i \in 1..n : handled[c][i] = i
  BY <1>1 DEF Order
<1> DEFINE R(i) == Frame(c, handled[c][(i + 1) \div 2])[((i + 1) % 2) + 1]
<1>3. Responses(c) = [i \in 1..m |-> R(i)]
  BY <1>1 DEF Responses, FrameParts
<1>4. ASSUME NEW i \in 1..m PROVE R(i) = All(c)[i] /\ R(i) \in Parts
  <2>1. PICK id \in Nat : id = (i + 1) \div 2 /\ id \in 1..n
    <3>1. (i + 1) \div 2 \in 1..n
      BY <1>1
    <3> QED BY <3>1
  <2>2. handled[c][id] = id
    BY <1>2, <2>1
  <2>3. /\ Frame(c, id)[1] = Part(c, id, "length") /\ Frame(c, id)[2] = Part(c, id, "body")
        /\ Part(c, id, "length") \in Parts /\ Part(c, id, "body") \in Parts
    BY FrameType
  <2>4. i \in Positions /\ (i % 2 = 0 \/ i % 2 = 1)
    BY DEF Positions
  <2>5. CASE i % 2 = 1
    <3>1. ((i + 1) % 2) + 1 = 1
      BY <2>5
    <3> QED BY <2>1, <2>2, <2>3, <2>4, <2>5, <3>1 DEF All
  <2>6. CASE i % 2 = 0
    <3>1. ((i + 1) % 2) + 1 = 2
      BY <2>6
    <3> QED BY <2>1, <2>2, <2>3, <2>4, <2>6, <3>1 DEF All
  <2> QED BY <2>4, <2>5, <2>6
<1> HIDE DEF R
<1>5. Responses(c) \in Seq(Parts) /\ Len(Responses(c)) = m
  BY <1>3, <1>4
<1>6. \A i \in 1..m : Responses(c)[i] = All(c)[i] /\ 0 + i = i
  BY <1>3, <1>4
<1>7. Along(All(c), 0, Responses(c))
  BY <1>5, <1>6 DEF Along
<1> QED BY <1>1, <1>5, <1>7

\* Two pieces of the same stream from the same place agree.
LEMMA AlongPrefix ==
    ASSUME NEW S, NEW F, NEW q \in Seq(S), NEW t \in Seq(S), Along(F, 0, q), Along(F, 0, t),
           Len(q) <= Len(t)
    PROVE  IsPrefixOf(q, t) /\ (Len(q) = Len(t) => q = t)
<1>1. Len(q) \in Nat /\ Len(t) \in Nat
  OBVIOUS
<1>2. \A i \in 1..Len(q) : q[i] = t[i]
  BY <1>1 DEF Along
<1>3. ASSUME Len(q) = Len(t) PROVE q = t
  BY <1>2, <1>3
<1> QED BY <1>2, <1>3 DEF IsPrefixOf

\* What a client reads in order are the responses to its requests in order.
LEMMA OrderedResponses == Tables /\ Ordered => ResponsesInOrder
<1> SUFFICES ASSUME Tables, Ordered, NEW c \in Clients
    PROVE  /\ handled[c] = [i \in 1..Len(handled[c]) |-> i]
           /\ FrameParts * Len(handled[c]) <= sent[c]
           /\ IsPrefixOf(received[c] \o down[c], Responses(c))
           /\ \A fd \in connections : socket[fd] = c /\ status[c] = "open" =>
                received[c] \o down[c] \o Unsent(fd) = Responses(c)
  BY DEF ResponsesInOrder
<1>0. TypeOK /\ Order(c)
  BY DEF Tables, Ordered
<1>1. handled[c] = [i \in 1..Len(handled[c]) |-> i]
  BY <1>0 DEF Order, TypeOK
<1>2. FrameParts * Len(handled[c]) <= sent[c]
  BY <1>0 DEF Order, FrameParts
<1>3. PICK q \in Seq(Parts), t \in Seq(Parts), w \in Seq(Parts), z \in Nat, m \in Nat :
        /\ q = received[c] /\ t = down[c] /\ w = Responses(c) /\ z = 0
        /\ m = 2 * Len(handled[c]) /\ Len(w) = m /\ Along(All(c), 0, w)
  <2>1. received[c] \in Seq(Parts) /\ down[c] \in Seq(Parts) /\ Len(handled[c]) \in Nat
    BY <1>0 DEF TypeOK
  <2>2. \A n \in Nat : 2 * n \in Nat
    OBVIOUS
  <2> QED BY <1>0, <2>1, <2>2, ResponsesAlong
<1>4. Along(All(c), z, q) /\ Along(All(c), z + Len(q), t) /\ Len(q) + Len(t) <= m
  <2>1. z + Len(q) = Len(q)
    BY <1>3
  <2>2. Along(All(c), 0, q) /\ Along(All(c), Len(q), t) /\ Len(q) + Len(t) <= m
    BY <1>0, <1>3 DEF Order
  <2> QED BY <1>3, <2>1, <2>2
<1>5. Along(All(c), z, q \o t) /\ Len(q \o t) = Len(q) + Len(t) /\ q \o t \in Seq(Parts)
  BY <1>4, AlongConcat
<1>6. Along(All(c), 0, q \o t) /\ Len(q \o t) <= Len(w)
  BY <1>3, <1>4, <1>5
<1>7. IsPrefixOf(q \o t, w)
  BY <1>3, <1>5, <1>6, AlongPrefix
<1>8. ASSUME NEW fd \in connections, socket[fd] = c, status[c] = "open"
      PROVE  q \o t \o Unsent(fd) = w
  <2>1. PICK out \in Seq(Parts), k \in Nat, v \in Seq(Parts), b \in Nat :
          out = output_buffer[fd] /\ k = bytes_sent[fd] /\ v = q \o t /\ b = Len(v)
    <3>1. output_buffer[fd] \in Seq(Parts) /\ bytes_sent[fd] \in Nat /\ Len(q \o t) \in Nat
      BY <1>0, <1>5 DEF TypeOK
    <3> QED BY <1>5, <3>1
  <2>2. k <= Len(out) /\ Rest(All(c), b, out, k) /\ b + (Len(out) - k) = m
    BY <1>3, <1>5, <1>8, <2>1 DEF Ordered, Link
  <2> DEFINE u == SubSeq(out, k + 1, Len(out))
  <2>3. u \in Seq(Parts) /\ Len(u) = Len(out) - k /\ \A i \in 1..(Len(out) - k) : u[i] = out[k + i]
    BY <2>2, CutFront
  <2>4. Unsent(fd) = u
    BY <2>1 DEF Unsent
  <2> HIDE DEF u
  <2>5. Along(All(c), b, u)
    BY <2>2, <2>3 DEF Along, Rest
  <2>6. Along(All(c), z, v) /\ Along(All(c), z + Len(v), u)
    <3>1. z + Len(v) = b
      BY <1>3, <2>1
    <3> QED BY <1>5, <2>1, <2>5, <3>1
  <2>7. Along(All(c), z, v \o u) /\ Len(v \o u) = Len(v) + Len(u) /\ v \o u \in Seq(Parts)
    <3>1. u \in Seq(Parts)
      BY <2>3
    <3> QED BY <2>6, <3>1, AlongConcat
  <2>8. Along(All(c), 0, v \o u) /\ Len(v \o u) = Len(w) /\ Len(v \o u) <= Len(w)
    <3>1. Len(v) + Len(u) = m
      BY <2>1, <2>2, <2>3
    <3> QED BY <1>3, <2>7, <3>1
  <2>9. v \o u = w
    BY <1>3, <2>7, <2>8, AlongPrefix
  <2> QED BY <2>1, <2>4, <2>9
<1> QED BY <1>1, <1>2, <1>3, <1>7, <1>8

\* The dispatcher executes each connection's requests once and in order, and the client gets
\* whole responses to its own requests in that order, with none missing while its connection
\* is open; also when ProcessInput goes on with the buffer of a connection that was closed.
THEOREM ResponsesComeInOrder == Spec => []ResponsesInOrder
BY TablesInvariance, OrderedInvariance, OrderedResponses, PTL
=============================================================================
