------------------------- MODULE ClientTransport_proof -------------------------
(* Proofs of the safety properties of ClientTransport, for any number of     *)
(* threads, endpoints, descriptors and calls and any pool limit.             *)
EXTENDS ClientTransport, SequenceTheorems, TLAPS

\* Where a thread can be in RoundTrip, spelt out for the provers.
LEMMA Locs ==
    /\ Holding \subseteq Locations
    /\ {"idle", "borrow", "connect"} \cap Holding = {}
    /\ {"idle", "borrow", "connect"} \subseteq Locations
BY DEF Holding, Locations

\* pop_back leaves the bucket without its last socket.
LEMMA PopBack ==
    ASSUME NEW S, NEW s \in Seq(S), s # <<>>
    PROVE  /\ s[Len(s)] \in S /\ Len(s) \in DOMAIN s
           /\ SubSeq(s, 1, Len(s) - 1) \in Seq(S)
           /\ DOMAIN SubSeq(s, 1, Len(s) - 1) = 1..(Len(s) - 1)
           /\ \A i \in 1..(Len(s) - 1) : SubSeq(s, 1, Len(s) - 1)[i] = s[i]
OBVIOUS

\* The parts of a request frame that SendAll writes are parts.
LEMMA PartType ==
    \A id \in Ids, p \in {"length", "oversized", "body"} : Part(id, p) \in Parts
BY DEF Part, Parts

\* What closing a socket leaves with the server are request ids.
LEMMA DeliveredType == TypeOK => \A fd \in Fds : DeliveredIds(fd) \subseteq Ids
<1> SUFFICES ASSUME TypeOK, NEW fd \in Fds PROVE DeliveredIds(fd) \subseteq Ids
  OBVIOUS
<1>1. up[fd] \in Seq(Parts)
  BY DEF TypeOK
<1>2. CASE Len(up[fd]) >= FrameParts
  <2>1. up[fd][FrameParts] \in Parts
    BY <1>1, <1>2 DEF FrameParts
  <2> QED BY <2>1 DEF Parts, DeliveredIds
<1>3. CASE ~(Len(up[fd]) >= FrameParts)
  BY <1>3 DEF DeliveredIds
<1> QED BY <1>2, <1>3

NetTypeOK ==
    /\ open \in SUBSET Fds /\ orphans \in SUBSET Ids
    /\ peer \in [Fds -> Endpoints \cup {None}]
    /\ up \in [Fds -> Seq(Parts)] /\ down \in [Fds -> Seq(Parts)]
    /\ status \in [Fds -> Statuses]

\* A new connection, or none, on some descriptors keeps the types of the streams.
LEMMA NewConnsType ==
    ASSUME TypeOK, NEW S, NEW e \in Endpoints \cup {None}, NewConns(S, e)
    PROVE  /\ peer' \in [Fds -> Endpoints \cup {None}]
           /\ up' \in [Fds -> Seq(Parts)] /\ down' \in [Fds -> Seq(Parts)]
           /\ status' \in [Fds -> Statuses]
BY DEF NewConns, TypeOK, Statuses

\* Closing descriptors keeps the kernel's variables in their types.
LEMMA CloseType ==
    ASSUME TypeOK, NEW S \in SUBSET Fds, CloseSockets(S)
    PROVE  NetTypeOK'
<1>1. UNION {DeliveredIds(fd) : fd \in S} \subseteq Ids
  BY DeliveredType
<1>2. NewConns(S, None)
  BY DEF CloseSockets
<1> QED BY <1>1, <1>2, NewConnsType DEF CloseSockets, TypeOK, NetTypeOK

\* A freshly constructed transport has its variables in their types.
LEMMA TypeInit == Init => TypeOK /\ ArgsOK
BY MaxCallsAssumption, Locs
   DEF Init, TypeOK, ArgsOK, Active, Holding, Locations, FrameParts, Ids, Statuses

\* Every step of RoundTrip, the destructor and the server keeps the types.
LEMMA TypeStep == TypeOK /\ ArgsOK /\ [Next]_vars => TypeOK' /\ ArgsOK'
<1> SUFFICES ASSUME TypeOK, ArgsOK, [Next]_vars PROVE TypeOK' /\ ArgsOK'
  OBVIOUS
<1> USE MaxCallsAssumption DEF Active, Holding, Locations, Ids, FrameParts, Goto
<1>1. ASSUME NEW t \in Threads, NEW e \in Endpoints, Call(t, e) PROVE TypeOK' /\ ArgsOK'
  BY <1>1 DEF TypeOK, ArgsOK, Call, poolVars, kernelVars, wireVars
<1>2. ASSUME NEW t \in Threads, PopIdle(t)
      PROVE  /\ idle_pool' \in [Endpoints -> Seq(Fds)]
             /\ LastIdle(t) \in Fds /\ pc[t] = "borrow"
  <2>1. endpoint[t] \in Endpoints
    BY <1>2 DEF ArgsOK, PopIdle
  <2>2. idle_pool[endpoint[t]] \in Seq(Fds)
    BY <2>1 DEF TypeOK
  <2> QED BY <1>2, <2>1, <2>2, PopBack DEF PopIdle, LastIdle, TypeOK
<1>3. ASSUME NEW t \in Threads, BorrowReuse(t) PROVE TypeOK' /\ ArgsOK'
  <2>1. PopIdle(t) BY <1>3 DEF BorrowReuse
  <2>2. pc[t] = "borrow" /\ LastIdle(t) \in Fds /\ idle_pool' \in [Endpoints -> Seq(Fds)]
    BY <2>1, <1>2
  <2>3. offset[t] = 0
    BY <2>2 DEF ArgsOK
  <2>4. TypeOK'
    BY <1>3, <2>2 DEF TypeOK, BorrowReuse, argVars, ioVars, resultVars, kernelVars, wireVars
  <2>5. ArgsOK'
    BY <1>3, <2>2, <2>3 DEF TypeOK, ArgsOK, BorrowReuse, argVars, ioVars
  <2> QED BY <2>4, <2>5
<1>4. ASSUME NEW t \in Threads, BorrowConfigureFails(t) \/ BorrowBlockingModeFails(t)
      PROVE  TypeOK' /\ ArgsOK'
  <2>1. PopIdle(t) /\ CloseSockets({LastIdle(t)})
    BY <1>4 DEF BorrowConfigureFails, BorrowBlockingModeFails, CloseSocket
  <2>2. NetTypeOK'
    BY <2>1, <1>2, CloseType
  <2> QED BY <1>4, <2>1, <2>2, <1>2 DEF TypeOK, ArgsOK, BorrowConfigureFails,
         BorrowBlockingModeFails, argVars, ioVars, resultVars, NetTypeOK
<1>5. ASSUME NEW t \in Threads, BorrowMiss(t) PROVE TypeOK' /\ ArgsOK'
  BY <1>5 DEF TypeOK, ArgsOK, BorrowMiss, poolVars, argVars, ioVars, resultVars, kernelVars,
       wireVars
<1>6. ASSUME NEW t \in Threads, OpenSocket(t) PROVE TypeOK' /\ ArgsOK'
  <2>1. PICK fd \in Fds \ open : /\ open' = open \cup {fd} /\ NewConns({fd}, endpoint[t])
                                 /\ socket_fd' = [socket_fd EXCEPT ![t] = fd]
    BY <1>6 DEF OpenSocket
  <2>2. endpoint[t] \in Endpoints \cup {None}
    BY DEF TypeOK
  <2>3. NetTypeOK'
    BY <1>6, <2>1, <2>2, NewConnsType DEF TypeOK, NetTypeOK, OpenSocket
  <2> QED BY <1>6, <2>1, <2>3 DEF TypeOK, ArgsOK, OpenSocket, poolVars, argVars, ioVars,
         resultVars, NetTypeOK
<1>7. ASSUME NEW t \in Threads, OpenSocketFails(t) PROVE TypeOK' /\ ArgsOK'
  BY <1>7 DEF TypeOK, ArgsOK, OpenSocketFails, Finish, Unlock, argVars, ioVars, kernelVars,
       wireVars
<1>8. ASSUME NEW t \in Threads, ConnectSucceeds(t) PROVE TypeOK' /\ ArgsOK'
  <2>1. offset[t] = 0
    BY <1>8 DEF ArgsOK, ConnectSucceeds
  <2>2. TypeOK'
    BY <1>8 DEF TypeOK, ConnectSucceeds, Unlock, argVars, ioVars, resultVars, kernelVars, wireVars
  <2>3. ArgsOK'
    BY <1>8, <2>1 DEF TypeOK, ArgsOK, ConnectSucceeds, argVars, ioVars
  <2> QED BY <2>2, <2>3
<1>9. ASSUME NEW t \in Threads, ConnectFails(t) PROVE TypeOK' /\ ArgsOK'
  <2>1. NetTypeOK'
    BY <1>9, CloseType DEF ConnectFails, ArgsOK, CloseSocket
  <2> QED BY <1>9, <2>1 DEF TypeOK, ArgsOK, ConnectFails, Finish, Unlock, argVars, ioVars,
         NetTypeOK
<1>10. ASSUME NEW t \in Threads, SendPart(t) PROVE TypeOK' /\ ArgsOK'
  <2>1. socket_fd[t] \in Fds /\ request_id[t] \in Ids /\ offset[t] \in {0, 1}
    BY <1>10 DEF SendPart, ArgsOK, TypeOK
  <2>2. RequestFrame(request_id[t])[offset[t] + 1] \in Parts
    BY <2>1, PartType DEF RequestFrame
  <2>3. up' \in [Fds -> Seq(Parts)] /\ status' \in [Fds -> Statuses]
    <3> DEFINE part == RequestFrame(request_id[t])[offset[t] + 1]
    <3> HIDE DEF part
    <3>1. part \in Parts
      BY <2>2 DEF part
    <3>2. Append(up[socket_fd[t]], part) \in Seq(Parts)
      BY <2>1, <3>1 DEF TypeOK
    <3>3. \/ up' = [up EXCEPT ![socket_fd[t]] = Append(@, part)] /\ UNCHANGED status
          \/ UNCHANGED up /\ status' = [status EXCEPT ![socket_fd[t]] = "reset"]
      BY <1>10 DEF SendPart, part
    <3> QED BY <3>2, <3>3 DEF TypeOK, Statuses
  <2>4. /\ pc[t] = "send" /\ offset' = [offset EXCEPT ![t] = offset[t] + 1]
        /\ \/ offset[t] = 1 /\ pc' = [pc EXCEPT ![t] = "recv_length"]
           \/ offset[t] = 0 /\ pc' = [pc EXCEPT ![t] = "send"]
        /\ UNCHANGED <<idle_pool, pool_mutex, endpoint, request_id, next_request_id, socket_fd,
                       frame, open, peer, down, orphans, served, outcome, reply, lifetime>>
    <3>1. CASE offset[t] = 0
      BY <1>10, <3>1 DEF SendPart, poolVars, argVars, resultVars
    <3>2. CASE offset[t] = 1
      BY <1>10, <3>2 DEF SendPart, poolVars, argVars, resultVars
    <3> QED BY <2>1, <3>1, <3>2
  <2>5. offset' \in [Threads -> 0..FrameParts] /\ pc' \in [Threads -> Locations]
    <3>1. offset[t] + 1 \in 0..FrameParts
      BY <2>1
    <3> QED BY <3>1, <2>4 DEF TypeOK
  <2>6. TypeOK'
    BY <2>3, <2>4, <2>5 DEF TypeOK
  <2>7. ArgsOK'
    BY <2>1, <2>4 DEF TypeOK, ArgsOK
  <2> QED BY <2>6, <2>7
<1>11. ASSUME NEW t \in Threads, SendFails(t) \/ RecvFails(t) PROVE TypeOK' /\ ArgsOK'
  BY <1>11 DEF TypeOK, ArgsOK, SendFails, RecvFails, poolVars, argVars, ioVars, resultVars,
       kernelVars, wireVars
<1>12. ASSUME NEW t \in Threads, SendBrokenPipe(t) PROVE TypeOK' /\ ArgsOK'
  BY <1>12 DEF TypeOK, ArgsOK, SendBrokenPipe, poolVars, argVars, ioVars, resultVars, kernelVars,
       wireVars
<1>13. ASSUME NEW t \in Threads, RecvLength(t) \/ RecvLengthInvalid(t) \/ RecvBody(t)
       PROVE  TypeOK' /\ ArgsOK'
  <2>1. socket_fd[t] \in Fds /\ down[socket_fd[t]] \in Seq(Parts) /\ down[socket_fd[t]] # <<>>
    BY <1>13 DEF TypeOK, ArgsOK, RecvLength, RecvLengthInvalid, RecvBody
  <2>2. Head(down[socket_fd[t]]) \in Parts /\ Tail(down[socket_fd[t]]) \in Seq(Parts)
    BY <2>1
  <2>3. down' \in [Fds -> Seq(Parts)]
    BY <1>13, <2>1, <2>2 DEF TypeOK, RecvLength, RecvLengthInvalid, RecvBody
  <2>4. frame' \in [Threads -> Seq(Parts)]
    <3>1. CASE RecvLength(t)
      BY <3>1, <2>2 DEF TypeOK, RecvLength
    <3>2. CASE RecvLengthInvalid(t)
      BY <3>2 DEF TypeOK, RecvLengthInvalid, ioVars
    <3>3. CASE RecvBody(t)
      BY <3>3, <2>2 DEF TypeOK, RecvBody
    <3> QED BY <1>13, <3>1, <3>2, <3>3
  <2> QED BY <1>13, <2>3, <2>4 DEF TypeOK, ArgsOK, RecvLength, RecvLengthInvalid, RecvBody,
         poolVars, argVars, ioVars, resultVars
<1>14. ASSUME NEW t \in Threads, CloseAfterFailure(t) PROVE TypeOK' /\ ArgsOK'
  <2>1. NetTypeOK'
    BY <1>14, CloseType DEF CloseAfterFailure, ArgsOK, CloseSocket
  <2> QED BY <1>14, <2>1 DEF TypeOK, ArgsOK, CloseAfterFailure, Finish, poolVars, argVars, ioVars,
         NetTypeOK
<1>15. ASSUME NEW t \in Threads, ReturnConnection(t) PROVE TypeOK' /\ ArgsOK'
  <2>1. /\ endpoint[t] \in Endpoints /\ socket_fd[t] \in Fds /\ request_id[t] \in Ids
        /\ idle_pool[endpoint[t]] \in Seq(Fds)
    BY <1>15 DEF ReturnConnection, ArgsOK, TypeOK
  <2>2. CASE Len(idle_pool[endpoint[t]]) >= MaxIdlePerEndpoint
    <3>1. CloseSockets({socket_fd[t]}) /\ UNCHANGED idle_pool
      BY <1>15, <2>1, <2>2, MaxIdleAssumption DEF ReturnConnection, CloseSocket
    <3>2. NetTypeOK'
      BY <2>1, <3>1, CloseType
    <3> QED BY <1>15, <2>1, <3>1, <3>2 DEF TypeOK, ArgsOK, ReturnConnection, Finish, argVars,
           ioVars, NetTypeOK
  <2>3. CASE Len(idle_pool[endpoint[t]]) < MaxIdlePerEndpoint
    <3>1. /\ idle_pool' = [idle_pool EXCEPT ![endpoint[t]] = Append(@, socket_fd[t])]
          /\ UNCHANGED <<open, wireVars, orphans>>
      BY <1>15, <2>1, <2>3, MaxIdleAssumption DEF ReturnConnection
    <3>2. idle_pool' \in [Endpoints -> Seq(Fds)]
      BY <2>1, <3>1 DEF TypeOK
    <3> QED BY <1>15, <2>1, <3>1, <3>2 DEF TypeOK, ArgsOK, ReturnConnection, Finish, argVars,
           ioVars, wireVars
  <2> QED BY <2>1, <2>2, <2>3, MaxIdleAssumption
<1>16. ASSUME Destroy PROVE TypeOK' /\ ArgsOK'
  <2>1. NetTypeOK'
    BY <1>16, CloseType DEF Destroy, PooledFds
  <2> QED BY <1>16, <2>1 DEF TypeOK, ArgsOK, Destroy, argVars, ioVars, resultVars, NetTypeOK
<1>17. ASSUME NEW fd \in Fds, Serve(fd) PROVE TypeOK' /\ ArgsOK'
  <2> DEFINE id == up[fd][2].id
  <2>1. up[fd] \in Seq(Parts) /\ down[fd] \in Seq(Parts) /\ 2 \in DOMAIN up[fd]
    BY <1>17 DEF TypeOK, Serve
  <2>2. id \in Ids
    <3>1. up[fd][2] \in Parts
      BY <2>1
    <3> QED BY <3>1 DEF Parts
  <2>3. ASSUME NEW len \in {"length", "oversized"}
        PROVE  down[fd] \o <<Part(id, len), Part(id, "body")>> \in Seq(Parts)
    <3>1. <<Part(id, len), Part(id, "body")>> \in Seq(Parts)
      BY <2>2, PartType
    <3> QED BY <2>1, <3>1
  <2>4. SubSeq(up[fd], FrameParts + 1, Len(up[fd])) \in Seq(Parts)
    BY <2>1
  <2>5. up' \in [Fds -> Seq(Parts)]
    BY <1>17, <2>4 DEF Serve, TypeOK
  <2>6. down' \in [Fds -> Seq(Parts)]
    BY <1>17, <2>3 DEF Serve, TypeOK
  <2>7. served' \in [Ids -> Nat]
    <3>1. served' = [served EXCEPT ![id] = served[id] + 1] /\ served \in [Ids -> Nat]
      BY <1>17 DEF Serve, TypeOK
    <3> HIDE DEF id, Ids
    <3> QED BY <2>2, <3>1
  <2> QED BY <1>17, <2>5, <2>6, <2>7 DEF TypeOK, ArgsOK, Serve, clientVars, poolVars, argVars,
         ioVars, resultVars
<1>18. ASSUME NEW id \in Ids, ServeOrphan(id) PROVE TypeOK' /\ ArgsOK'
  <2>1. served' \in [Ids -> Nat]
    <3>1. served' = served \/ served' = [served EXCEPT ![id] = @ + 1]
      BY <1>18 DEF ServeOrphan
    <3>2. served \in [Ids -> Nat] /\ served[id] + 1 \in Nat
      BY DEF TypeOK
    <3> QED BY <3>1, <3>2
  <2> QED BY <1>18, <2>1 DEF TypeOK, ArgsOK, ServeOrphan, clientVars, poolVars, argVars, ioVars,
         resultVars, wireVars
<1>19. ASSUME NEW fd \in Fds, PeerCloses(fd) PROVE TypeOK' /\ ArgsOK'
  <2>1. \A n \in 0..Len(down[fd]) : SubSeq(down[fd], 1, n) \in Seq(Parts)
    BY DEF TypeOK
  <2>2. down' \in [Fds -> Seq(Parts)]
    BY <1>19, <2>1 DEF PeerCloses, TypeOK
  <2> QED BY <1>19, <2>2 DEF TypeOK, ArgsOK, PeerCloses, clientVars, poolVars, argVars, ioVars,
         resultVars, Statuses
<1>20. ASSUME UNCHANGED vars PROVE TypeOK' /\ ArgsOK'
  BY <1>20 DEF TypeOK, ArgsOK, vars, clientVars, poolVars, argVars, ioVars, resultVars, kernelVars,
       wireVars
<1> QED
  BY <1>1, <1>3, <1>4, <1>5, <1>6, <1>7, <1>8, <1>9, <1>10, <1>11, <1>12, <1>13, <1>14, <1>15,
     <1>16, <1>17, <1>18, <1>19, <1>20
  DEF Next, Client, ThreadStep, Step, Server, Ended

-----------------------------------------------------------------------------
(* Ownership of descriptors.  Each step moves at most one descriptor; the    *)
(* next lemmas say that every such move keeps OneOwner.                       *)

\* Nobody's ownership changes.
LEMMA OwnerKept ==
    ASSUME OneOwner, idle_pool' = idle_pool, open' = open,
           \A u \in Threads : /\ pc'[u] \in Holding <=> pc[u] \in Holding
                              /\ pc[u] \in Holding => socket_fd'[u] = socket_fd[u]
    PROVE  OneOwner'
BY DEF OneOwner, OpenOwned, HeldOpen, HeldOnce, PooledOpen, PooledOnce, HeldNotPooled, Holds, Pooled

\* socket() gives thread t a descriptor that nobody has.
LEMMA OwnerOpened ==
    ASSUME OneOwner, NEW t \in Threads, NEW fd \in Fds \ open,
           idle_pool' = idle_pool, open' = open \cup {fd},
           pc[t] \notin Holding, pc'[t] \in Holding, socket_fd'[t] = fd,
           \A u \in Threads \ {t} : pc'[u] = pc[u] /\ socket_fd'[u] = socket_fd[u]
    PROVE  OneOwner'
<1> USE DEF Holds, Pooled
<1>1. OpenOwned'
  BY DEF OneOwner, OpenOwned
<1>2. HeldOpen' /\ PooledOpen' /\ PooledOnce'
  BY DEF OneOwner, HeldOpen, PooledOpen, PooledOnce
<1>3. HeldOnce' /\ HeldNotPooled'
  BY DEF OneOwner, HeldOnce, HeldNotPooled, HeldOpen, PooledOpen
<1> QED BY <1>1, <1>2, <1>3 DEF OneOwner

\* Thread t closes the descriptor it holds.
LEMMA OwnerClosed ==
    ASSUME OneOwner, NEW t \in Threads,
           idle_pool' = idle_pool, open' = open \ {socket_fd[t]},
           pc[t] \in Holding, pc'[t] \notin Holding,
           \A u \in Threads \ {t} : pc'[u] = pc[u] /\ socket_fd'[u] = socket_fd[u]
    PROVE  OneOwner'
<1> USE DEF Holds, Pooled
<1>1. OpenOwned'
  BY DEF OneOwner, OpenOwned
<1>2. HeldOpen' /\ PooledOpen' /\ PooledOnce'
  BY DEF OneOwner, HeldOpen, PooledOpen, PooledOnce, HeldOnce, HeldNotPooled
<1>3. HeldOnce' /\ HeldNotPooled'
  BY DEF OneOwner, HeldOnce, HeldNotPooled
<1> QED BY <1>1, <1>2, <1>3 DEF OneOwner

\* The last slot of bucket e is removed; its descriptor goes to thread t or is
\* closed.
LEMMA OwnerPopped ==
    ASSUME OneOwner, NEW t \in Threads, NEW e \in Endpoints, NEW fd,
           idle_pool \in [Endpoints -> Seq(Fds)], idle_pool[e] # <<>>,
           fd = idle_pool[e][Len(idle_pool[e])],
           idle_pool' = [idle_pool EXCEPT ![e] = SubSeq(idle_pool[e], 1, Len(idle_pool[e]) - 1)],
           pc[t] \notin Holding,
           \/ pc'[t] \in Holding /\ socket_fd'[t] = fd /\ open' = open
           \/ pc'[t] \notin Holding /\ open' = open \ {fd},
           \A u \in Threads \ {t} : pc'[u] = pc[u] /\ socket_fd'[u] = socket_fd[u]
    PROVE  OneOwner'
<1> DEFINE n == Len(idle_pool[e])
<1>0. idle_pool[e] \in Seq(Fds)
  OBVIOUS
<1>1. n \in DOMAIN idle_pool[e] /\ n \in Nat /\ DOMAIN idle_pool[e] = 1..n
  BY <1>0
<1>2. \A f \in Endpoints : f # e => idle_pool'[f] = idle_pool[f]
  OBVIOUS
<1>3. /\ DOMAIN idle_pool'[e] = 1..(n - 1)
      /\ \A i \in 1..(n - 1) : idle_pool'[e][i] = idle_pool[e][i]
  <2>1. idle_pool'[e] = SubSeq(idle_pool[e], 1, n - 1)
    OBVIOUS
  <2> QED BY <1>0, <2>1, PopBack
<1> HIDE DEF n
<1>4. \A f \in Endpoints : \A i \in DOMAIN idle_pool'[f] :
        i \in DOMAIN idle_pool[f] /\ idle_pool'[f][i] = idle_pool[f][i]
  BY <1>1, <1>2, <1>3
<1>5. \A f \in Endpoints : \A i \in DOMAIN idle_pool[f] :
        \/ i \in DOMAIN idle_pool'[f] /\ idle_pool'[f][i] = idle_pool[f][i]
        \/ f = e /\ i = n
  BY <1>1, <1>2, <1>3
<1>6. fd = idle_pool[e][n]
  BY DEF n
<1>7. fd \in open
  BY <1>1, <1>6 DEF OneOwner, PooledOpen
<1>8. \A f \in Endpoints : \A i \in DOMAIN idle_pool'[f] : idle_pool'[f][i] # fd
  <2> SUFFICES ASSUME NEW f \in Endpoints, NEW i \in DOMAIN idle_pool'[f], idle_pool'[f][i] = fd
               PROVE  FALSE
    OBVIOUS
  <2>1. f = e /\ i = n
    BY <1>1, <1>4, <1>6 DEF OneOwner, PooledOnce
  <2> QED BY <2>1, <1>1, <1>3
<1>9. \A u \in Threads : pc[u] \in Holding => socket_fd[u] # fd
  BY <1>1, <1>6 DEF OneOwner, HeldNotPooled
<1>10. OpenOwned'
  <2> SUFFICES ASSUME NEW d \in open'
               PROVE  \/ \E u \in Threads : Holds(u, d)'
                      \/ \E f \in Endpoints : \E i \in DOMAIN idle_pool'[f] : Pooled(f, i, d)'
    BY DEF OpenOwned
  <2>1. CASE d = fd
    BY <2>1 DEF Holds
  <2>2. CASE d # fd
    <3>1. d \in open
      OBVIOUS
    <3>2. CASE \E u \in Threads : Holds(u, d)
      BY <3>2 DEF Holds
    <3>3. ASSUME NEW f \in Endpoints, NEW i \in DOMAIN idle_pool[f], Pooled(f, i, d)
          PROVE  i \in DOMAIN idle_pool'[f] /\ Pooled(f, i, d)'
      BY <3>3, <2>2, <1>5, <1>6 DEF Pooled
    <3> QED BY <3>1, <3>2, <3>3 DEF OneOwner, OpenOwned
  <2> QED BY <2>1, <2>2
<1>11. HeldOpen'
  BY <1>7, <1>9 DEF OneOwner, HeldOpen
<1>12. PooledOpen'
  BY <1>4, <1>8 DEF OneOwner, PooledOpen
<1>13. PooledOnce'
  BY <1>4 DEF OneOwner, PooledOnce
<1>14. HeldOnce'
  BY <1>9 DEF OneOwner, HeldOnce
<1>15. HeldNotPooled'
  BY <1>4, <1>8 DEF OneOwner, HeldNotPooled
<1> QED BY <1>10, <1>11, <1>12, <1>13, <1>14, <1>15 DEF OneOwner

\* Thread t puts the descriptor it holds at the end of bucket e.
LEMMA OwnerPushed ==
    ASSUME OneOwner, NEW t \in Threads, NEW e \in Endpoints,
           idle_pool \in [Endpoints -> Seq(Fds)], open' = open,
           idle_pool' = [idle_pool EXCEPT ![e] = Append(idle_pool[e], socket_fd[t])],
           pc[t] \in Holding, pc'[t] \notin Holding,
           \A u \in Threads \ {t} : pc'[u] = pc[u] /\ socket_fd'[u] = socket_fd[u]
    PROVE  OneOwner'
<1> DEFINE n == Len(idle_pool[e]) + 1
<1>1. \A f \in Endpoints : f # e => idle_pool'[f] = idle_pool[f]
  OBVIOUS
<1>2. /\ n \in Nat /\ DOMAIN idle_pool[e] = 1..(n - 1) /\ DOMAIN idle_pool'[e] = 1..n
      /\ idle_pool'[e][n] = socket_fd[t]
      /\ \A i \in 1..(n - 1) : idle_pool'[e][i] = idle_pool[e][i]
  <2>1. idle_pool[e] \in Seq(Fds) /\ idle_pool'[e] = Append(idle_pool[e], socket_fd[t])
    OBVIOUS
  <2> QED BY <2>1
<1> HIDE DEF n
<1>3. \A f \in Endpoints : \A i \in DOMAIN idle_pool[f] :
        i \in DOMAIN idle_pool'[f] /\ idle_pool'[f][i] = idle_pool[f][i]
  BY <1>1, <1>2
<1>4. \A f \in Endpoints : \A i \in DOMAIN idle_pool'[f] :
        \/ i \in DOMAIN idle_pool[f] /\ idle_pool'[f][i] = idle_pool[f][i]
        \/ f = e /\ i = n /\ idle_pool'[f][i] = socket_fd[t]
  BY <1>1, <1>2
<1>5. OpenOwned'
  <2> SUFFICES ASSUME NEW d \in open
               PROVE  \/ \E u \in Threads : Holds(u, d)'
                      \/ \E f \in Endpoints : \E i \in DOMAIN idle_pool'[f] : Pooled(f, i, d)'
    BY DEF OpenOwned
  <2>1. CASE d = socket_fd[t]
    BY <2>1, <1>2 DEF Pooled
  <2>2. CASE d # socket_fd[t]
    <3>1. CASE \E u \in Threads : Holds(u, d)
      BY <3>1, <2>2 DEF Holds
    <3>2. ASSUME NEW f \in Endpoints, NEW i \in DOMAIN idle_pool[f], Pooled(f, i, d)
          PROVE  i \in DOMAIN idle_pool'[f] /\ Pooled(f, i, d)'
      BY <3>2, <1>3 DEF Pooled
    <3> QED BY <3>1, <3>2 DEF OneOwner, OpenOwned
  <2> QED BY <2>1, <2>2
<1>6. HeldOpen' /\ PooledOpen'
  BY <1>4 DEF OneOwner, HeldOpen, PooledOpen
<1>7. PooledOnce'
  <2> SUFFICES ASSUME NEW f \in Endpoints, NEW g \in Endpoints,
                      NEW i \in DOMAIN idle_pool'[f], NEW j \in DOMAIN idle_pool'[g],
                      idle_pool'[f][i] = idle_pool'[g][j]
               PROVE  f = g /\ i = j
    BY DEF PooledOnce
  <2>1. CASE i \in DOMAIN idle_pool[f] /\ idle_pool'[f][i] = idle_pool[f][i]
    <3>1. idle_pool[f][i] # socket_fd[t]
      BY <2>1 DEF OneOwner, HeldNotPooled
    <3>2. j \in DOMAIN idle_pool[g] /\ idle_pool'[g][j] = idle_pool[g][j]
      BY <1>4, <2>1, <3>1
    <3> QED BY <2>1, <3>2 DEF OneOwner, PooledOnce
  <2>2. CASE f = e /\ i = n /\ idle_pool'[f][i] = socket_fd[t]
    <3>1. ~(j \in DOMAIN idle_pool[g] /\ idle_pool'[g][j] = idle_pool[g][j])
      BY <2>2 DEF OneOwner, HeldNotPooled
    <3> QED BY <1>4, <2>2, <3>1
  <2> QED BY <1>4, <2>1, <2>2
<1>8. HeldOnce'
  BY DEF OneOwner, HeldOnce
<1>9. HeldNotPooled'
  <2> SUFFICES ASSUME NEW u \in Threads, NEW f \in Endpoints, pc'[u] \in Holding,
                      NEW i \in DOMAIN idle_pool'[f]
               PROVE  idle_pool'[f][i] # socket_fd'[u]
    BY DEF HeldNotPooled
  <2>1. u # t /\ pc[u] \in Holding /\ socket_fd'[u] = socket_fd[u]
    OBVIOUS
  <2>2. socket_fd[u] # socket_fd[t]
    BY <2>1 DEF OneOwner, HeldOnce
  <2> QED BY <2>1, <2>2, <1>4 DEF OneOwner, HeldNotPooled
<1> QED BY <1>5, <1>6, <1>7, <1>8, <1>9 DEF OneOwner

\* A freshly constructed transport owns no socket.
LEMMA OwnerInit == Init => OneOwner
BY DEF Init, OneOwner, OpenOwned, HeldOpen, HeldOnce, PooledOpen, PooledOnce, HeldNotPooled,
       Holding

\* Every step of RoundTrip, the destructor and the server keeps each open socket
\* with one owner.
LEMMA OwnerStep == TypeOK /\ ArgsOK /\ OneOwner /\ [Next]_vars => OneOwner'
<1> SUFFICES ASSUME TypeOK, ArgsOK, OneOwner, [Next]_vars PROVE OneOwner'
  OBVIOUS
<1> USE DEF Holding, Goto, Finish
<1>1. ASSUME NEW t \in Threads, NEW e \in Endpoints, Call(t, e) PROVE OneOwner'
  BY <1>1, OwnerKept DEF Call, TypeOK, poolVars, kernelVars
<1>2. ASSUME NEW t \in Threads, BorrowReuse(t) PROVE OneOwner'
  <2>1. endpoint[t] \in Endpoints
    BY <1>2 DEF BorrowReuse, PopIdle, ArgsOK, Active
  <2> QED BY <1>2, <2>1, OwnerPopped DEF BorrowReuse, PopIdle, LastIdle, TypeOK, kernelVars
<1>3. ASSUME NEW t \in Threads, BorrowConfigureFails(t) \/ BorrowBlockingModeFails(t)
      PROVE  OneOwner'
  <2>1. endpoint[t] \in Endpoints
    BY <1>3 DEF BorrowConfigureFails, BorrowBlockingModeFails, PopIdle, ArgsOK, Active
  <2> QED BY <1>3, <2>1, OwnerPopped DEF BorrowConfigureFails, BorrowBlockingModeFails, PopIdle,
         LastIdle, CloseSocket, CloseSockets, TypeOK
<1>4. ASSUME NEW t \in Threads, BorrowMiss(t) \/ OpenSocketFails(t) PROVE OneOwner'
  BY <1>4, OwnerKept DEF BorrowMiss, OpenSocketFails, TypeOK, poolVars, kernelVars
<1>5. ASSUME NEW t \in Threads, OpenSocket(t) PROVE OneOwner'
  <2>1. PICK fd \in Fds \ open : /\ open' = open \cup {fd}
                                 /\ socket_fd' = [socket_fd EXCEPT ![t] = fd]
    BY <1>5 DEF OpenSocket
  <2> QED BY <1>5, <2>1, OwnerOpened DEF OpenSocket, TypeOK, poolVars
<1>6. ASSUME NEW t \in Threads, ConnectFails(t) \/ CloseAfterFailure(t) PROVE OneOwner'
  BY <1>6, OwnerClosed DEF ConnectFails, CloseAfterFailure, CloseSocket, CloseSockets, TypeOK,
       poolVars
<1>7. ASSUME NEW t \in Threads, ConnectSucceeds(t) \/ SendFails(t) \/ SendBrokenPipe(t) \/ RecvFails(t)
      PROVE  OneOwner'
  BY <1>7, OwnerKept DEF ConnectSucceeds, SendFails, SendBrokenPipe, RecvFails, TypeOK, poolVars,
       kernelVars
<1>8. ASSUME NEW t \in Threads,
             SendPart(t) \/ RecvLength(t) \/ RecvLengthInvalid(t) \/ RecvBody(t)
      PROVE  OneOwner'
  BY <1>8, OwnerKept DEF SendPart, RecvLength, RecvLengthInvalid, RecvBody, TypeOK, poolVars
<1>9. ASSUME NEW t \in Threads, ReturnConnection(t) PROVE OneOwner'
  <2>1. endpoint[t] \in Endpoints
    BY <1>9 DEF ReturnConnection, ArgsOK, Active
  <2>2. CASE CloseSocket(socket_fd[t]) /\ UNCHANGED idle_pool
    BY <1>9, <2>2, OwnerClosed DEF ReturnConnection, CloseSocket, CloseSockets, TypeOK
  <2>3. CASE /\ idle_pool' = [idle_pool EXCEPT ![endpoint[t]] = Append(@, socket_fd[t])]
             /\ UNCHANGED open
    BY <1>9, <2>1, <2>3, OwnerPushed DEF ReturnConnection, TypeOK
  <2> QED BY <1>9, <2>2, <2>3 DEF ReturnConnection
<1>10. ASSUME Destroy PROVE OneOwner'
  <2>1. \A t \in Threads : pc'[t] \notin Holding
    BY <1>10 DEF Destroy
  <2>2. \A e \in Endpoints : DOMAIN idle_pool'[e] = {}
    BY <1>10 DEF Destroy
  <2>3. open' = {}
    BY <1>10 DEF Destroy, CloseSockets, PooledFds, OneOwner, OpenOwned, Holds, Pooled, TypeOK
  <2> QED BY <2>1, <2>2, <2>3 DEF OneOwner, OpenOwned, HeldOpen, HeldOnce, PooledOpen, PooledOnce,
         HeldNotPooled
<1>11. CASE UNCHANGED <<idle_pool, open, pc, socket_fd>>
  BY <1>11, OwnerKept
<1>12. ASSUME NEW fd \in Fds, Serve(fd) \/ PeerCloses(fd) PROVE UNCHANGED <<idle_pool, open, pc, socket_fd>>
  BY <1>12 DEF Serve, PeerCloses, clientVars, poolVars
<1>13. ASSUME NEW id \in Ids, ServeOrphan(id) PROVE UNCHANGED <<idle_pool, open, pc, socket_fd>>
  BY <1>13 DEF ServeOrphan, clientVars, poolVars
<1>14. ASSUME UNCHANGED vars PROVE UNCHANGED <<idle_pool, open, pc, socket_fd>>
  BY <1>14 DEF vars, clientVars, poolVars, kernelVars
<1> QED
  BY <1>1, <1>2, <1>3, <1>4, <1>5, <1>6, <1>7, <1>8, <1>9, <1>10, <1>11, <1>12, <1>13, <1>14
  DEF Next, Client, ThreadStep, Step, Server, Ended

-----------------------------------------------------------------------------
(* The exchange on a connection *)

\* SendAll's first part on an empty stream, ReceiveFrame's first part.
LEMMA AppendOne == \A a : Append(<<>>, a) = <<a>>
OBVIOUS

\* SendAll's second part, ReceiveFrame's second part.
LEMMA AppendTwo == \A a, b : Append(<<a>>, b) = <<a, b>>
<1> SUFFICES ASSUME NEW a, NEW b PROVE Append(<<a>>, b) = <<a, b>>
  OBVIOUS
<1>1. <<a>> \in Seq({a, b}) /\ <<a, b>> \in Seq({a, b}) /\ Len(<<a, b>>) = 2
  OBVIOUS
<1>2. Append(<<a>>, b) \in Seq({a, b}) /\ Len(Append(<<a>>, b)) = 2
  BY <1>1
<1>3. \A i \in 1..2 : Append(<<a>>, b)[i] = <<a, b>>[i]
  BY <1>1
<1> QED BY <1>1, <1>2, <1>3, SeqEqual

\* Reading the only part of a stream.
LEMMA HeadTailOne == \A a : Head(<<a>>) = a /\ Tail(<<a>>) = <<>>
OBVIOUS

\* Reading the first of two parts of a stream.
LEMMA HeadTailTwo == \A a, b : Head(<<a, b>>) = a /\ Tail(<<a, b>>) = <<b>>
OBVIOUS

\* The server's read of a whole request frame leaves nothing.
LEMMA DropTwo == \A a, b : Len(<<a, b>>) = 2 /\ SubSeq(<<a, b>>, 3, 2) = <<>>
OBVIOUS

\* The server's write of a response frame to an empty stream.
LEMMA ConcatTwo == \A a, b : <<>> \o <<a, b>> = <<a, b>>
OBVIOUS

\* What is left of a one-part stream when the peer closes.
LEMMA PrefixOne == \A a, n : n \in 0..Len(<<a>>) => SubSeq(<<a>>, 1, n) \in {<<>>, <<a>>}
<1> SUFFICES ASSUME NEW a, NEW n \in 0..1 PROVE SubSeq(<<a>>, 1, n) \in {<<>>, <<a>>}
  OBVIOUS
<1>1. CASE n = 0
  BY <1>1
<1>2. CASE n = 1
  <2>1. <<a>> \in Seq({a}) /\ Len(<<a>>) = 1
    OBVIOUS
  <2>2. SubSeq(<<a>>, 1, Len(<<a>>)) = <<a>>
    BY <2>1, SubSeqFull
  <2> QED BY <1>2, <2>1, <2>2
<1> QED BY <1>1, <1>2

\* What is left of a two-part stream when the peer closes.
LEMMA PrefixTwo ==
    \A a, b, n : n \in 0..Len(<<a, b>>) => SubSeq(<<a, b>>, 1, n) \in {<<>>, <<a>>, <<a, b>>}
<1> SUFFICES ASSUME NEW a, NEW b, NEW n \in 0..2
             PROVE  SubSeq(<<a, b>>, 1, n) \in {<<>>, <<a>>, <<a, b>>}
  OBVIOUS
<1>1. CASE n = 0
  BY <1>1
<1>0. <<a, b>> \in Seq({a, b}) /\ Len(<<a, b>>) = 2 /\ <<a, b>>[1] = a
  OBVIOUS
<1>2. CASE n = 1
  <2> DEFINE p == SubSeq(<<a, b>>, 1, 1)
  <2>1. p \in Seq({a, b}) /\ Len(p) = 1 /\ p[1] = a
    <3>1. Len(p) = 1
      OBVIOUS
    <3>2. p[1] = <<a, b>>[1]
      OBVIOUS
    <3> QED BY <1>0, <3>1, <3>2, SubSeqProperties
  <2>2. <<a>> \in Seq({a, b}) /\ Len(<<a>>) = 1 /\ <<a>>[1] = a
    OBVIOUS
  <2> HIDE DEF p
  <2>3. p = <<a>>
    BY <2>1, <2>2, SeqEqual
  <2> QED BY <1>2, <2>3 DEF p
<1>3. CASE n = 2
  <2>1. SubSeq(<<a, b>>, 1, Len(<<a, b>>)) = <<a, b>>
    BY <1>0, SubSeqFull
  <2> QED BY <1>0, <1>3, <2>1
<1> QED BY <1>1, <1>2, <1>3

\* A thread that does nothing, whose connection is not touched and whose
\* request is not executed, keeps its part of the invariant.
LEMMA ThreadKept ==
    ASSUME NEW u \in Threads, ThreadOK(u), pc'[u] = pc[u], socket_fd'[u] = socket_fd[u],
           request_id'[u] = request_id[u], offset'[u] = offset[u], frame'[u] = frame[u],
           pc[u] \in Holding => /\ up'[socket_fd[u]] = up[socket_fd[u]]
                                /\ down'[socket_fd[u]] = down[socket_fd[u]]
                                /\ status'[socket_fd[u]] = status[socket_fd[u]],
           Active(u) => served'[request_id[u]] = served[request_id[u]]
    PROVE  ThreadOK(u)'
<1>1. pc[u] \in Holding => Active(u)
  BY DEF Holding, Active
<1>2. pc[u] \in {"borrow", "connect", "connecting", "send"} => Active(u)
  BY DEF Active
<1>3. ASSUME pc[u] \in Holding PROVE Exchange(u)'
  <2>1. Exchange(u)
    BY <1>3 DEF ThreadOK
  <2> QED BY <2>1, <1>1, <1>3 DEF Exchange
<1> QED BY <1>1, <1>2, <1>3 DEF ThreadOK

\* A step of thread t that keeps its connection and touches no other.
LEMMA OwnStep ==
    ASSUME Inv, NEW t \in Threads, pc[t] \in Holding, pc'[t] \in Holding,
           \A u \in Threads \ {t} :
               pc'[u] = pc[u] /\ offset'[u] = offset[u] /\ frame'[u] = frame[u],
           \A fd \in Fds \ {socket_fd[t]} :
               up'[fd] = up[fd] /\ down'[fd] = down[fd] /\ status'[fd] = status[fd],
           UNCHANGED <<idle_pool, socket_fd, argVars, resultVars, open, peer, orphans, served>>,
           ThreadOK(t)'
    PROVE  CallsOK'
<1>0. TypeOK /\ ArgsOK /\ OneOwner /\ CallsOK
  BY DEF Inv
<1>1. \A u \in Threads : Active(u)' <=> Active(u)
  BY DEF Active, Holding
<1>2. IdsOK' /\ OrphansOK'
  BY <1>0, <1>1 DEF CallsOK, IdsOK, OrphansOK, argVars, resultVars
<1>3. ResponseMatchesRequest' /\ AtMostOnce'
  BY <1>0 DEF CallsOK, ResponseMatchesRequest, AtMostOnce, resultVars
<1>4. RightEndpoint'
  BY <1>0 DEF CallsOK, RightEndpoint, argVars
<1>5. PoolQuiet'
  <2>1. \A e \in Endpoints : \A i \in DOMAIN idle_pool[e] :
          idle_pool[e][i] \in Fds /\ idle_pool[e][i] # socket_fd[t]
    BY <1>0 DEF OneOwner, HeldNotPooled, PooledOpen, TypeOK
  <2> QED BY <1>0, <2>1 DEF CallsOK, PoolQuiet
<1>6. ASSUME NEW u \in Threads \ {t} PROVE ThreadOK(u)'
  <2>1. pc[u] \in Holding => socket_fd[u] \in Fds /\ socket_fd[u] # socket_fd[t]
    BY <1>0, <1>6 DEF OneOwner, HeldOnce, ArgsOK
  <2> QED BY <1>0, <2>1, ThreadKept DEF CallsOK, ExchangeOK, argVars
<1> QED BY <1>2, <1>3, <1>4, <1>5, <1>6 DEF CallsOK, ExchangeOK

\* A step of thread t that changes nothing the other threads, the pool or the
\* server can see.
LEMMA PrivateStep ==
    ASSUME Inv, NEW t \in Threads, Active(t)', Active(t),
           \A u \in Threads \ {t} : pc'[u] = pc[u] /\ socket_fd'[u] = socket_fd[u],
           UNCHANGED <<idle_pool, argVars, ioVars, resultVars, kernelVars>>,
           ThreadOK(t)', pc'[t] \in Holding => peer[socket_fd'[t]] = endpoint[t]
    PROVE  CallsOK'
<1> USE DEF argVars, ioVars, resultVars, kernelVars, wireVars
<1>0. CallsOK
  BY DEF Inv
<1>1. \A u \in Threads : Active(u)' <=> Active(u)
  BY DEF Active
<1>2. IdsOK' /\ OrphansOK'
  BY <1>0, <1>1 DEF CallsOK, IdsOK, OrphansOK
<1>3. ResponseMatchesRequest' /\ AtMostOnce' /\ PoolQuiet'
  BY <1>0 DEF CallsOK, ResponseMatchesRequest, AtMostOnce, PoolQuiet
<1>4. RightEndpoint'
  BY <1>0 DEF CallsOK, RightEndpoint
<1>5. ASSUME NEW u \in Threads \ {t} PROVE ThreadOK(u)'
  BY <1>0, ThreadKept DEF CallsOK, ExchangeOK
<1> QED BY <1>2, <1>3, <1>4, <1>5 DEF CallsOK, ExchangeOK

\* Thread t's call returns: with an error, possibly leaving an unexecuted request
\* behind, or with the response to an executed request.
LEMMA FinishStep ==
    ASSUME Inv, NEW t \in Threads, Active(t), NEW r \in {"ok", "error"}, Finish(t, r),
           UNCHANGED <<argVars, served>>,
           orphans' = orphans \/ orphans' = orphans \cup {request_id[t]},
           orphans' # orphans => r = "error" /\ served[request_id[t]] = 0,
           r = "error" => reply' = reply,
           r = "ok" => /\ reply' = [reply EXCEPT ![request_id[t]] = frame[t]]
                       /\ served[request_id[t]] = 1
                       /\ frame[t] = <<Part(request_id[t], "length"), Part(request_id[t], "body")>>
    PROVE  IdsOK' /\ OrphansOK' /\ ResponseMatchesRequest' /\ AtMostOnce'
<1> DEFINE id == request_id[t]
<1>0. TypeOK /\ ArgsOK /\ CallsOK
  BY DEF Inv
<1>1. id \in Ids /\ id < next_request_id /\ outcome[id] = "pending" /\ id \notin orphans
  BY <1>0 DEF ArgsOK, CallsOK, IdsOK, OrphansOK
<1>2. /\ outcome'[id] = r /\ \A i \in Ids \ {id} : outcome'[i] = outcome[i]
      /\ UNCHANGED <<request_id, next_request_id, served>>
  BY <1>0, <1>1 DEF Finish, TypeOK, argVars
<1>3. \A u \in Threads : Active(u)' <=> (Active(u) /\ u # t)
  BY <1>0 DEF Finish, Goto, Active, TypeOK
<1>4. \A u \in Threads \ {t} : Active(u) => request_id[u] \in Ids \ {id}
  BY <1>0 DEF CallsOK, IdsOK, ArgsOK
<1>5. IdsOK'
  <2>1. \A i \in Ids : i >= next_request_id => i # id
    BY <1>0, <1>1, MaxCallsAssumption DEF TypeOK, Ids
  <2> HIDE DEF id
  <2> QED BY <1>0, <1>2, <1>3, <1>4, <2>1 DEF CallsOK, IdsOK
<1>6. OrphansOK'
  <2> SUFFICES ASSUME NEW i \in orphans' PROVE outcome'[i] = "error" /\ served'[i] = 0
    BY DEF OrphansOK
  <2>1. CASE i \in orphans
    BY <1>0, <1>1, <1>2, <2>1 DEF CallsOK, OrphansOK, TypeOK
  <2>2. CASE i \notin orphans
    BY <1>2, <2>2
  <2> QED BY <2>1, <2>2
<1>7. AtMostOnce'
  BY <1>0, <1>1, <1>2 DEF CallsOK, AtMostOnce
<1>8. ResponseMatchesRequest'
  <2> SUFFICES ASSUME NEW i \in Ids, outcome'[i] = "ok"
               PROVE  Len(reply'[i]) = FrameParts /\ \A k \in 1..FrameParts : reply'[i][k].id = i
    BY DEF ResponseMatchesRequest
  <2>1. CASE i = id
    <3>1. reply'[i] = <<Part(i, "length"), Part(i, "body")>>
      BY <1>0, <1>1, <1>2, <2>1 DEF TypeOK
    <3> QED BY <3>1 DEF FrameParts, Part
  <2>2. CASE i # id
    <3>1. reply'[i] = reply[i] /\ outcome[i] = "ok"
      BY <1>0, <1>2, <2>2 DEF TypeOK
    <3> QED BY <1>0, <3>1 DEF CallsOK, ResponseMatchesRequest
  <2> QED BY <2>1, <2>2
<1> QED BY <1>5, <1>6, <1>7, <1>8

\* When the descriptor of an active thread is closed, at most its own request
\* is left behind, and only if it has not been executed.
LEMMA CloseLeavesOwn ==
    ASSUME Inv, NEW t \in Threads, pc[t] \in {"connecting", "fail", "return"},
           CloseSockets({socket_fd[t]})
    PROVE  /\ orphans' = orphans \/ orphans' = orphans \cup {request_id[t]}
           /\ orphans' # orphans => pc[t] = "fail" /\ served[request_id[t]] = 0
<1> DEFINE fd == socket_fd[t]
           id == request_id[t]
<1>1. ThreadOK(t)
  BY DEF Inv, CallsOK, ExchangeOK
<1>2. \/ up[fd] = <<>>
      \/ up[fd] = <<Part(id, "length")>>
      \/ up[fd] = RequestFrame(id) /\ pc[t] = "fail" /\ served[id] = 0
  BY <1>1 DEF ThreadOK, Exchange, Holding
<1>3. orphans' = orphans \cup DeliveredIds(fd)
  BY DEF CloseSockets
<1>4. CASE up[fd] = <<>> \/ up[fd] = <<Part(id, "length")>>
  <2>1. DeliveredIds(fd) = {}
    BY <1>4 DEF DeliveredIds, FrameParts
  <2> QED BY <1>3, <2>1
<1>5. CASE up[fd] = RequestFrame(id) /\ pc[t] = "fail" /\ served[id] = 0
  <2>1. DeliveredIds(fd) = {id}
    BY <1>5 DEF DeliveredIds, FrameParts, RequestFrame, Part
  <2> QED BY <1>3, <1>5, <2>1
<1> QED BY <1>2, <1>4, <1>5

\* Thread t closes the connection it holds and its call returns r.
LEMMA CloseAndFinish ==
    ASSUME Inv, NEW t \in Threads, pc[t] \in {"connecting", "fail", "return"},
           CloseSockets({socket_fd[t]}), NEW r \in {"ok", "error"}, Finish(t, r),
           UNCHANGED <<idle_pool, argVars, socket_fd, ioVars, served>>,
           r = "error" => reply' = reply,
           r = "ok" => pc[t] = "return" /\ reply' = [reply EXCEPT ![request_id[t]] = frame[t]]
    PROVE  CallsOK'
<1> DEFINE fd == socket_fd[t]
<1>0. TypeOK /\ ArgsOK /\ OneOwner /\ CallsOK
  BY DEF Inv
<1>1. pc[t] \in Holding /\ Active(t) /\ fd \in Fds
  BY <1>0 DEF Holding, Active, ArgsOK
<1>2. pc[t] = "return" =>
        /\ served[request_id[t]] = 1
        /\ frame[t] = <<Part(request_id[t], "length"), Part(request_id[t], "body")>>
  BY <1>0, <1>1 DEF CallsOK, ExchangeOK, ThreadOK, Exchange
<1>3. orphans' # orphans => r = "error" /\ served[request_id[t]] = 0
  BY CloseLeavesOwn
<1>4. IdsOK' /\ OrphansOK' /\ ResponseMatchesRequest' /\ AtMostOnce'
  BY <1>1, <1>2, <1>3, CloseLeavesOwn, FinishStep
<1>5. /\ pc'[t] = "idle" /\ \A u \in Threads \ {t} : pc'[u] = pc[u]
      /\ \A d \in Fds \ {fd} : /\ peer'[d] = peer[d] /\ up'[d] = up[d]
                               /\ down'[d] = down[d] /\ status'[d] = status[d]
  BY <1>0 DEF Finish, Goto, TypeOK, CloseSockets, NewConns
<1>6. \A e \in Endpoints : \A i \in DOMAIN idle_pool[e] : idle_pool[e][i] \in Fds \ {fd}
  BY <1>0, <1>1 DEF OneOwner, HeldNotPooled, PooledOpen, TypeOK
<1>7. PoolQuiet'
  BY <1>0, <1>5, <1>6 DEF CallsOK, PoolQuiet
<1>8. \A u \in Threads \ {t} : pc[u] \in Holding => socket_fd[u] \in Fds \ {fd}
  BY <1>0, <1>1 DEF OneOwner, HeldOnce, ArgsOK
<1>9. RightEndpoint'
  BY <1>0, <1>5, <1>8 DEF CallsOK, RightEndpoint, Holding, argVars
<1>10. ThreadOK(t)'
  BY <1>5 DEF ThreadOK, Holding
<1>11. ASSUME NEW u \in Threads \ {t} PROVE ThreadOK(u)'
  BY <1>0, <1>5, <1>8, ThreadKept DEF CallsOK, ExchangeOK, argVars, ioVars
<1> QED BY <1>4, <1>7, <1>9, <1>10, <1>11 DEF CallsOK, ExchangeOK

\* The server executes the request of a round trip that waits for the response, or
\* that has failed and is about to close its socket.
ServedFor(t, fd) ==
    /\ pc[t] \in Holding /\ socket_fd[t] = fd
    /\ up[fd] = RequestFrame(request_id[t]) /\ served[request_id[t]] = 0
    /\ pc[t] \in {"recv_length", "fail"} /\ (pc[t] = "recv_length" => down[fd] = <<>>)
\* A request that the server can read whole is that of one thread in RoundTrip.
LEMMA ServesARoundTrip ==
    ASSUME Inv, NEW fd \in Fds, Serve(fd)
    PROVE  \E t \in Threads : ServedFor(t, fd)
<1>0. TypeOK /\ ArgsOK /\ OneOwner /\ CallsOK
  BY DEF Inv
<1>1. fd \in open /\ Len(up[fd]) >= 2 /\ status[fd] = "open"
  BY DEF Serve, FrameParts
<1>2. \A e \in Endpoints : \A i \in DOMAIN idle_pool[e] : idle_pool[e][i] # fd
  <2>1. \A e \in Endpoints : \A i \in DOMAIN idle_pool[e] : Len(up[idle_pool[e][i]]) = 0
    BY <1>0 DEF CallsOK, PoolQuiet
  <2> QED BY <1>1, <2>1
<1>3. PICK t \in Threads : pc[t] \in Holding /\ socket_fd[t] = fd
  BY <1>0, <1>1, <1>2 DEF OneOwner, OpenOwned, Holds, Pooled
<1> DEFINE id == request_id[t]
<1>4. /\ up[fd] = RequestFrame(id) /\ served[id] = 0 /\ pc[t] \in {"recv_length", "fail"}
      /\ pc[t] = "recv_length" => down[fd] = <<>>
  <2>1. Exchange(t)
    BY <1>0, <1>3 DEF CallsOK, ExchangeOK, ThreadOK
  <2>2. up[fd] # <<>> /\ up[fd] # <<Part(id, "length")>>
    <3>1. Len(<<>>) = 0 /\ \A x : Len(<<x>>) = 1
      OBVIOUS
    <3>2. ~(0 >= 2) /\ ~(1 >= 2)
      OBVIOUS
    <3>3. up[fd] # <<>>
      BY ONLY <1>1, <3>1, <3>2
    <3>4. up[fd] # <<Part(id, "length")>>
      BY ONLY <1>1, <3>1, <3>2
    <3> QED BY <3>3, <3>4
  <2>3. /\ up[fd] = RequestFrame(id) /\ served[id] = 0
        /\ pc[t] \in {"recv_length", "fail"}
    <3>1. CASE pc[t] = "connecting"
      BY <1>3, <2>1, <2>2, <3>1 DEF Exchange
    <3>2. CASE pc[t] = "send"
      BY <1>3, <2>1, <2>2, <3>2 DEF Exchange
    <3>3. CASE pc[t] \in {"recv_body", "return"}
      BY <1>3, <2>1, <2>2, <3>3 DEF Exchange
    <3>4. CASE pc[t] = "recv_length"
      BY <1>1, <1>3, <2>1, <2>2, <3>4 DEF Exchange
    <3>5. CASE pc[t] = "fail"
      BY <1>3, <2>1, <2>2, <3>5 DEF Exchange
    <3> QED BY <1>3, <3>1, <3>2, <3>3, <3>4, <3>5 DEF Holding
  <2>4. ASSUME pc[t] = "recv_length" PROVE down[fd] = <<>>
    BY <1>1, <1>3, <2>1, <2>2, <2>4 DEF Exchange
  <2> QED BY <2>3, <2>4
<1> QED BY <1>3, <1>4 DEF ServedFor

\* Before the first call there is no exchange to describe.
LEMMA CallsInit == Init => CallsOK
BY DEF Init, CallsOK, RightEndpoint, IdsOK, OrphansOK, PoolQuiet, ExchangeOK, ThreadOK, Holding,
       ResponseMatchesRequest, AtMostOnce, Active

\* Every step keeps the description of the exchange on each borrowed connection,
\* and with it the properties of the calls.
LEMMA CallsStep == Inv /\ [Next]_vars => CallsOK'
<1> SUFFICES ASSUME Inv, [Next]_vars PROVE CallsOK'
  OBVIOUS
<1> USE DEF Goto
<1>0. TypeOK /\ ArgsOK /\ OneOwner /\ CallsOK
  BY DEF Inv
<1>1. ASSUME NEW t \in Threads, NEW e \in Endpoints, Call(t, e) PROVE CallsOK'
  <2>1. next_request_id \in Ids /\ pc[t] = "idle" /\ ~Active(t)
    BY <1>1, <1>0, MaxCallsAssumption DEF Call, TypeOK, Ids, Active
  <2>2. IdsOK'
    BY <1>1, <1>0, <2>1, MaxCallsAssumption DEF Call, TypeOK, CallsOK, IdsOK, Active, kernelVars, Ids
  <2>3. OrphansOK'
    BY <1>1, <1>0, <2>1 DEF Call, TypeOK, CallsOK, IdsOK, OrphansOK, kernelVars
  <2>4. PoolQuiet'
    BY <1>1, <1>0 DEF Call, CallsOK, PoolQuiet, poolVars, kernelVars, wireVars
  <2>5. RightEndpoint'
    BY <1>1, <1>0 DEF Call, TypeOK, CallsOK, RightEndpoint, kernelVars, wireVars, Holding
  <2>6. ExchangeOK'
    <3>1. ThreadOK(t)'
      BY <1>1, <1>0, <2>1 DEF Call, TypeOK, CallsOK, IdsOK, ThreadOK, kernelVars, Holding
    <3>2. ASSUME NEW u \in Threads \ {t} PROVE ThreadOK(u)'
      BY <1>1, <1>0, <3>2, ThreadKept DEF Call, TypeOK, CallsOK, ExchangeOK, kernelVars, wireVars
    <3> QED BY <3>1, <3>2 DEF ExchangeOK
  <2>7. ResponseMatchesRequest' /\ AtMostOnce'
    BY <1>1, <1>0, <2>1 DEF Call, TypeOK, CallsOK, ResponseMatchesRequest, AtMostOnce, kernelVars
  <2> QED BY <2>2, <2>3, <2>4, <2>5, <2>6, <2>7 DEF CallsOK
<1>2. ASSUME NEW t \in Threads, ConnectSucceeds(t) PROVE CallsOK'
  <2>1. ThreadOK(t)'
    BY <1>2, <1>0 DEF ConnectSucceeds, TypeOK, ArgsOK, CallsOK, ExchangeOK, ThreadOK, Exchange, Holding,
           argVars, ioVars, kernelVars, wireVars
  <2> QED BY <1>2, <1>0, <2>1, OwnStep DEF ConnectSucceeds, TypeOK, ioVars, kernelVars, wireVars, Holding
<1>3. ASSUME NEW t \in Threads, SendPart(t) PROVE CallsOK'
  <2> DEFINE fd == socket_fd[t]
             id == request_id[t]
  <2>1. fd \in Fds /\ id \in Ids /\ offset[t] \in {0, 1} /\ pc[t] = "send"
    BY <1>3, <1>0 DEF SendPart, ArgsOK, TypeOK, Active, Holding, FrameParts
  <2>2. /\ down[fd] = <<>> /\ served[id] = 0
        /\ \/ up[fd] = <<>> /\ (offset[t] = 0 \/ status[fd] # "open")
           \/ up[fd] = <<Part(id, "length")>> /\ offset[t] = 1 /\ status[fd] = "open"
    BY <1>0, <2>1 DEF CallsOK, ExchangeOK, ThreadOK, Exchange, Holding
  <2>3. socket_fd' = socket_fd /\ request_id' = request_id /\ down' = down /\ served' = served
    BY <1>3 DEF SendPart, argVars
  <2> DEFINE part == RequestFrame(id)[offset[t] + 1]
  <2> HIDE DEF part
  <2>7. \/ status[fd] = "open" /\ status'[fd] = "open" /\ up'[fd] = Append(up[fd], part)
        \/ status[fd] = "closed" /\ status'[fd] = "reset" /\ up'[fd] = up[fd]
    BY <1>3, <1>0, <2>1 DEF SendPart, TypeOK, part
  <2>4. ASSUME offset[t] = 0 PROVE ThreadOK(t)'
    <3>1. pc'[t] = "send" /\ offset'[t] = 1
      BY <1>3, <1>0, <2>4 DEF SendPart, FrameParts, TypeOK
    <3>2. part = Part(id, "length")
      BY <2>4 DEF part, RequestFrame
    <3>3. \/ up'[fd] = <<Part(id, "length")>> /\ status'[fd] = "open"
          \/ up'[fd] = <<>> /\ status'[fd] # "open"
      BY <2>2, <2>4, <2>7, <3>2, AppendOne
    <3> QED BY <2>2, <2>3, <3>1, <3>3 DEF ThreadOK, Exchange
  <2>5. ASSUME offset[t] = 1 PROVE ThreadOK(t)'
    <3>1. pc'[t] = "recv_length"
      BY <1>3, <1>0, <2>5 DEF SendPart, FrameParts, TypeOK
    <3>2. part = Part(id, "body")
      BY <2>5 DEF part, RequestFrame
    <3>3. \/ up'[fd] = RequestFrame(id)
          \/ up'[fd] = <<>> /\ status'[fd] # "open"
      <4>1. CASE status[fd] = "open"
        <5>1. up[fd] = <<Part(id, "length")>>
          BY <2>2, <2>5, <4>1
        <5>2. up'[fd] = Append(<<Part(id, "length")>>, Part(id, "body"))
          BY <2>7, <3>2, <4>1, <5>1
        <5>3. up'[fd] = <<Part(id, "length"), Part(id, "body")>>
          BY <5>2, AppendTwo
        <5> QED BY <5>3 DEF RequestFrame
      <4>2. CASE status[fd] # "open"
        BY <2>2, <2>5, <2>7, <4>2
      <4> QED BY <4>1, <4>2
    <3> QED BY <2>2, <2>3, <3>1, <3>3 DEF ThreadOK, Exchange
  <2>6. ThreadOK(t)'
    BY <2>1, <2>4, <2>5
  <2> QED BY <1>3, <1>0, <2>1, <2>6, OwnStep DEF SendPart, TypeOK, poolVars, Holding
<1>4. ASSUME NEW t \in Threads, SendFails(t) \/ RecvFails(t) PROVE CallsOK'
  <2>1. /\ pc[t] \in {"send", "recv_length", "recv_body"} /\ pc'[t] = "fail"
        /\ UNCHANGED <<socket_fd, request_id, up, served>>
    BY <1>4, <1>0 DEF SendFails, RecvFails, TypeOK, argVars, kernelVars, wireVars
  <2>2. ThreadOK(t)
    BY <1>0 DEF CallsOK, ExchangeOK
  <2>3. ThreadOK(t)'
    BY <2>1, <2>2 DEF ThreadOK, Exchange, Holding
  <2> QED BY <1>4, <1>0, <2>1, <2>3, OwnStep DEF SendFails, RecvFails, TypeOK, poolVars, ioVars,
         kernelVars, wireVars, Holding
<1>5. ASSUME NEW t \in Threads, RecvLength(t) \/ RecvLengthInvalid(t) PROVE CallsOK'
  <2> DEFINE fd == socket_fd[t]
             id == request_id[t]
  <2>1. /\ pc[t] = "recv_length" /\ fd \in Fds /\ down[fd] # <<>>
        /\ socket_fd' = socket_fd /\ request_id' = request_id /\ up' = up /\ served' = served
        /\ down'[fd] = Tail(down[fd])
    BY <1>5, <1>0 DEF RecvLength, RecvLengthInvalid, ArgsOK, TypeOK, Holding, argVars
  <2>2. /\ up[fd] = <<>> /\ served[id] = 1
        /\ \E len \in {"length", "oversized"} :
             down[fd] = <<Part(id, len), Part(id, "body")>> \/ down[fd] = <<Part(id, len)>>
    BY <1>0, <2>1 DEF CallsOK, ExchangeOK, ThreadOK, Exchange, Holding
  <2>3. PICK len \in {"length", "oversized"} :
             down[fd] = <<Part(id, len), Part(id, "body")>> \/ down[fd] = <<Part(id, len)>>
    BY <2>2
  <2>4. Head(down[fd]) = Part(id, len) /\ down'[fd] \in {<<>>, <<Part(id, "body")>>}
    BY <2>1, <2>3, HeadTailOne, HeadTailTwo
  <2>5. ASSUME RecvLength(t) PROVE ThreadOK(t)'
    <3>1. len = "length"
      BY <2>4, <2>5 DEF RecvLength, Part
    <3>2. pc'[t] = "recv_body" /\ frame'[t] = <<Part(id, "length")>>
      BY <1>0, <2>4, <2>5, <3>1 DEF RecvLength, TypeOK
    <3> QED BY <2>1, <2>2, <2>4, <3>2 DEF ThreadOK, Exchange
  <2>6. ASSUME RecvLengthInvalid(t) PROVE ThreadOK(t)'
    <3>1. pc'[t] = "fail"
      BY <1>0, <2>6 DEF RecvLengthInvalid, TypeOK
    <3> QED BY <2>1, <2>2, <3>1 DEF ThreadOK, Exchange
  <2> QED BY <1>5, <1>0, <2>1, <2>5, <2>6, OwnStep DEF RecvLength, RecvLengthInvalid, TypeOK,
         poolVars, ioVars, Holding
<1>6. ASSUME NEW t \in Threads, RecvBody(t) PROVE CallsOK'
  <2> DEFINE fd == socket_fd[t]
             id == request_id[t]
  <2>1. /\ pc[t] = "recv_body" /\ fd \in Fds /\ down[fd] # <<>> /\ pc'[t] = "return"
        /\ socket_fd' = socket_fd /\ request_id' = request_id /\ up' = up /\ served' = served
        /\ down'[fd] = Tail(down[fd]) /\ frame'[t] = Append(frame[t], Head(down[fd]))
    BY <1>6, <1>0 DEF RecvBody, ArgsOK, TypeOK, Holding, argVars
  <2>2. /\ up[fd] = <<>> /\ served[id] = 1 /\ frame[t] = <<Part(id, "length")>>
        /\ down[fd] = <<Part(id, "body")>>
    BY <1>0, <2>1 DEF CallsOK, ExchangeOK, ThreadOK, Exchange, Holding
  <2>3. down'[fd] = <<>> /\ frame'[t] = <<Part(id, "length"), Part(id, "body")>>
    BY <2>1, <2>2, HeadTailOne, AppendTwo
  <2>4. ThreadOK(t)'
    BY <2>1, <2>2, <2>3 DEF ThreadOK, Exchange
  <2> QED BY <1>6, <1>0, <2>1, <2>4, OwnStep DEF RecvBody, TypeOK, poolVars, Holding
<1>7. ASSUME NEW t \in Threads, BorrowMiss(t) PROVE CallsOK'
  <2>1. pc[t] = "borrow" /\ pc'[t] = "connect" /\ request_id' = request_id /\ served' = served
    BY <1>7, <1>0 DEF BorrowMiss, TypeOK, argVars, kernelVars
  <2>2. ThreadOK(t)'
    BY <1>0, <2>1 DEF CallsOK, ExchangeOK, ThreadOK, Holding
  <2> QED BY <1>7, <1>0, <2>1, <2>2, PrivateStep DEF BorrowMiss, TypeOK, poolVars, Active, Holding
<1>8. ASSUME NEW t \in Threads, SendBrokenPipe(t) PROVE CallsOK'
  <2>1. ThreadOK(t)' /\ Active(t) /\ Active(t)'
    BY <1>8, <1>0 DEF SendBrokenPipe, CallsOK, ExchangeOK, ThreadOK, Exchange, Active, argVars,
           ioVars, kernelVars, wireVars
  <2> QED BY <1>8, <1>0, <2>1, PrivateStep DEF SendBrokenPipe, poolVars, CallsOK, RightEndpoint
<1>9. ASSUME NEW t \in Threads, PopIdle(t)
      PROVE  /\ pc[t] = "borrow" /\ endpoint[t] \in Endpoints /\ LastIdle(t) \in Fds
             /\ up[LastIdle(t)] = <<>> /\ down[LastIdle(t)] = <<>>
             /\ peer[LastIdle(t)] = endpoint[t]
             /\ \A u \in Threads : pc[u] \in Holding => socket_fd[u] # LastIdle(t)
             /\ \A f \in Endpoints : \A i \in DOMAIN idle_pool'[f] :
                  i \in DOMAIN idle_pool[f] /\ idle_pool'[f][i] = idle_pool[f][i]
             /\ \A f \in Endpoints : \A i \in DOMAIN idle_pool'[f] :
                  idle_pool'[f][i] # LastIdle(t)
  <2> DEFINE e == endpoint[t]
             n == Len(idle_pool[e])
  <2>1. pc[t] = "borrow" /\ e \in Endpoints /\ idle_pool[e] \in Seq(Fds) /\ idle_pool[e] # <<>>
    BY <1>9, <1>0 DEF PopIdle, ArgsOK, Active, TypeOK
  <2>2. n \in DOMAIN idle_pool[e] /\ n \in Nat /\ LastIdle(t) = idle_pool[e][n]
        /\ DOMAIN idle_pool[e] = 1..n
    BY <2>1, PopBack DEF LastIdle
  <2>3. /\ LastIdle(t) \in Fds /\ up[LastIdle(t)] = <<>> /\ down[LastIdle(t)] = <<>>
        /\ peer[LastIdle(t)] = e
    BY <1>0, <2>1, <2>2 DEF CallsOK, PoolQuiet, OneOwner, PooledOpen, TypeOK
  <2>4. \A u \in Threads : pc[u] \in Holding => socket_fd[u] # LastIdle(t)
    BY <1>0, <2>1, <2>2 DEF OneOwner, HeldNotPooled
  <2>5. /\ DOMAIN idle_pool'[e] = 1..(n - 1)
        /\ \A i \in 1..(n - 1) : idle_pool'[e][i] = idle_pool[e][i]
        /\ \A f \in Endpoints : f # e => idle_pool'[f] = idle_pool[f]
    <3>1. idle_pool' = [idle_pool EXCEPT ![e] = SubSeq(idle_pool[e], 1, n - 1)]
      BY <1>9 DEF PopIdle
    <3>2. /\ idle_pool'[e] = SubSeq(idle_pool[e], 1, n - 1)
          /\ \A f \in Endpoints : f # e => idle_pool'[f] = idle_pool[f]
      BY <1>0, <2>1, <3>1 DEF TypeOK
    <3> QED BY <2>1, <3>2, PopBack
  <2> HIDE DEF n, e
  <2>6. \A f \in Endpoints : \A i \in DOMAIN idle_pool'[f] :
          i \in DOMAIN idle_pool[f] /\ idle_pool'[f][i] = idle_pool[f][i] /\ (f = e => i # n)
    BY <2>2, <2>5
  <2>7. \A f \in Endpoints : \A i \in DOMAIN idle_pool'[f] : idle_pool'[f][i] # LastIdle(t)
    BY <1>0, <2>1, <2>2, <2>6 DEF OneOwner, PooledOnce
  <2> QED BY <2>1, <2>3, <2>4, <2>6, <2>7 DEF e
<1>10. ASSUME NEW t \in Threads, BorrowReuse(t) PROVE CallsOK'
  <2>1. PopIdle(t)
    BY <1>10 DEF BorrowReuse
  <2> HIDE DEF PopIdle
  <2>2. /\ pc'[t] = "send" /\ socket_fd'[t] = LastIdle(t) /\ offset[t] = 0
        /\ UNCHANGED <<argVars, ioVars, resultVars, kernelVars>>
        /\ \A u \in Threads \ {t} : pc'[u] = pc[u] /\ socket_fd'[u] = socket_fd[u]
    BY <1>10, <1>9, <1>0, <2>1 DEF BorrowReuse, TypeOK, ArgsOK
  <2> USE DEF argVars, ioVars, resultVars, kernelVars, wireVars
  <2>3. \A u \in Threads : Active(u)' <=> Active(u)
    BY <2>1, <2>2, <1>9 DEF Active
  <2>4. IdsOK' /\ OrphansOK' /\ ResponseMatchesRequest' /\ AtMostOnce'
    BY <1>0, <2>2, <2>3 DEF CallsOK, IdsOK, OrphansOK, ResponseMatchesRequest, AtMostOnce
  <2>5. PoolQuiet'
    BY <1>0, <1>9, <2>1, <2>2 DEF CallsOK, PoolQuiet
  <2>6. RightEndpoint'
    BY <1>0, <1>9, <2>1, <2>2 DEF CallsOK, RightEndpoint
  <2>7. ThreadOK(t)'
    <3>1. served[request_id[t]] = 0
      BY <1>0, <1>9, <2>1 DEF CallsOK, ExchangeOK, ThreadOK
    <3> QED BY <1>9, <2>1, <2>2, <3>1 DEF ThreadOK, Exchange
  <2>8. ASSUME NEW u \in Threads \ {t} PROVE ThreadOK(u)'
    BY <1>0, <2>2, ThreadKept DEF CallsOK, ExchangeOK
  <2> QED BY <2>4, <2>5, <2>6, <2>7, <2>8 DEF CallsOK, ExchangeOK
<1>11. ASSUME NEW t \in Threads, BorrowConfigureFails(t) \/ BorrowBlockingModeFails(t)
       PROVE  CallsOK'
  <2> DEFINE fd == LastIdle(t)
  <2>1. PopIdle(t) /\ CloseSockets({fd})
    BY <1>11 DEF BorrowConfigureFails, BorrowBlockingModeFails, CloseSocket
  <2>2. /\ pc[t] = "borrow" /\ pc'[t] = "connect"
        /\ UNCHANGED <<argVars, socket_fd, ioVars, resultVars, served>>
        /\ \A u \in Threads \ {t} : pc'[u] = pc[u]
    BY <1>11, <1>9, <1>0, <2>1 DEF BorrowConfigureFails, BorrowBlockingModeFails, TypeOK
  <2>3. DeliveredIds(fd) = {}
    BY <1>9, <2>1 DEF DeliveredIds, FrameParts
  <2>4. orphans' = orphans
    BY <2>1, <2>3 DEF CloseSockets
  <2>5. \A d \in Fds \ {fd} : /\ peer'[d] = peer[d] /\ up'[d] = up[d]
                              /\ down'[d] = down[d] /\ status'[d] = status[d]
    BY <2>1 DEF CloseSockets, NewConns
  <2> HIDE DEF fd
  <2> USE DEF argVars, ioVars, resultVars
  <2>6. \A u \in Threads : Active(u)' <=> Active(u)
    BY <2>2 DEF Active
  <2>7. IdsOK' /\ OrphansOK' /\ ResponseMatchesRequest' /\ AtMostOnce'
    BY <1>0, <2>2, <2>4, <2>6 DEF CallsOK, IdsOK, OrphansOK, ResponseMatchesRequest, AtMostOnce
  <2>8. \A f \in Endpoints : \A i \in DOMAIN idle_pool'[f] :
          /\ i \in DOMAIN idle_pool[f] /\ idle_pool'[f][i] = idle_pool[f][i]
          /\ idle_pool[f][i] \in Fds \ {fd}
    BY <1>0, <1>9, <2>1 DEF fd, OneOwner, PooledOpen, TypeOK
  <2>9. PoolQuiet'
    BY <1>0, <2>5, <2>8 DEF CallsOK, PoolQuiet
  <2>10. \A u \in Threads : pc[u] \in Holding => socket_fd[u] \in Fds \ {fd}
    BY <1>0, <1>9, <2>1 DEF fd, ArgsOK
  <2>11. RightEndpoint'
    BY <1>0, <2>2, <2>5, <2>10 DEF CallsOK, RightEndpoint, Holding
  <2>12. ThreadOK(t)'
    BY <1>0, <2>2 DEF CallsOK, ExchangeOK, ThreadOK, Holding
  <2>13. ASSUME NEW u \in Threads \ {t} PROVE ThreadOK(u)'
    BY <1>0, <2>2, <2>5, <2>10, ThreadKept DEF CallsOK, ExchangeOK
  <2> QED BY <2>7, <2>9, <2>11, <2>12, <2>13 DEF CallsOK, ExchangeOK
<1>12. ASSUME NEW t \in Threads, OpenSocket(t) PROVE CallsOK'
  <2>1. PICK fd \in Fds \ open : /\ open' = open \cup {fd} /\ NewConns({fd}, endpoint[t])
                                 /\ socket_fd' = [socket_fd EXCEPT ![t] = fd]
    BY <1>12 DEF OpenSocket
  <2>2. /\ pc[t] = "connect" /\ pc'[t] = "connecting" /\ socket_fd'[t] = fd
        /\ UNCHANGED <<idle_pool, argVars, ioVars, resultVars, orphans, served>>
        /\ \A u \in Threads \ {t} : pc'[u] = pc[u] /\ socket_fd'[u] = socket_fd[u]
    BY <1>12, <1>0, <2>1 DEF OpenSocket, TypeOK, poolVars
  <2>3. /\ up'[fd] = <<>> /\ down'[fd] = <<>> /\ peer'[fd] = endpoint[t]
        /\ \A d \in Fds \ {fd} : /\ peer'[d] = peer[d] /\ up'[d] = up[d]
                                 /\ down'[d] = down[d] /\ status'[d] = status[d]
    BY <2>1 DEF NewConns
  <2> USE DEF argVars, ioVars, resultVars
  <2>4. \A u \in Threads : Active(u)' <=> Active(u)
    BY <2>2 DEF Active
  <2>5. IdsOK' /\ OrphansOK' /\ ResponseMatchesRequest' /\ AtMostOnce'
    BY <1>0, <2>2, <2>4 DEF CallsOK, IdsOK, OrphansOK, ResponseMatchesRequest, AtMostOnce
  <2>6. \A e \in Endpoints : \A i \in DOMAIN idle_pool[e] : idle_pool[e][i] \in Fds \ {fd}
    BY <1>0, <2>1 DEF OneOwner, PooledOpen, TypeOK
  <2>7. PoolQuiet'
    BY <1>0, <2>2, <2>3, <2>6 DEF CallsOK, PoolQuiet
  <2>8. \A u \in Threads : pc[u] \in Holding => socket_fd[u] \in Fds \ {fd}
    BY <1>0, <2>1 DEF OneOwner, HeldOpen, TypeOK
  <2>9. RightEndpoint'
    BY <1>0, <2>2, <2>3, <2>8 DEF CallsOK, RightEndpoint
  <2>10. ThreadOK(t)'
    BY <1>0, <2>2, <2>3 DEF CallsOK, ExchangeOK, ThreadOK, Exchange, Holding
  <2>11. ASSUME NEW u \in Threads \ {t} PROVE ThreadOK(u)'
    BY <1>0, <2>2, <2>3, <2>8, ThreadKept DEF CallsOK, ExchangeOK
  <2> QED BY <2>5, <2>7, <2>9, <2>10, <2>11 DEF CallsOK, ExchangeOK
<1>13. ASSUME NEW t \in Threads, ConnectFails(t) \/ CloseAfterFailure(t) PROVE CallsOK'
  BY <1>13, CloseAndFinish DEF ConnectFails, CloseAfterFailure, CloseSocket, poolVars
<1>14. ASSUME NEW t \in Threads, OpenSocketFails(t) PROVE CallsOK'
  <2> USE DEF argVars, ioVars, kernelVars, wireVars
  <2>1. Active(t) /\ orphans' = orphans /\ Finish(t, "error")
    BY <1>14 DEF OpenSocketFails, Active
  <2>2. IdsOK' /\ OrphansOK' /\ ResponseMatchesRequest' /\ AtMostOnce'
    BY <1>14, <2>1, FinishStep DEF OpenSocketFails
  <2>3. pc'[t] = "idle" /\ \A u \in Threads \ {t} : pc'[u] = pc[u]
    BY <1>0, <2>1 DEF Finish, TypeOK
  <2>4. PoolQuiet' /\ RightEndpoint'
    BY <1>14, <1>0, <2>3 DEF OpenSocketFails, CallsOK, PoolQuiet, RightEndpoint, Holding
  <2>5. ThreadOK(t)'
    BY <2>3 DEF ThreadOK, Holding
  <2>6. ASSUME NEW u \in Threads \ {t} PROVE ThreadOK(u)'
    BY <1>14, <1>0, <2>3, ThreadKept DEF OpenSocketFails, CallsOK, ExchangeOK
  <2> QED BY <2>2, <2>4, <2>5, <2>6 DEF CallsOK, ExchangeOK
<1>15. ASSUME NEW t \in Threads, ReturnConnection(t) PROVE CallsOK'
  <2> DEFINE e == endpoint[t]
             fd == socket_fd[t]
  <2>1. /\ pc[t] = "return" /\ e \in Endpoints /\ fd \in Fds /\ idle_pool[e] \in Seq(Fds)
        /\ Finish(t, "ok") /\ reply' = [reply EXCEPT ![request_id[t]] = frame[t]]
        /\ UNCHANGED <<argVars, socket_fd, ioVars, served>>
    BY <1>15, <1>0 DEF ReturnConnection, ArgsOK, TypeOK, Active, Holding
  <2>2. CASE CloseSocket(fd) /\ UNCHANGED idle_pool
    BY <2>1, <2>2, CloseAndFinish DEF CloseSocket
  <2>3. CASE /\ idle_pool' = [idle_pool EXCEPT ![e] = Append(@, fd)]
             /\ UNCHANGED <<open, wireVars, orphans>>
    <3> USE DEF argVars, ioVars, wireVars
    <3>1. /\ up[fd] = <<>> /\ down[fd] = <<>> /\ served[request_id[t]] = 1
          /\ frame[t] = <<Part(request_id[t], "length"), Part(request_id[t], "body")>>
          /\ peer[fd] = e
      BY <1>0, <2>1 DEF CallsOK, ExchangeOK, ThreadOK, Exchange, RightEndpoint, Holding
    <3>2. IdsOK' /\ OrphansOK' /\ ResponseMatchesRequest' /\ AtMostOnce'
      BY <2>1, <2>3, <3>1, FinishStep DEF Active
    <3>3. pc'[t] = "idle" /\ \A u \in Threads \ {t} : pc'[u] = pc[u]
      BY <1>0, <2>1 DEF Finish, TypeOK
    <3>4. \A f \in Endpoints : \A i \in DOMAIN idle_pool'[f] :
            \/ i \in DOMAIN idle_pool[f] /\ idle_pool'[f][i] = idle_pool[f][i]
            \/ f = e /\ idle_pool'[f][i] = fd
      <4>1. /\ idle_pool'[e] = Append(idle_pool[e], fd)
            /\ \A f \in Endpoints : f # e => idle_pool'[f] = idle_pool[f]
        BY <1>0, <2>1, <2>3 DEF TypeOK
      <4>2. \A i \in DOMAIN Append(idle_pool[e], fd) :
              \/ i \in DOMAIN idle_pool[e] /\ Append(idle_pool[e], fd)[i] = idle_pool[e][i]
              \/ Append(idle_pool[e], fd)[i] = fd
        BY <2>1
      <4> QED BY <4>1, <4>2
    <3>5. PoolQuiet'
      BY <1>0, <2>3, <3>1, <3>4 DEF CallsOK, PoolQuiet
    <3>6. RightEndpoint'
      BY <1>0, <2>1, <2>3, <3>3 DEF CallsOK, RightEndpoint, Holding
    <3>7. ThreadOK(t)'
      BY <3>3 DEF ThreadOK, Holding
    <3>8. ASSUME NEW u \in Threads \ {t} PROVE ThreadOK(u)'
      BY <1>0, <2>1, <2>3, <3>3, ThreadKept DEF CallsOK, ExchangeOK
    <3> QED BY <3>2, <3>5, <3>6, <3>7, <3>8 DEF CallsOK, ExchangeOK
  <2> QED BY <1>15, <2>2, <2>3 DEF ReturnConnection
<1>16. ASSUME Destroy PROVE CallsOK'
  <2> USE DEF argVars, ioVars, resultVars
  <2>1. \A u \in Threads : pc'[u] = "idle" /\ pc[u] = "idle"
    BY <1>16 DEF Destroy
  <2>2. \A fd \in PooledFds : DeliveredIds(fd) = {}
    BY <1>0 DEF PooledFds, CallsOK, PoolQuiet, DeliveredIds, FrameParts
  <2>3. orphans' = orphans
    BY <1>16, <2>2 DEF Destroy, CloseSockets
  <2>4. IdsOK' /\ OrphansOK' /\ ResponseMatchesRequest' /\ AtMostOnce'
    BY <1>16, <1>0, <2>1, <2>3 DEF Destroy, CallsOK, IdsOK, OrphansOK, ResponseMatchesRequest,
           AtMostOnce, Active
  <2>5. PoolQuiet'
    BY <1>16 DEF Destroy, PoolQuiet
  <2>6. RightEndpoint' /\ ExchangeOK'
    BY <2>1 DEF RightEndpoint, ExchangeOK, ThreadOK, Holding
  <2> QED BY <2>4, <2>5, <2>6 DEF CallsOK
<1>17. ASSUME NEW fd \in Fds, Serve(fd) PROVE CallsOK'
  <2> USE DEF clientVars, poolVars, argVars, ioVars, resultVars
  <2>1. fd \in open /\ Len(up[fd]) >= 2 /\ status[fd] = "open"
    BY <1>17 DEF Serve, FrameParts
  <2>2. \A e \in Endpoints : \A i \in DOMAIN idle_pool[e] : idle_pool[e][i] # fd
    <3>1. \A e \in Endpoints : \A i \in DOMAIN idle_pool[e] : Len(up[idle_pool[e][i]]) = 0
      BY <1>0 DEF CallsOK, PoolQuiet
    <3> QED BY <2>1, <3>1
  <2>0. PICK t \in Threads : ServedFor(t, fd)
    BY <1>17, ServesARoundTrip
  <2> DEFINE id == request_id[t]
  <2>3. pc[t] \in Holding /\ socket_fd[t] = fd
    BY <2>0 DEF ServedFor
  <2>4. /\ up[fd] = RequestFrame(id) /\ served[id] = 0 /\ pc[t] \in {"recv_length", "fail"}
        /\ pc[t] = "recv_length" => down[fd] = <<>>
    BY <2>0 DEF ServedFor
  <2>5. id \in Ids /\ id < next_request_id /\ outcome[id] = "pending" /\ id \notin orphans
    BY <1>0, <2>3 DEF ArgsOK, Active, Holding, CallsOK, IdsOK, OrphansOK
  <2>6. up[fd][2].id = id /\ Len(up[fd]) = 2 /\ SubSeq(up[fd], 3, Len(up[fd])) = <<>>
    BY <2>4, DropTwo DEF RequestFrame, Part
  <2>7. /\ served' = [served EXCEPT ![id] = @ + 1]
        /\ up' = [up EXCEPT ![fd] = <<>>]
        /\ \E len \in {"length", "oversized"} :
             down' = [down EXCEPT ![fd] = @ \o <<Part(id, len), Part(id, "body")>>]
        /\ UNCHANGED <<clientVars, open, peer, status, orphans>>
    <3>1. /\ served' = [served EXCEPT ![up[fd][2].id] = @ + 1]
          /\ up' = [up EXCEPT ![fd] = SubSeq(up[fd], 3, Len(up[fd]))]
          /\ \E len \in {"length", "oversized"} : down' =
               [down EXCEPT ![fd] = @ \o <<Part(up[fd][2].id, len), Part(up[fd][2].id, "body")>>]
          /\ UNCHANGED <<clientVars, open, peer, status, orphans>>
      <4>1. 2 + 1 = 3
        OBVIOUS
      <4> QED BY ONLY <1>17, <4>1 DEF Serve, FrameParts
    <3> HIDE DEF id
    <3> QED BY <2>6, <3>1
  <2>8. served'[id] = 1 /\ \A i \in Ids \ {id} : served'[i] = served[i]
    <3>1. served \in [Ids -> Nat]
      BY <1>0 DEF TypeOK
    <3> HIDE DEF id
    <3> QED BY <2>4, <2>5, <2>7, <3>1
  <2>9. /\ up'[fd] = <<>> /\ status' = status
        /\ \A d \in Fds \ {fd} : up'[d] = up[d] /\ down'[d] = down[d]
    BY <1>0, <2>7 DEF TypeOK
  <2>10. IdsOK'
    <3>1. \A i \in Ids : i >= next_request_id => i # id
      BY <1>0, <2>5, MaxCallsAssumption DEF TypeOK, Ids
    <3> HIDE DEF id
    <3> QED BY <1>0, <2>7, <2>8, <3>1 DEF CallsOK, IdsOK, Active
  <2>11. OrphansOK' /\ ResponseMatchesRequest' /\ AtMostOnce'
    <3> HIDE DEF id
    <3> QED BY <1>0, <2>5, <2>7, <2>8 DEF TypeOK, CallsOK, OrphansOK, ResponseMatchesRequest, AtMostOnce
  <2>12. PoolQuiet'
    <3>1. \A e \in Endpoints : \A i \in DOMAIN idle_pool[e] : idle_pool[e][i] \in Fds \ {fd}
      BY <1>0, <2>2 DEF OneOwner, PooledOpen, TypeOK
    <3> QED BY <1>0, <2>7, <2>9, <3>1 DEF CallsOK, PoolQuiet
  <2>13. RightEndpoint'
    BY <1>0, <2>7 DEF CallsOK, RightEndpoint
  <2>14. ThreadOK(t)'
    <3>1. pc' = pc /\ socket_fd' = socket_fd /\ request_id' = request_id
      BY <2>7
    <3>2. CASE pc[t] = "fail"
      BY <2>3, <2>9, <3>1, <3>2 DEF ThreadOK, Exchange
    <3>3. CASE pc[t] = "recv_length"
      <4>1. PICK len \in {"length", "oversized"} :
              down'[fd] = down[fd] \o <<Part(id, len), Part(id, "body")>>
        BY <1>0, <2>7 DEF TypeOK
      <4>2. down'[fd] = <<Part(id, len), Part(id, "body")>>
        BY <2>4, <3>3, <4>1, ConcatTwo
      <4> QED BY <2>3, <2>8, <2>9, <3>1, <3>3, <4>2 DEF ThreadOK, Exchange
    <3> QED BY <2>4, <3>2, <3>3
  <2>15. ASSUME NEW u \in Threads \ {t} PROVE ThreadOK(u)'
    <3>1. Active(u) => request_id[u] \in Ids \ {id}
      BY <1>0, <2>3 DEF CallsOK, IdsOK, ArgsOK, Active, Holding
    <3>2. pc[u] \in Holding => socket_fd[u] \in Fds \ {fd}
      BY <1>0, <2>3 DEF OneOwner, HeldOnce, ArgsOK
    <3> QED BY <1>0, <2>7, <2>8, <2>9, <3>1, <3>2, ThreadKept DEF CallsOK, ExchangeOK
  <2> QED BY <2>10, <2>11, <2>12, <2>13, <2>14, <2>15 DEF CallsOK, ExchangeOK
<1>18. ASSUME NEW id \in Ids, ServeOrphan(id) PROVE CallsOK'
  <2> USE DEF clientVars, poolVars, argVars, ioVars, resultVars, wireVars
  <2>1. outcome[id] = "error" /\ served[id] = 0 /\ orphans' = orphans \ {id}
    BY <1>18, <1>0 DEF ServeOrphan, CallsOK, OrphansOK
  <2>2. /\ served'[id] \in {0, 1} /\ \A i \in Ids \ {id} : served'[i] = served[i]
        /\ UNCHANGED <<clientVars, open, wireVars>>
    BY <1>18, <1>0, <2>1 DEF ServeOrphan, TypeOK
  <2>3. id < next_request_id
    BY <1>0, <2>1, MaxCallsAssumption DEF CallsOK, IdsOK, TypeOK, Ids
  <2>4. IdsOK'
    <3>1. \A i \in Ids : i >= next_request_id => i # id
      BY <1>0, <2>3, MaxCallsAssumption DEF TypeOK, Ids
    <3> QED BY <1>0, <2>2, <3>1 DEF CallsOK, IdsOK, Active
  <2>5. OrphansOK' /\ ResponseMatchesRequest' /\ AtMostOnce'
    BY <1>0, <2>1, <2>2 DEF TypeOK, CallsOK, OrphansOK, ResponseMatchesRequest, AtMostOnce
  <2>6. PoolQuiet' /\ RightEndpoint'
    BY <1>0, <2>2 DEF CallsOK, PoolQuiet, RightEndpoint
  <2>7. ASSUME NEW u \in Threads PROVE ThreadOK(u)'
    <3>1. Active(u) => request_id[u] \in Ids \ {id}
      BY <1>0, <2>1 DEF CallsOK, IdsOK, ArgsOK
    <3> QED BY <1>0, <2>2, <3>1, ThreadKept DEF CallsOK, ExchangeOK
  <2> QED BY <2>4, <2>5, <2>6, <2>7 DEF CallsOK, ExchangeOK
<1>19. ASSUME NEW fd \in Fds, PeerCloses(fd) PROVE CallsOK'
  <2> USE DEF clientVars, poolVars, argVars, ioVars, resultVars
  <2>1. /\ UNCHANGED <<clientVars, open, peer, orphans, served>>
        /\ up'[fd] = <<>> /\ status'[fd] = "closed"
        /\ \A d \in Fds \ {fd} : up'[d] = up[d] /\ down'[d] = down[d] /\ status'[d] = status[d]
    BY <1>19, <1>0 DEF PeerCloses, TypeOK
  <2>2. PICK n \in 0..Len(down[fd]) : down'[fd] = SubSeq(down[fd], 1, n)
    BY <1>19, <1>0 DEF PeerCloses, TypeOK
  <2>3. down[fd] = <<>> => down'[fd] = <<>>
    BY <2>2
  <2>4. IdsOK' /\ OrphansOK' /\ ResponseMatchesRequest' /\ AtMostOnce' /\ RightEndpoint'
    BY <1>0, <2>1 DEF CallsOK, IdsOK, OrphansOK, ResponseMatchesRequest, AtMostOnce, RightEndpoint,
           Active
  <2>5. PoolQuiet'
    <3>1. \A e \in Endpoints : \A i \in DOMAIN idle_pool[e] : idle_pool[e][i] \in Fds
      BY <1>0 DEF OneOwner, PooledOpen, TypeOK
    <3> QED BY <1>0, <2>1, <2>3, <3>1 DEF CallsOK, PoolQuiet
  <2>6. ASSUME NEW t \in Threads, pc[t] \in Holding, socket_fd[t] = fd PROVE ThreadOK(t)'
    <3> DEFINE id == request_id[t]
    <3>1. ThreadOK(t) /\ Exchange(t)
      BY <1>0, <2>6 DEF CallsOK, ExchangeOK, ThreadOK
    <3>2. \A a, b : down[fd] = <<a, b>> => down'[fd] \in {<<>>, <<a>>, <<a, b>>}
      BY <2>2, PrefixTwo
    <3>3. \A a : down[fd] = <<a>> => down'[fd] \in {<<>>, <<a>>}
      BY <2>2, PrefixOne
    <3> QED BY <2>1, <2>3, <2>6, <3>1, <3>2, <3>3 DEF ThreadOK, Exchange
  <2>7. ASSUME NEW u \in Threads, ~(pc[u] \in Holding /\ socket_fd[u] = fd) PROVE ThreadOK(u)'
    <3>1. pc[u] \in Holding => socket_fd[u] \in Fds \ {fd}
      BY <1>0, <2>7 DEF ArgsOK
    <3> QED BY <1>0, <2>1, <3>1, ThreadKept DEF CallsOK, ExchangeOK
  <2> QED BY <2>4, <2>5, <2>6, <2>7 DEF CallsOK, ExchangeOK
<1>20. ASSUME UNCHANGED vars PROVE CallsOK'
  <2> USE DEF vars, clientVars, poolVars, argVars, ioVars, resultVars, kernelVars, wireVars
  <2>1. IdsOK' /\ OrphansOK' /\ ResponseMatchesRequest' /\ AtMostOnce' /\ RightEndpoint' /\ PoolQuiet'
    BY <1>20, <1>0 DEF CallsOK, IdsOK, OrphansOK, ResponseMatchesRequest, AtMostOnce, RightEndpoint,
           PoolQuiet, Active
  <2>2. ASSUME NEW u \in Threads PROVE ThreadOK(u)'
    BY <1>20, <1>0, ThreadKept DEF CallsOK, ExchangeOK
  <2> QED BY <2>1, <2>2 DEF CallsOK, ExchangeOK
<1> QED
  BY <1>1, <1>2, <1>3, <1>4, <1>5, <1>6, <1>7, <1>8, <1>10, <1>11, <1>12, <1>13, <1>14, <1>15,
     <1>16, <1>17, <1>18, <1>19, <1>20
  DEF Next, Client, ThreadStep, Step, Server, Ended

-----------------------------------------------------------------------------
(* The theorems *)

\* Inv is inductive: it holds in every reachable state of the transport.
THEOREM Invariance == Spec => []Inv
<1>1. Init => Inv
  BY TypeInit, OwnerInit, CallsInit DEF Inv
<1>2. Inv /\ [Next]_vars => Inv'
  BY TypeStep, OwnerStep, CallsStep DEF Inv
<1> QED BY <1>1, <1>2, PTL DEF Spec

\* The variables of TcpClientTransport keep their types.
THEOREM TypeCorrect == Spec => []TypeOK
BY Invariance, PTL DEF Inv

\* RoundTrip and the pool never leak, share or double-close a socket.
THEOREM SocketsHaveOneOwner == Spec => []OneOwner
BY Invariance, PTL DEF Inv

\* A call that succeeds returns the response to its own request.
THEOREM ResponsesMatch == Spec => []ResponseMatchesRequest
BY Invariance, PTL DEF Inv, CallsOK

\* No request is executed twice, and a successful one is executed.
THEOREM ExecutedAtMostOnce == Spec => []AtMostOnce
BY Invariance, PTL DEF Inv, CallsOK

\* A request goes to the endpoint it was resolved to.
THEOREM RequestsReachTheirEndpoint == Spec => []RightEndpoint
BY Invariance, PTL DEF Inv, CallsOK
-----------------------------------------------------------------------------
(* The transport implements RpcCall *)

Answers == [i \in Ids |-> Answer(i)]

\* A caller sees the outcomes, the executions, the replies and whether its process lives.
LEMMA Invisible ==
    ASSUME UNCHANGED <<outcome, served, reply>>, (lifetime' # "killed") = (lifetime # "killed")
    PROVE  UNCHANGED Interface!vars
<1>1. Answers' = Answers
  BY DEF Answers, Answer
<1> QED BY <1>1 DEF Interface!vars, Answers

\* A thread that calls RoundTrip begins a call that had not begun.
LEMMA CallIsInvoke ==
    ASSUME Inv, lifetime = "running", NEW t \in Threads, NEW e \in Endpoints, Call(t, e)
    PROVE  Interface!Next
<1>1. next_request_id \in Ids
  BY MaxCallsAssumption DEF Call, Inv, TypeOK, Ids
<1>2. outcome[next_request_id] = "none"
  BY <1>1 DEF Inv, CallsOK, IdsOK, Ids
<1>3. Answers' = Answers
  BY DEF Call, Answers, Answer
<1>4. Interface!Invoke(next_request_id)
  BY <1>2, <1>3 DEF Call, kernelVars, Interface!Invoke, Answers
<1> QED BY <1>1, <1>4 DEF Interface!Next

\* RoundTrip returning an error ends a pending call.
LEMMA ErrorIsFail ==
    ASSUME Inv, lifetime = "running", NEW t \in Threads, Active(t), Finish(t, "error"),
           UNCHANGED <<served, reply, lifetime>>
    PROVE  Interface!Next
<1>1. request_id[t] \in Ids /\ outcome[request_id[t]] = "pending"
  BY DEF Inv, ArgsOK, CallsOK, IdsOK
<1>2. Answers' = Answers
  BY DEF Answers, Answer
<1>3. Interface!Fail(request_id[t])
  BY <1>1, <1>2 DEF Finish, Interface!Fail, Answers
<1> QED BY <1>1, <1>3 DEF Interface!Next

\* RoundTrip returning a frame ends a pending call with the answer to it.
LEMMA ReturnIsSucceed ==
    ASSUME Inv, lifetime = "running", NEW t \in Threads, ReturnConnection(t)
    PROVE  Interface!Next
<1>1. pc[t] = "return" /\ UNCHANGED <<served, lifetime>>
      /\ outcome' = [outcome EXCEPT ![request_id[t]] = "ok"]
      /\ reply' = [reply EXCEPT ![request_id[t]] = frame[t]]
  BY DEF ReturnConnection, Finish
<1>2. PICK id \in Ids : id = request_id[t] /\ outcome[id] = "pending"
  BY <1>1 DEF Inv, ArgsOK, CallsOK, IdsOK, Active
<1>3. served[id] = 1 /\ frame[t] = <<Part(id, "length"), Part(id, "body")>>
  BY <1>1, <1>2 DEF Inv, CallsOK, ExchangeOK, ThreadOK, Exchange, Holding
<1>4. reply \in [Ids -> Seq(Parts)]
  BY DEF Inv, TypeOK
<1>5. Answer(id)' = id
  <2>1. reply'[id] = <<Part(id, "length"), Part(id, "body")>>
    BY <1>1, <1>2, <1>3, <1>4
  <2>2. \A a, b : <<a, b>> # <<>> /\ Len(<<a, b>>) = 2 /\ <<a, b>>[2] = b
    OBVIOUS
  <2>3. reply'[id] # <<>> /\ reply'[id][Len(reply'[id])] = Part(id, "body")
    BY <2>1, <2>2
  <2> QED BY <2>3 DEF Answer, Part
<1>6. \A i \in Ids \ {id} : Answer(i)' = Answer(i)
  BY <1>1, <1>2, <1>4 DEF Answer
<1>7. Answers' = [Answers EXCEPT ![id] = id]
  BY <1>5, <1>6 DEF Answers
<1>8. Interface!Succeed(id)
  BY <1>1, <1>2, <1>3, <1>7 DEF Interface!Succeed, Answers
<1> QED BY <1>8 DEF Interface!Next

\* The server executes a request that is pending and has not been executed.
LEMMA ServeIsExecute ==
    ASSUME Inv, NEW fd \in Fds, Serve(fd)
    PROVE  Interface!Next
<1>1. PICK t \in Threads : ServedFor(t, fd)
  BY ServesARoundTrip
<1>2. PICK id \in Ids : id = request_id[t] /\ outcome[id] = "pending" /\ served[id] = 0
  BY <1>1 DEF ServedFor, Inv, ArgsOK, CallsOK, IdsOK, Active, Holding
<1>3. up[fd][2].id = id
  BY <1>1, <1>2, DropTwo DEF ServedFor, RequestFrame, Part
<1>4. served \in [Ids -> Nat]
  BY DEF Inv, TypeOK
<1>5. served' = [served EXCEPT ![id] = 1]
  <2>1. served' = [served EXCEPT ![id] = @ + 1]
    BY <1>3 DEF Serve, FrameParts
  <2> QED BY <1>2, <1>4, <2>1
<1>6. UNCHANGED <<outcome, reply, lifetime>>
  BY DEF Serve, clientVars, resultVars
<1>7. Answers' = Answers
  BY <1>6 DEF Answers, Answer
<1>8. Interface!Execute(id)
  BY <1>2, <1>5, <1>6, <1>7 DEF Interface!Execute, Answers
<1> QED BY <1>8 DEF Interface!Next

\* A request left behind by a call that failed is executed once or lost.
LEMMA OrphanIsExecute ==
    ASSUME Inv, NEW id \in Ids, ServeOrphan(id)
    PROVE  Interface!Next \/ UNCHANGED Interface!vars
<1>1. UNCHANGED <<outcome, reply, lifetime>>
  BY DEF ServeOrphan, clientVars, resultVars
<1>2. CASE served' = served
  BY <1>1, <1>2, Invisible
<1>3. CASE served' = [served EXCEPT ![id] = @ + 1]
  <2>1. outcome[id] = "error" /\ served[id] = 0
    BY DEF ServeOrphan, Inv, CallsOK, OrphansOK
  <2>2. served' = [served EXCEPT ![id] = 1]
    BY <1>3, <2>1 DEF Inv, TypeOK
  <2>3. Answers' = Answers
    BY <1>1 DEF Answers, Answer
  <2>4. Interface!Execute(id)
    BY <1>1, <2>1, <2>2, <2>3 DEF Interface!Execute, Answers
  <2> QED BY <2>4 DEF Interface!Next
<1> QED BY <1>2, <1>3 DEF ServeOrphan

\* SIGPIPE ends the calling process.
LEMMA KillIsDie ==
    ASSUME NEW t \in Threads, SendBrokenPipe(t)
    PROVE  Interface!Next
<1>1. UNCHANGED <<outcome, served, reply>> /\ lifetime' = "killed"
  BY DEF SendBrokenPipe, resultVars, kernelVars
<1>2. Answers' = Answers
  BY <1>1 DEF Answers, Answer
<1>3. Interface!Die
  BY <1>1, <1>2 DEF Interface!Die, Answers
<1> QED BY <1>3 DEF Interface!Next

\* Every step of the transport is a step of RpcCall or invisible to its callers.
LEMMA RefinementStep ==
    ASSUME Inv, [Next]_vars
    PROVE  [Interface!Next]_(Interface!vars)
<1> USE DEF clientVars, poolVars, argVars, ioVars, resultVars, kernelVars, wireVars
<1>1. ASSUME NEW t \in Threads, NEW e \in Endpoints, lifetime = "running", Call(t, e)
      PROVE  Interface!Next
  BY <1>1, CallIsInvoke
<1>2. ASSUME lifetime = "running", Destroy PROVE UNCHANGED Interface!vars
  BY <1>2, Invisible DEF Destroy
<1>3. ASSUME NEW t \in Threads, lifetime = "running", Step(t)
      PROVE  Interface!Next \/ UNCHANGED Interface!vars
  <2>1. CASE BorrowReuse(t) \/ BorrowMiss(t) \/ ConnectSucceeds(t) \/ SendFails(t) \/ RecvFails(t)
    BY <2>1, Invisible DEF BorrowReuse, BorrowMiss, ConnectSucceeds, SendFails, RecvFails
  <2>2. CASE BorrowConfigureFails(t) \/ BorrowBlockingModeFails(t) \/ OpenSocket(t)
    BY <2>2, Invisible DEF BorrowConfigureFails, BorrowBlockingModeFails, OpenSocket
  <2>3. CASE SendPart(t) \/ RecvLength(t) \/ RecvLengthInvalid(t) \/ RecvBody(t)
    BY <2>3, Invisible DEF SendPart, RecvLength, RecvLengthInvalid, RecvBody
  <2>4. CASE OpenSocketFails(t)
    BY <1>3, <2>4, ErrorIsFail DEF OpenSocketFails, Active
  <2>5. CASE ConnectFails(t)
    BY <1>3, <2>5, ErrorIsFail DEF ConnectFails, Active
  <2>6. CASE CloseAfterFailure(t)
    BY <1>3, <2>6, ErrorIsFail DEF CloseAfterFailure, Active
  <2>7. CASE ReturnConnection(t)
    BY <1>3, <2>7, ReturnIsSucceed
  <2>8. CASE SendBrokenPipe(t)
    BY <2>8, KillIsDie
  <2> QED BY <1>3, <2>1, <2>2, <2>3, <2>4, <2>5, <2>6, <2>7, <2>8 DEF Step
<1>4. ASSUME NEW fd \in Fds, PeerCloses(fd) PROVE UNCHANGED Interface!vars
  BY <1>4, Invisible DEF PeerCloses
<1>5. CASE UNCHANGED vars
  BY <1>5, Invisible DEF vars
<1> QED BY <1>1, <1>2, <1>3, <1>4, <1>5, ServeIsExecute, OrphanIsExecute
        DEF Next, Client, ThreadStep, Server, Ended

\* TcpClientTransport implements what the ClientTransport interface promises: every step,
\* of a thread, the server or the kernel, is a step of RpcCall or invisible to the caller.
\* The fairness part of ImplementsRpcCall, that every round trip ends, is model-checked.
THEOREM TransportImplementsRpcCall == Spec => Interface!Spec
<1>1. Init => Interface!Init
  <2> SUFFICES ASSUME Init PROVE Interface!Init
    OBVIOUS
  <2>1. Answers = [i \in Ids |-> 0]
    BY DEF Init, Answers, Answer
  <2> QED BY <2>1 DEF Init, Interface!Init, Answers
<1>2. Inv /\ [Next]_vars => [Interface!Next]_(Interface!vars)
  BY RefinementStep
<1> QED BY <1>1, <1>2, Invariance, PTL DEF Spec, Interface!Spec

=============================================================================
