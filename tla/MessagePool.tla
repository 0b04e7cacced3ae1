------------------------------ MODULE MessagePool ------------------------------
(***************************************************************************)
(* MessagePool and its handle PooledMessage (src/message_pool.cc): protobuf *)
(* messages are cached per type in buckets under a mutex.  Threads of one  *)
(* RpcClient, or the server's dispatcher, acquire a message, fill it, may  *)
(* move the handle, and give it back when the handle is destroyed.         *)
(***************************************************************************)
EXTENDS Integers, Sequences, FiniteSets

CONSTANTS
    Handles,      \* PooledMessage objects
    Types,        \* message types: the keys of buckets_
    Messages,     \* heap addresses a message can have
    BucketLimit,  \* bucket_limit_
    Data,         \* what a call can leave in a message
    None

ASSUME BucketLimitAssumption == BucketLimit \in Nat
ASSUME NoneAssumption == None \notin Messages \cup Types
ASSUME DataAssumption == "clean" \notin Data

VARIABLES
    buckets,  \* buckets_
    message,  \* PooledMessage::message_
    key,      \* PooledMessage::key_
    pc,       \* where each handle is in Acquire or Release
    type,     \* the dynamic type of each message on the heap, None if not allocated
    content   \* "clean", or the data of the call that used the message last

heapVars == <<type, content>>
handleVars == <<message, key>>
vars == <<buckets, handleVars, pc, heapVars>>

Init ==
    /\ buckets = [t \in Types |-> <<>>]
    /\ message = [h \in Handles |-> None] /\ key = [h \in Handles |-> None]
    /\ pc = [h \in Handles |-> "empty"]
    /\ type = [m \in Messages |-> None]
    /\ content = [m \in Messages |-> "clean"]

-----------------------------------------------------------------------------
Goto(h, loc) == pc' = [pc EXCEPT ![h] = loc]
Free(m) == type' = [type EXCEPT ![m] = None]

\* Acquire, under mutex_: the last message of the bucket is taken
AcquireReuse(h, t) ==
    LET bucket == buckets[t] IN
    /\ pc[h] = "empty" /\ bucket # <<>>
    /\ message' = [message EXCEPT ![h] = bucket[Len(bucket)]]
    /\ key' = [key EXCEPT ![h] = t]
    /\ buckets' = [buckets EXCEPT ![t] = SubSeq(bucket, 1, Len(bucket) - 1)]
    /\ Goto(h, "taken")
    /\ UNCHANGED heapVars

\* Mutant: the message is taken to be clean since Release has cleared it.
AcquireClear_Skips(h) ==
    /\ pc[h] = "taken"
    /\ Goto(h, "held")
    /\ UNCHANGED <<buckets, handleVars, heapVars>>

\* and cleared after the lock is released;
AcquireClear(h) ==
    /\ pc[h] = "taken"
    /\ content' = [content EXCEPT ![message[h]] = "clean"]
    /\ Goto(h, "held")
    /\ UNCHANGED <<buckets, handleVars, type>>

\* or the bucket is empty, and a new message is made outside the lock.
AcquireMiss(h, t) ==
    /\ pc[h] = "empty" /\ buckets[t] = <<>>
    /\ key' = [key EXCEPT ![h] = t]
    /\ Goto(h, "miss")
    /\ UNCHANGED <<buckets, message, heapVars>>
AcquireNew(h) ==
    /\ pc[h] = "miss"
    /\ \E m \in Messages :
        /\ type[m] = None
        /\ type' = [type EXCEPT ![m] = key[h]]
        /\ content' = [content EXCEPT ![m] = "clean"]
        /\ message' = [message EXCEPT ![h] = m]
    /\ Goto(h, "held")
    /\ UNCHANGED <<buckets, key>>

\* The holder parses a payload into the message, or the service fills it.
Fill(h, d) ==
    /\ pc[h] = "held"
    /\ content' = [content EXCEPT ![message[h]] = d]
    /\ UNCHANGED <<buckets, handleVars, pc, type>>

\* Mutant: the source of a move keeps its pointer.
Move_KeepsSource(h, g) ==
    /\ pc[h] = "held" /\ pc[g] = "empty"
    /\ message' = [message EXCEPT ![g] = message[h]]
    /\ key' = [key EXCEPT ![g] = key[h]]
    /\ pc' = [pc EXCEPT ![g] = "held"]
    /\ UNCHANGED <<buckets, heapVars>>

\* Mutant: the key is not moved with the message.
Move_LosesKey(h, g) ==
    /\ pc[h] = "held" /\ pc[g] = "empty"
    /\ message' = [message EXCEPT ![g] = message[h], ![h] = None]
    /\ key' = [key EXCEPT ![h] = None]
    /\ pc' = [pc EXCEPT ![g] = "held", ![h] = "empty"]
    /\ UNCHANGED <<buckets, heapVars>>

\* The move constructor, and the end of the move assignment: g takes over what
\* h holds and h is empty.
Move(h, g) ==
    /\ pc[h] = "held" /\ pc[g] = "empty"
    /\ message' = [message EXCEPT ![g] = message[h], ![h] = None]
    /\ key' = [key EXCEPT ![g] = key[h], ![h] = None]
    /\ pc' = [pc EXCEPT ![g] = "held", ![h] = "empty"]
    /\ UNCHANGED <<buckets, heapVars>>

\* PooledMessage::Release, from the destructor or a move assignment: Clear,
ReleaseClear(h) ==
    /\ pc[h] = "held"
    /\ content' = [content EXCEPT ![message[h]] = "clean"]
    /\ Goto(h, "releasing")
    /\ UNCHANGED <<buckets, handleVars, type>>

\* then MessagePool::Release under mutex_, which drops the message when its
\* bucket is full.
ReleasePush(h) ==
    LET t == key[h]  m == message[h] IN
    /\ pc[h] = "releasing"
    /\ \/ /\ Len(buckets[t]) >= BucketLimit
          /\ Free(m)
          /\ UNCHANGED buckets
       \/ /\ Len(buckets[t]) < BucketLimit
          /\ buckets' = [buckets EXCEPT ![t] = Append(@, m)]
          /\ UNCHANGED type
    /\ message' = [message EXCEPT ![h] = None]
    /\ key' = [key EXCEPT ![h] = None]
    /\ Goto(h, "empty")
    /\ UNCHANGED content

HandleStep(h) ==
    \/ \E t \in Types : AcquireReuse(h, t) \/ AcquireMiss(h, t)
    \/ AcquireClear(h) \/ AcquireNew(h) \/ (\E d \in Data : Fill(h, d))
    \/ ReleaseClear(h) \/ ReleasePush(h)
    \/ \E g \in Handles : Move(h, g)

Next == \E h \in Handles : HandleStep(h)

Spec == Init /\ [][Next]_vars

-----------------------------------------------------------------------------
(* Properties *)

Allocated == {m \in Messages : type[m] # None}
HasMessage == {"taken", "held", "releasing"}
HolderOf(m) == {h \in Handles : pc[h] \in HasMessage /\ message[h] = m}
SlotsOf(m) == {s \in Types \X (1..BucketLimit) : s[2] <= Len(buckets[s[1]]) /\ buckets[s[1]][s[2]] = m}

\* Every variable stays in its type.
TypeOK ==
    /\ buckets \in [Types -> Seq(Messages)]
    /\ message \in [Handles -> Messages \cup {None}]
    /\ key \in [Handles -> Types \cup {None}]
    /\ pc \in [Handles -> {"empty", "miss"} \cup HasMessage]
    /\ type \in [Messages -> Types \cup {None}]
    /\ content \in [Messages -> Data \cup {"clean"}]

\* A message on the heap is held by exactly one handle or lies in exactly one
\* slot of a bucket; two calls never share one, none is lost or returned twice,
\* and a freed one is referred to by nobody.
OneHolder ==
    \A m \in Messages :
        Cardinality(HolderOf(m)) + Cardinality(SlotsOf(m)) = IF m \in Allocated THEN 1 ELSE 0

\* A message is handed out and put back under its own type, also after moves.
RightBucket ==
    /\ \A t \in Types : \A i \in 1..Len(buckets[t]) : type[buckets[t][i]] = t
    /\ \A h \in Handles : pc[h] \in HasMessage => type[message[h]] = key[h]

\* No data of an earlier call stays in the pool.
PoolIsClean ==
    \A t \in Types : \A i \in 1..Len(buckets[t]) : content[buckets[t][i]] = "clean"

\* Whoever takes a message from a bucket gets one of the type it asked for and
\* without data of an earlier call: the pair of keys and contents survives moves,
\* releases and the clearing outside the lock.
ReusedAsNew == RightBucket /\ PoolIsClean
=============================================================================
