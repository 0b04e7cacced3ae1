---------------------------- MODULE Invocation_proof ----------------------------
(* Proofs about MessagePool, and about the dispatcher and the calls of       *)
(* Invocation that use it, for any handles, types, messages, services,       *)
(* frames and calls.                                                         *)
EXTENDS Invocation, FiniteSetTheorems, SequenceTheorems, TLAPS

-----------------------------------------------------------------------------
(* MessagePool *)

Slots(bucket) == 1..Len(bucket)
Holders == {h \in Handles : pc[h] \in HasMessage}

\* What lies in a bucket has its type, and lies there once.
BucketsOK ==
    \A t \in Types :
        /\ Len(buckets[t]) <= BucketLimit
        /\ \A i \in Slots(buckets[t]) : type[buckets[t][i]] = t
        /\ \A i, j \in Slots(buckets[t]) : buckets[t][i] = buckets[t][j] => i = j

\* What a handle holds has the type the handle was acquired for, and no other handle
\* holds it.
HandlesOK ==
    \A h \in Handles :
        /\ pc[h] = "miss" => key[h] \in Types
        /\ h \in Holders => /\ message[h] \in Messages /\ key[h] \in Types
                            /\ type[message[h]] = key[h]
        /\ \A g \in Holders : h \in Holders /\ message[h] = message[g] => h = g

\* Nothing is held and in a bucket at once, and what is on the heap is one or the other.
Apart ==
    \A h \in Holders :
        \A t \in Types : \A i \in Slots(buckets[t]) : buckets[t][i] # message[h]
NothingLeaks ==
    \A m \in Messages : type[m] # None =>
        \/ \E h \in Holders : message[h] = m
        \/ \E t \in Types : \E i \in Slots(buckets[t]) : buckets[t][i] = m

PoolInv == TypeOK /\ BucketsOK /\ HandlesOK /\ Apart /\ NothingLeaks

\* A new pool is empty and no handle holds anything.
LEMMA PoolInit == Init => PoolInv
<1> SUFFICES ASSUME Init PROVE PoolInv
  OBVIOUS
<1>1. TypeOK
  BY DEF Init, TypeOK
<1>2. \A t \in Types : buckets[t] = <<>> /\ Slots(buckets[t]) = {}
  BY DEF Init, Slots
<1>3. \A h \in Handles : h \notin Holders /\ pc[h] # "miss"
  BY DEF Init, Holders, HasMessage
<1> QED BY <1>1, <1>2, <1>3, BucketLimitAssumption
        DEF PoolInv, BucketsOK, HandlesOK, Apart, NothingLeaks, Init

\* Taking the last message of a bucket leaves the others where they are.
LEMMA TakeLast ==
    ASSUME NEW b \in Seq(Messages), b # <<>>
    PROVE  LET r == SubSeq(b, 1, Len(b) - 1) IN
           /\ r \in Seq(Messages) /\ Len(b) \in Nat \ {0} /\ Len(r) = Len(b) - 1
           /\ \A i \in 1..Len(r) : r[i] = b[i]
           /\ b[Len(b)] \in Messages
<1> DEFINE n == Len(b) - 1
<1>0. Len(b) \in Nat \ {0}
  BY EmptySeq
<1>1. \A k \in Nat \ {0} : k - 1 \in Nat /\ k - 1 <= k
  OBVIOUS
<1>2. n \in Nat /\ n <= Len(b)
  BY <1>0, <1>1
<1> HIDE DEF n
<1>3. SubSeq(b, 1, n) \in Seq(Messages) /\ Len(SubSeq(b, 1, n)) = n
  BY <1>2
<1>4. \A i \in 1..n : SubSeq(b, 1, n)[i] = b[i]
  BY <1>2
<1>5. b[Len(b)] \in Messages
  BY <1>0
<1> QED BY <1>0, <1>3, <1>4, <1>5 DEF n

\* Acquire from a bucket: what is taken has been held by nobody.
LEMMA ReuseStep ==
    ASSUME PoolInv, NEW h \in Handles, NEW t \in Types, AcquireReuse(h, t)
    PROVE  PoolInv'
<1> DEFINE b == buckets[t]  m == b[Len(b)]  r == SubSeq(b, 1, Len(b) - 1)
<1>0. TypeOK /\ BucketsOK /\ HandlesOK /\ Apart /\ NothingLeaks /\ Holders \subseteq Handles
  BY DEF PoolInv, Holders
<1>1. /\ b \in Seq(Messages) /\ b # <<>> /\ h \notin Holders
      /\ message' = [message EXCEPT ![h] = m] /\ key' = [key EXCEPT ![h] = t]
      /\ buckets' = [buckets EXCEPT ![t] = r] /\ pc' = [pc EXCEPT ![h] = "taken"]
      /\ type' = type /\ content' = content
  BY <1>0 DEF AcquireReuse, TypeOK, Goto, heapVars, Holders, HasMessage
<1>2. /\ r \in Seq(Messages) /\ Len(b) \in Nat \ {0} /\ Len(r) = Len(b) - 1
      /\ \A i \in 1..Len(r) : r[i] = b[i]
      /\ m \in Messages
  BY <1>1, TakeLast
<1>3. TypeOK'
  BY <1>0, <1>1, <1>2 DEF TypeOK, HasMessage
<1>4. /\ \A u \in Types \ {t} : buckets'[u] = buckets[u] /\ Slots(buckets'[u]) = Slots(buckets[u])
      /\ buckets'[t] = r /\ Slots(buckets'[t]) = 1..(Len(b) - 1)
  BY <1>0, <1>1, <1>2 DEF TypeOK, Slots
<1>5. \A g \in Handles \ {h} : message'[g] = message[g] /\ key'[g] = key[g] /\ pc'[g] = pc[g]
  BY <1>0, <1>1 DEF TypeOK
<1>6. message'[h] = m /\ key'[h] = t /\ pc'[h] = "taken"
  BY <1>0, <1>1 DEF TypeOK
<1> HIDE DEF m, r
<1>7. type[m] = t /\ \A i \in 1..(Len(b) - 1) : b[i] # m
  BY <1>0, <1>2 DEF BucketsOK, Slots, m
<1>8. BucketsOK'
  <2>1. \A i \in 1..(Len(b) - 1) : i \in Slots(buckets[t]) /\ r[i] = b[i]
    BY <1>2 DEF Slots
  <2>2. /\ Len(buckets'[t]) <= BucketLimit
        /\ \A i \in Slots(buckets'[t]) : type'[buckets'[t][i]] = t
        /\ \A i, j \in Slots(buckets'[t]) : buckets'[t][i] = buckets'[t][j] => i = j
    <3>1. Len(buckets'[t]) <= BucketLimit
      BY <1>0, <1>2, <1>4, BucketLimitAssumption DEF BucketsOK
    <3>2. \A i \in Slots(buckets'[t]) : i \in Slots(buckets[t]) /\ buckets'[t][i] = buckets[t][i]
      BY <1>4, <2>1
    <3> QED BY <1>0, <1>1, <3>1, <3>2 DEF BucketsOK
  <2>3. ASSUME NEW u \in Types, u # t
        PROVE  /\ Len(buckets'[u]) <= BucketLimit
               /\ \A i \in Slots(buckets'[u]) : type'[buckets'[u][i]] = u
               /\ \A i, j \in Slots(buckets'[u]) : buckets'[u][i] = buckets'[u][j] => i = j
    BY <1>0, <1>1, <1>4, <2>3 DEF BucketsOK
  <2> QED BY <2>2, <2>3 DEF BucketsOK
<1>9. \A g \in Handles : g \in Holders => message[g] # m
  BY <1>0, <1>1, <1>2 DEF Apart, Slots, m
<1>10. HandlesOK'
  BY <1>0, <1>1, <1>2, <1>5, <1>6, <1>7, <1>9 DEF HandlesOK, Holders, HasMessage
<1>11. Apart'
  <2>0. Holders' = Holders \cup {h}
    BY <1>1, <1>5, <1>6 DEF Holders, HasMessage
  <2> SUFFICES ASSUME NEW g \in Holders', NEW u \in Types, NEW i \in Slots(buckets'[u])
               PROVE  buckets'[u][i] # message'[g]
    BY DEF Apart
  <2>1. i \in Slots(buckets[u]) /\ buckets'[u][i] = buckets[u][i]
    BY <1>2, <1>4 DEF Slots
  <2>2. CASE g = h /\ u = t
    BY <1>2, <1>4, <1>6, <1>7, <2>2 DEF Slots
  <2>3. CASE g = h /\ u # t
    BY <1>0, <1>6, <1>7, <2>1, <2>3 DEF BucketsOK
  <2>4. CASE g \in Holders /\ g # h
    BY <1>0, <1>5, <2>1, <2>4 DEF Apart
  <2> QED BY <2>0, <2>2, <2>3, <2>4
<1>12. NothingLeaks'
  <2>0. h \in Holders' /\ \A g \in Holders : g \in Holders' /\ message'[g] = message[g]
    BY <1>1, <1>5, <1>6 DEF Holders, HasMessage
  <2> SUFFICES ASSUME NEW n \in Messages, type[n] # None
               PROVE  \/ \E g \in Holders' : message'[g] = n
                      \/ \E u \in Types : \E i \in Slots(buckets'[u]) : buckets'[u][i] = n
    BY <1>1 DEF NothingLeaks
  <2>1. CASE n = m
    BY <1>6, <2>0, <2>1
  <2>2. ASSUME NEW g \in Holders, message[g] = n
        PROVE  \E k \in Holders' : message'[k] = n
    BY <2>0, <2>2 DEF Holders
  <2>3. ASSUME NEW i \in Slots(b), b[i] = n, n # m
        PROVE  \E j \in Slots(buckets'[t]) : buckets'[t][j] = n
    <3>1. i \in 1..(Len(b) - 1)
      BY <1>2, <2>3 DEF Slots, m
    <3> QED BY <1>2, <1>4, <2>3, <3>1
  <2>4. ASSUME NEW u \in Types \ {t}, NEW i \in Slots(buckets[u]), buckets[u][i] = n
        PROVE  \E j \in Slots(buckets'[u]) : buckets'[u][j] = n
    BY <1>4, <2>4
  <2> QED BY <1>0, <2>1, <2>2, <2>3, <2>4 DEF NothingLeaks
<1> QED BY <1>3, <1>8, <1>10, <1>11, <1>12 DEF PoolInv

\* AcquireClear, Fill and ReleaseClear: the handle holds what it held.
LEMMA KeepStep ==
    ASSUME PoolInv, NEW h \in Handles,
           AcquireClear(h) \/ (\E d \in Data : Fill(h, d)) \/ ReleaseClear(h)
    PROVE  PoolInv'
<1>0. TypeOK /\ BucketsOK /\ HandlesOK /\ Apart /\ NothingLeaks /\ Holders \subseteq Handles
  BY DEF PoolInv, Holders
<1>1. /\ buckets' = buckets /\ message' = message /\ key' = key /\ type' = type
      /\ Holders' = Holders /\ \A g \in Handles : pc'[g] = "miss" <=> pc[g] = "miss"
  BY <1>0 DEF AcquireClear, Fill, ReleaseClear, Goto, handleVars, TypeOK, Holders, HasMessage
<1>2. TypeOK'
  BY <1>0 DEF AcquireClear, Fill, ReleaseClear, Goto, handleVars, TypeOK, HasMessage
<1>3. BucketsOK'
  BY <1>0, <1>1 DEF BucketsOK, Slots
<1>4. HandlesOK'
  BY <1>0, <1>1 DEF HandlesOK
<1>5. Apart' /\ NothingLeaks'
  BY <1>0, <1>1 DEF Apart, NothingLeaks, Slots
<1> QED BY <1>2, <1>3, <1>4, <1>5 DEF PoolInv

\* Acquire makes a message where nothing was on the heap.
LEMMA NewStep ==
    ASSUME PoolInv, NEW h \in Handles, AcquireNew(h)
    PROVE  PoolInv'
<1>0. TypeOK /\ BucketsOK /\ HandlesOK /\ Apart /\ NothingLeaks /\ Holders \subseteq Handles
  BY DEF PoolInv, Holders
<1>1. PICK m \in Messages : /\ type[m] = None
                            /\ type' = [type EXCEPT ![m] = key[h]]
                            /\ content' = [content EXCEPT ![m] = "clean"]
                            /\ message' = [message EXCEPT ![h] = m]
  BY DEF AcquireNew
<1>2. /\ pc[h] = "miss" /\ key[h] \in Types /\ key[h] # None /\ h \notin Holders
      /\ pc' = [pc EXCEPT ![h] = "held"] /\ buckets' = buckets /\ key' = key
  BY <1>0, NoneAssumption DEF AcquireNew, HandlesOK, Goto, Holders, HasMessage
<1>3. TypeOK'
  BY <1>0, <1>1, <1>2 DEF TypeOK, HasMessage
<1>4. /\ message'[h] = m /\ pc'[h] = "held" /\ type'[m] = key[h]
      /\ \A g \in Handles \ {h} : message'[g] = message[g] /\ pc'[g] = pc[g]
      /\ \A n \in Messages \ {m} : type'[n] = type[n]
  BY <1>0, <1>1, <1>2 DEF TypeOK
<1>5. Holders' = Holders \cup {h}
  BY <1>4 DEF Holders, HasMessage
<1>6. \A t \in Types : \A i \in Slots(buckets[t]) : buckets[t][i] \in Messages \ {m}
  BY <1>0, <1>1, NoneAssumption DEF BucketsOK, Slots, TypeOK
<1>7. \A g \in Handles : g \in Holders => message[g] \in Messages \ {m}
  BY <1>0, <1>1, NoneAssumption DEF HandlesOK
<1>8. BucketsOK'
  BY <1>0, <1>2, <1>4, <1>6 DEF BucketsOK, Slots
<1>9. HandlesOK'
  BY <1>0, <1>2, <1>4, <1>5, <1>7 DEF HandlesOK
<1>10. Apart'
  BY <1>0, <1>2, <1>4, <1>5, <1>6 DEF Apart, Slots
<1>11. NothingLeaks'
  BY <1>0, <1>2, <1>4, <1>5, <1>7 DEF NothingLeaks, Slots
<1> QED BY <1>3, <1>8, <1>9, <1>10, <1>11 DEF PoolInv

\* Acquire finds the bucket empty: the handle holds nothing yet.
LEMMA MissStep ==
    ASSUME PoolInv, NEW h \in Handles, NEW t \in Types, AcquireMiss(h, t)
    PROVE  PoolInv'
<1>0. TypeOK /\ BucketsOK /\ HandlesOK /\ Apart /\ NothingLeaks /\ Holders \subseteq Handles
  BY DEF PoolInv, Holders
<1>1. /\ buckets' = buckets /\ message' = message /\ type' = type /\ h \notin Holders
      /\ key' = [key EXCEPT ![h] = t] /\ pc' = [pc EXCEPT ![h] = "miss"]
  BY DEF AcquireMiss, Goto, heapVars, Holders, HasMessage
<1>2. /\ Holders' = Holders
      /\ \A g \in Handles : g # h => key'[g] = key[g] /\ pc'[g] = pc[g]
  BY <1>0, <1>1 DEF TypeOK, Holders, HasMessage
<1>3. TypeOK'
  BY <1>0, <1>1 DEF AcquireMiss, heapVars, TypeOK
<1>4. BucketsOK' /\ Apart' /\ NothingLeaks'
  BY <1>0, <1>1, <1>2 DEF BucketsOK, Apart, NothingLeaks, Slots
<1>5. HandlesOK'
  BY <1>0, <1>1, <1>2 DEF HandlesOK, TypeOK
<1> QED BY <1>3, <1>4, <1>5 DEF PoolInv

\* A move leaves one handle with the message, and the key with it.
LEMMA MoveStep ==
    ASSUME PoolInv, NEW h \in Handles, NEW g \in Handles, Move(h, g)
    PROVE  PoolInv'
<1>0. TypeOK /\ BucketsOK /\ HandlesOK /\ Apart /\ NothingLeaks /\ Holders \subseteq Handles
  BY DEF PoolInv, Holders
<1>1. /\ buckets' = buckets /\ type' = type /\ content' = content /\ h # g
      /\ h \in Holders /\ g \notin Holders
      /\ message' = [message EXCEPT ![g] = message[h], ![h] = None]
      /\ key' = [key EXCEPT ![g] = key[h], ![h] = None]
      /\ pc' = [pc EXCEPT ![g] = "held", ![h] = "empty"]
  BY DEF Move, heapVars, Holders, HasMessage
<1>2. /\ message'[g] = message[h] /\ key'[g] = key[h] /\ pc'[g] = "held" /\ pc'[h] = "empty"
      /\ \A k \in Handles \ {g, h} : message'[k] = message[k] /\ key'[k] = key[k] /\ pc'[k] = pc[k]
  BY <1>0, <1>1 DEF TypeOK
<1>3. Holders' = (Holders \ {h}) \cup {g}
  BY <1>2 DEF Holders, HasMessage
<1>4. TypeOK'
  BY <1>0, <1>1 DEF TypeOK, HasMessage
<1>5. BucketsOK'
  BY <1>0, <1>1 DEF BucketsOK, Slots
<1>6. \A k \in Holders' : k = g \/ (k \in Holders /\ k # h /\ k # g)
  BY <1>3 DEF Holders
<1>7. \A k \in Handles : pc'[k] = "miss" => k # g /\ k # h
  BY <1>2
<1>8. HandlesOK'
  <2>1. ASSUME NEW k \in Holders'
        PROVE  message'[k] \in Messages /\ key'[k] \in Types /\ type'[message'[k]] = key'[k]
    <3>1. CASE k = g
      BY <1>0, <1>1, <1>2, <3>1 DEF HandlesOK
    <3>2. CASE k \in Holders /\ k # h /\ k # g
      BY <1>0, <1>1, <1>2, <3>2 DEF HandlesOK, Holders
    <3> QED BY <1>6, <3>1, <3>2
  <2>2. ASSUME NEW k \in Holders', NEW j \in Holders', message'[k] = message'[j]
        PROVE  k = j
    <3>1. CASE k = g /\ j # g
      BY <1>0, <1>1, <1>2, <1>6, <2>2, <3>1 DEF HandlesOK
    <3>2. CASE j = g /\ k # g
      BY <1>0, <1>1, <1>2, <1>6, <2>2, <3>2 DEF HandlesOK
    <3>3. CASE k # g /\ j # g
      BY <1>0, <1>1, <1>2, <1>6, <2>2, <3>3 DEF HandlesOK
    <3> QED BY <3>1, <3>2, <3>3
  <2>3. ASSUME NEW k \in Handles, pc'[k] = "miss" PROVE key'[k] \in Types
    BY <1>0, <1>2, <1>7, <2>3 DEF HandlesOK
  <2> QED BY <2>1, <2>2, <2>3 DEF HandlesOK
<1>9. Apart'
  <2>1. ASSUME NEW k \in Holders', NEW t \in Types, NEW i \in Slots(buckets[t])
        PROVE  buckets[t][i] # message'[k]
    <3>1. CASE k = g
      <4>1. buckets[t][i] # message[h]
        BY <1>0, <1>1 DEF Apart
      <4> QED BY <1>2, <3>1, <4>1
    <3>2. CASE k \in Holders /\ k # h /\ k # g
      <4>1. buckets[t][i] # message[k]
        BY <1>0, <3>2 DEF Apart
      <4>2. message'[k] = message[k]
        BY <1>0, <1>2, <3>2
      <4> QED BY <4>1, <4>2
    <3> QED BY <1>6, <3>1, <3>2
  <2> QED BY <1>1, <2>1 DEF Apart
<1>10. NothingLeaks'
  <2> SUFFICES ASSUME NEW m \in Messages, type[m] # None
               PROVE  \/ \E k \in Holders' : message'[k] = m
                      \/ \E t \in Types : \E i \in Slots(buckets[t]) : buckets[t][i] = m
    BY <1>1 DEF NothingLeaks, Slots
  <2>1. ASSUME NEW k \in Holders, message[k] = m
        PROVE  \E j \in Holders' : message'[j] = m
    <3>1. CASE k = h
      BY <1>2, <1>3, <2>1, <3>1
    <3>2. CASE k # h
      BY <1>0, <1>1, <1>2, <1>3, <2>1, <3>2
    <3> QED BY <3>1, <3>2
  <2>2. CASE \E t \in Types : \E i \in Slots(buckets[t]) : buckets[t][i] = m
    BY <2>2
  <2> QED BY <1>0, <2>1, <2>2 DEF NothingLeaks
<1> QED BY <1>4, <1>5, <1>8, <1>9, <1>10 DEF PoolInv

\* A released message goes into the bucket of its type, or off the heap.
LEMMA PushStep ==
    ASSUME PoolInv, NEW h \in Handles, ReleasePush(h)
    PROVE  PoolInv'
<1> DEFINE t == key[h]  m == message[h]  b == buckets[t]
<1>0. TypeOK /\ BucketsOK /\ HandlesOK /\ Apart /\ NothingLeaks /\ Holders \subseteq Handles
  BY DEF PoolInv, Holders
<1>1. /\ h \in Holders /\ t \in Types /\ m \in Messages /\ type[m] = t /\ content' = content
      /\ message' = [message EXCEPT ![h] = None] /\ key' = [key EXCEPT ![h] = None]
      /\ pc' = [pc EXCEPT ![h] = "empty"] /\ b \in Seq(Messages) /\ Len(b) \in Nat
      /\ \/ Len(b) >= BucketLimit /\ Free(m) /\ buckets' = buckets
         \/ Len(b) < BucketLimit /\ buckets' = [buckets EXCEPT ![t] = Append(b, m)] /\ type' = type
  BY <1>0 DEF ReleasePush, HandlesOK, Holders, HasMessage, Goto, TypeOK
<1>2. TypeOK'
  <2>1. Append(b, m) \in Seq(Messages)
    BY <1>1
  <2>2. buckets' \in [Types -> Seq(Messages)]
    BY <1>0, <1>1, <2>1 DEF TypeOK
  <2>3. type' \in [Messages -> Types \cup {None}]
    BY <1>0, <1>1 DEF TypeOK, Free
  <2>4. /\ message' \in [Handles -> Messages \cup {None}] /\ key' \in [Handles -> Types \cup {None}]
        /\ pc' \in [Handles -> {"empty", "miss"} \cup HasMessage]
        /\ content' \in [Messages -> Data \cup {"clean"}]
    BY <1>0, <1>1 DEF TypeOK
  <2> QED BY <2>2, <2>3, <2>4 DEF TypeOK
<1>3. /\ Holders' = Holders \ {h} /\ pc'[h] # "miss"
      /\ \A g \in Handles \ {h} : message'[g] = message[g] /\ key'[g] = key[g] /\ pc'[g] = pc[g]
  BY <1>0, <1>1 DEF TypeOK, Holders, HasMessage
<1>4. /\ \A g \in Handles \ {h} : g \in Holders => message[g] # m
      /\ \A u \in Types : \A i \in Slots(buckets[u]) : buckets[u][i] # m /\ buckets[u][i] \in Messages
  BY <1>0, <1>1 DEF HandlesOK, Apart, Slots, TypeOK
<1>5. CASE Free(m) /\ buckets' = buckets
  <2>1. type'[m] = None /\ \A n \in Messages \ {m} : type'[n] = type[n]
    BY <1>0, <1>1, <1>5 DEF Free, TypeOK
  <2>2. BucketsOK'
    BY <1>0, <1>4, <1>5, <2>1 DEF BucketsOK, Slots
  <2>3. HandlesOK'
    BY <1>0, <1>3, <1>4, <2>1 DEF HandlesOK
  <2>4. Apart' /\ NothingLeaks'
    BY <1>0, <1>3, <1>5, <2>1 DEF Apart, NothingLeaks, Slots
  <2> QED BY <1>2, <2>2, <2>3, <2>4 DEF PoolInv
<1>6. CASE Len(b) < BucketLimit /\ buckets' = [buckets EXCEPT ![t] = Append(b, m)] /\ type' = type
  <2> DEFINE r == Append(b, m)
  <2>1. /\ r \in Seq(Messages) /\ Len(r) = Len(b) + 1 /\ r[Len(b) + 1] = m
        /\ \A i \in 1..Len(b) : r[i] = b[i]
    BY <1>1
  <2>2. /\ buckets'[t] = r /\ Slots(buckets'[t]) = Slots(buckets[t]) \cup {Len(b) + 1}
        /\ \A u \in Types \ {t} : buckets'[u] = buckets[u] /\ Slots(buckets'[u]) = Slots(buckets[u])
    BY <1>0, <1>1, <1>6, <2>1 DEF TypeOK, Slots
  <2>3. \A i \in Slots(buckets[t]) : r[i] = b[i]
    BY <2>1 DEF Slots
  <2> HIDE DEF r
  <2>4. BucketsOK'
    <3>1. /\ Len(buckets'[t]) <= BucketLimit
          /\ \A i \in Slots(buckets'[t]) : type'[buckets'[t][i]] = t
          /\ \A i, j \in Slots(buckets'[t]) : buckets'[t][i] = buckets'[t][j] => i = j
      <4>1. Len(buckets'[t]) <= BucketLimit
        BY <1>1, <1>6, <2>1, <2>2, BucketLimitAssumption
      <4>2. \A i \in Slots(buckets[t]) : type[b[i]] = t /\ b[i] # m /\ \A j \in Slots(buckets[t]) : b[i] = b[j] => i = j
        BY <1>0, <1>1, <1>4 DEF BucketsOK
      <4>3. ASSUME NEW i \in Slots(buckets'[t])
            PROVE  \/ i \in Slots(b) /\ buckets'[t][i] = b[i]
                   \/ i = Len(b) + 1 /\ buckets'[t][i] = m
        BY <2>1, <2>2, <2>3, <4>3
      <4>4. \A i \in Slots(buckets'[t]) : type'[buckets'[t][i]] = t
        BY <1>1, <1>6, <4>2, <4>3
      <4>5. \A i, j \in Slots(buckets'[t]) : buckets'[t][i] = buckets'[t][j] => i = j
        BY <4>2, <4>3
      <4> QED BY <4>1, <4>4, <4>5
    <3>2. ASSUME NEW u \in Types, u # t
          PROVE  /\ Len(buckets'[u]) <= BucketLimit
                 /\ \A i \in Slots(buckets'[u]) : type'[buckets'[u][i]] = u
                 /\ \A i, j \in Slots(buckets'[u]) : buckets'[u][i] = buckets'[u][j] => i = j
      BY <1>0, <1>6, <2>2, <3>2 DEF BucketsOK
    <3> QED BY <3>1, <3>2 DEF BucketsOK
  <2>5. HandlesOK'
    BY <1>0, <1>3, <1>6 DEF HandlesOK
  <2>6. ASSUME NEW g \in Handles, g \in Holders', NEW u \in Types, NEW i \in Slots(buckets'[u])
        PROVE  buckets'[u][i] # message'[g]
    BY <1>0, <1>1, <1>3, <1>4, <2>1, <2>2, <2>3, <2>6 DEF Apart
  <2>7. ASSUME NEW n \in Messages, type[n] # None
        PROVE  \/ \E g \in Holders' : message'[g] = n
               \/ \E u \in Types : \E i \in Slots(buckets'[u]) : buckets'[u][i] = n
    <3>1. CASE n = m
      BY <1>1, <2>1, <2>2, <3>1
    <3>2. ASSUME NEW g \in Handles, g \in Holders, message[g] = n, n # m
          PROVE  \E k \in Holders' : message'[k] = n
      BY <1>3, <3>2
    <3>3. ASSUME NEW u \in Types, NEW i \in Slots(buckets[u]), buckets[u][i] = n
          PROVE  \E v \in Types : \E j \in Slots(buckets'[v]) : buckets'[v][j] = n
      <4>1. CASE u = t
        BY <1>1, <2>2, <2>3, <3>3, <4>1
      <4>2. CASE u # t
        BY <2>2, <3>3, <4>2
      <4> QED BY <4>1, <4>2
    <3> QED BY <1>0, <2>7, <3>1, <3>2, <3>3 DEF NothingLeaks
  <2>8. Apart'
    BY <1>0, <1>3, <2>6 DEF Apart
  <2>9. NothingLeaks'
    BY <1>6, <2>7 DEF NothingLeaks
  <2> QED BY <1>2, <2>4, <2>5, <2>8, <2>9 DEF PoolInv
<1> QED BY <1>1, <1>5, <1>6

\* Every step of a handle keeps the pool's invariant.
LEMMA PoolStep ==
    ASSUME PoolInv, NEW h \in Handles, HandleStep(h)
    PROVE  PoolInv'
BY ReuseStep, KeepStep, NewStep, MissStep, MoveStep, PushStep DEF HandleStep

\* Release clears a message before it can be seen in a bucket.
ReleasedClean == \A h \in Handles : pc[h] = "releasing" => content[message[h]] = "clean"

\* What is put into the pool has been cleared, and what is in it is written by nobody.
LEMMA CleanStep ==
    ASSUME PoolInv, PoolIsClean, ReleasedClean, NEW h \in Handles, HandleStep(h)
    PROVE  PoolIsClean' /\ ReleasedClean'
<1>0. TypeOK /\ HandlesOK /\ Apart /\ Holders \subseteq Handles
  BY DEF PoolInv, Holders
<1>c. ASSUME NEW m \in Messages, NEW c, h \in Holders, m = message[h],
             content' = [content EXCEPT ![m] = c], buckets' = buckets
      PROVE  PoolIsClean'
  <2>1. \A t \in Types : \A i \in Slots(buckets[t]) : buckets[t][i] \in Messages \ {m}
    BY <1>0, <1>c DEF Apart, TypeOK, Slots
  <2> QED BY <1>0, <1>c, <2>1 DEF PoolIsClean, TypeOK, Slots
<1>1. CASE AcquireClear(h) \/ (\E d \in Data : Fill(h, d)) \/ ReleaseClear(h)
  <2>1. /\ h \in Holders /\ message[h] \in Messages
        /\ buckets' = buckets /\ message' = message
    BY <1>0, <1>1 DEF AcquireClear, Fill, ReleaseClear, handleVars, Holders, HasMessage, HandlesOK
  <2>2. PICK c : content' = [content EXCEPT ![message[h]] = c] /\ (ReleaseClear(h) => c = "clean")
    BY <1>1 DEF AcquireClear, Fill, ReleaseClear
  <2>3. PoolIsClean'
    BY <1>c, <2>1, <2>2
  <2>4. ASSUME NEW g \in Handles, pc'[g] = "releasing" PROVE content'[message'[g]] = "clean"
    <3>1. CASE g = h
      <4>1. ReleaseClear(h)
        BY <1>0, <1>1, <2>4, <3>1 DEF AcquireClear, Fill, Goto, TypeOK
      <4> QED BY <1>0, <2>1, <2>2, <3>1, <4>1 DEF TypeOK
    <3>2. CASE g # h
      <4>1. pc[g] = "releasing" /\ g \in Holders
        BY <1>0, <1>1, <2>4, <3>2 DEF AcquireClear, Fill, ReleaseClear, Goto, TypeOK, Holders, HasMessage
      <4>2. message[g] \in Messages /\ message[g] # message[h]
        BY <1>0, <2>1, <3>2, <4>1 DEF HandlesOK
      <4> QED BY <1>0, <2>1, <2>2, <4>1, <4>2 DEF ReleasedClean, TypeOK
    <3> QED BY <3>1, <3>2
  <2> QED BY <2>3, <2>4 DEF ReleasedClean
<1>2. ASSUME NEW t \in Types, AcquireReuse(h, t) PROVE PoolIsClean' /\ ReleasedClean'
  <2> DEFINE b == buckets[t]  r == SubSeq(b, 1, Len(b) - 1)
  <2>1. /\ b \in Seq(Messages) /\ b # <<>> /\ buckets' = [buckets EXCEPT ![t] = r]
        /\ content' = content
    BY <1>0, <1>2 DEF AcquireReuse, heapVars, TypeOK
  <2>2. /\ Len(r) = Len(b) - 1 /\ \A i \in 1..Len(r) : r[i] = b[i]
        /\ Len(b) \in Nat \ {0}
    BY <2>1, TakeLast
  <2> HIDE DEF r
  <2>3. PoolIsClean'
    BY <1>0, <2>1, <2>2 DEF PoolIsClean, TypeOK
  <2>4. \A g \in Handles : pc'[g] = "releasing" => pc[g] = "releasing" /\ message'[g] = message[g]
    BY <1>0, <1>2 DEF AcquireReuse, Goto, TypeOK
  <2> QED BY <2>1, <2>3, <2>4 DEF ReleasedClean
<1>3. ASSUME NEW t \in Types, AcquireMiss(h, t) PROVE PoolIsClean' /\ ReleasedClean'
  BY <1>0, <1>3 DEF AcquireMiss, Goto, heapVars, PoolIsClean, ReleasedClean, TypeOK
<1>4. CASE AcquireNew(h)
  <2>1. PICK m \in Messages : /\ content' = [content EXCEPT ![m] = "clean"]
                              /\ message' = [message EXCEPT ![h] = m]
    BY <1>4 DEF AcquireNew
  <2>2. buckets' = buckets /\ pc' = [pc EXCEPT ![h] = "held"]
    BY <1>4 DEF AcquireNew, Goto
  <2>3. \A n : content[n] = "clean" /\ n \in Messages => content'[n] = "clean"
    BY <1>0, <2>1 DEF TypeOK
  <2>4. PoolIsClean'
    BY <1>0, <2>2, <2>3 DEF PoolIsClean, TypeOK
  <2>5. \A g \in Handles : pc'[g] = "releasing" =>
           pc[g] = "releasing" /\ message'[g] = message[g] /\ message[g] \in Messages
    BY <1>0, <2>1, <2>2 DEF TypeOK, HandlesOK, Holders, HasMessage
  <2> QED BY <2>3, <2>4, <2>5 DEF ReleasedClean
<1>5. ASSUME NEW g \in Handles, Move(h, g) PROVE PoolIsClean' /\ ReleasedClean'
  <2>1. \A k \in Handles : pc'[k] = "releasing" => pc[k] = "releasing" /\ message'[k] = message[k]
    BY <1>0, <1>5 DEF Move, TypeOK
  <2> QED BY <1>0, <1>5, <2>1 DEF Move, heapVars, PoolIsClean, ReleasedClean
<1>6. CASE ReleasePush(h)
  <2> DEFINE t == key[h]  m == message[h]  b == buckets[t]  r == Append(b, m)
  <2>1. /\ m \in Messages /\ t \in Types /\ b \in Seq(Messages) /\ content[m] = "clean"
    BY <1>0, <1>6 DEF ReleasePush, HandlesOK, Holders, HasMessage, ReleasedClean, TypeOK
  <2>2. /\ Len(r) = Len(b) + 1 /\ r[Len(b) + 1] = m /\ \A i \in 1..Len(b) : r[i] = b[i]
        /\ Len(b) \in Nat
    BY <2>1
  <2>3. /\ buckets' = buckets \/ buckets' = [buckets EXCEPT ![t] = r]
        /\ content' = content
    BY <1>6 DEF ReleasePush
  <2> HIDE DEF r
  <2>4. ASSUME NEW i \in 1..Len(r) PROVE content[r[i]] = "clean"
    <3>1. CASE i = Len(b) + 1
      BY <2>1, <2>2, <3>1
    <3>2. CASE i \in 1..Len(b)
      BY <2>1, <2>2, <3>2 DEF PoolIsClean
    <3> QED BY <2>2, <3>1, <3>2
  <2>5. PoolIsClean'
    BY <1>0, <2>1, <2>3, <2>4 DEF PoolIsClean, TypeOK
  <2>6. \A g \in Handles : pc'[g] = "releasing" => pc[g] = "releasing" /\ message'[g] = message[g]
    BY <1>0, <1>6 DEF ReleasePush, Goto, TypeOK
  <2> QED BY <2>3, <2>5, <2>6 DEF ReleasedClean
<1> QED BY <1>1, <1>2, <1>3, <1>4, <1>5, <1>6 DEF HandleStep

\* The invariant of the pool, and cleanliness, in every reachable state of MessagePool.
THEOREM PoolInvariance == Spec => [](PoolInv /\ PoolIsClean /\ ReleasedClean)
<1>1. Init => PoolInv /\ PoolIsClean /\ ReleasedClean
  <2> SUFFICES ASSUME Init PROVE PoolIsClean /\ ReleasedClean
    BY PoolInit
  <2>1. \A t \in Types : 1..Len(buckets[t]) = {}
    BY DEF Init
  <2> QED BY <2>1 DEF Init, PoolIsClean, ReleasedClean
<1>2. PoolInv /\ PoolIsClean /\ ReleasedClean /\ [Next]_vars
        => (PoolInv /\ PoolIsClean /\ ReleasedClean)'
  <2> SUFFICES ASSUME PoolInv, PoolIsClean, ReleasedClean, [Next]_vars
               PROVE  (PoolInv /\ PoolIsClean /\ ReleasedClean)'
    OBVIOUS
  <2>1. CASE Next
    BY <2>1, PoolStep, CleanStep DEF Next
  <2>2. CASE UNCHANGED vars
    <3> USE <2>2 DEF vars, heapVars, handleVars
    <3>1. TypeOK' /\ BucketsOK' /\ HandlesOK'
      BY DEF PoolInv, TypeOK, BucketsOK, HandlesOK, Holders
    <3>2. Apart' /\ NothingLeaks'
      BY DEF PoolInv, Apart, NothingLeaks, Holders
    <3>3. PoolIsClean' /\ ReleasedClean'
      BY DEF PoolIsClean, ReleasedClean
    <3> QED BY <3>1, <3>2, <3>3 DEF PoolInv
  <2> QED BY <2>1, <2>2
<1> QED BY <1>1, <1>2, PTL DEF Spec

\* A message on the heap has exactly one handle or one slot, one that is not has none.
LEMMA OneHolderFollows == PoolInv => OneHolder
<1> SUFFICES ASSUME PoolInv, NEW m \in Messages
             PROVE  Cardinality(HolderOf(m)) + Cardinality(SlotsOf(m))
                      = IF m \in Allocated THEN 1 ELSE 0
  BY DEF OneHolder
<1>0. /\ TypeOK /\ BucketsOK /\ HandlesOK /\ Apart /\ NothingLeaks
      /\ Cardinality({}) = 0 /\ (\A x : Cardinality({x}) = 1)
  BY FS_EmptySet, FS_Singleton DEF PoolInv
<1>1. HolderOf(m) = {h \in Holders : message[h] = m}
  BY DEF HolderOf, Holders
<1>2. \A t \in Types : Slots(buckets[t]) \subseteq 1..BucketLimit
  BY <1>0, BucketLimitAssumption DEF BucketsOK, Slots, TypeOK
<1>3. ASSUME NEW t \in Types, NEW i \in Slots(buckets[t]), buckets[t][i] = m
      PROVE  <<t, i>> \in SlotsOf(m) /\ type[m] = t
  <2>1. i \in 1..BucketLimit
    BY <1>2
  <2>2. i <= Len(buckets[t])
    BY DEF Slots
  <2>3. type[m] = t
    BY <1>0, <1>3 DEF BucketsOK
  <2> QED BY <1>3, <2>1, <2>2, <2>3 DEF SlotsOf
<1>4. ASSUME NEW x \in SlotsOf(m)
      PROVE  \E t \in Types : \E i \in Slots(buckets[t]) : x = <<t, i>> /\ buckets[t][i] = m
  <2>1. PICK t \in Types, i \in 1..BucketLimit : x = <<t, i>>
    BY <1>4 DEF SlotsOf
  <2>2. i <= Len(buckets[t]) /\ buckets[t][i] = m
    BY <1>4, <2>1 DEF SlotsOf
  <2>3. i \in Slots(buckets[t])
    BY <1>0, <2>2, BucketLimitAssumption DEF Slots, TypeOK
  <2> QED BY <2>1, <2>2, <2>3
<1>5. \A h \in Holders : message[h] = m => type[m] # None
  BY <1>0, NoneAssumption DEF HandlesOK, Holders
<1>6. CASE type[m] = None
  <2>1. HolderOf(m) = {}
    BY <1>1, <1>5, <1>6
  <2>2. SlotsOf(m) = {}
    BY <1>3, <1>4, <1>6, NoneAssumption
  <2> QED BY <1>0, <1>6, <2>1, <2>2 DEF Allocated
<1>7. ASSUME NEW h \in Holders, message[h] = m
      PROVE  Cardinality(HolderOf(m)) = 1 /\ Cardinality(SlotsOf(m)) = 0
  <2>1. HolderOf(m) = {h}
    BY <1>0, <1>1, <1>7 DEF HandlesOK, Holders
  <2>2. SlotsOf(m) = {}
    BY <1>0, <1>4, <1>7 DEF Apart
  <2> QED BY <1>0, <2>1, <2>2
<1>8. ASSUME NEW t \in Types, NEW i \in Slots(buckets[t]), buckets[t][i] = m
      PROVE  Cardinality(HolderOf(m)) = 0 /\ Cardinality(SlotsOf(m)) = 1
  <2>1. HolderOf(m) = {}
    BY <1>0, <1>1, <1>8 DEF Apart
  <2>2. ASSUME NEW x \in SlotsOf(m) PROVE x = <<t, i>>
    <3>0. PICK u \in Types : \E j \in Slots(buckets[u]) : x = <<u, j>> /\ buckets[u][j] = m
      BY <1>4
    <3>1. PICK j \in Slots(buckets[u]) : x = <<u, j>> /\ buckets[u][j] = m
      BY <3>0
    <3>2. u = t
      BY <1>3, <1>8, <3>1
    <3>3. j = i
      BY <1>0, <1>8, <3>1, <3>2 DEF BucketsOK
    <3> QED BY <3>1, <3>2, <3>3
  <2>3. SlotsOf(m) = {<<t, i>>}
    BY <1>3, <1>8, <2>2
  <2> QED BY <1>0, <2>1, <2>3
<1>9. CASE type[m] # None
  BY <1>0, <1>7, <1>8, <1>9 DEF NothingLeaks, Allocated
<1> QED BY <1>6, <1>9

\* In every reachable state of the pool, with any number of threads, a message belongs to
\* one handle or lies in one slot: none is shared, lost, returned twice or used when freed.
THEOREM MessagesHaveOneHolder == Spec => []OneHolder
BY PoolInvariance, OneHolderFollows, PTL

\* In every reachable state of the pool, a message is handed out and put back under its
\* own type, and one that lies in a bucket has no data of the call that used it last.
THEOREM MessagesAreReusedAsNew == Spec => []ReusedAsNew
<1>1. PoolInv => RightBucket
  BY DEF PoolInv, BucketsOK, HandlesOK, Holders, RightBucket, Slots
<1>2. PoolInv /\ PoolIsClean => ReusedAsNew
  BY <1>1 DEF ReusedAsNew
<1> QED BY <1>2, PoolInvariance, PTL

-----------------------------------------------------------------------------
(* The dispatcher *)

\* Owners, Known and Expected, as functions of what they depend on.
OwnersAt(r, n) == {i \in 1..r : Has(i, n)}
KnownAt(r, name) == \E i \in 1..r : Services[i].name = name /\ Services[i].methods # {}
CodesFor(r, q, s) ==
    IF q.header = "bad" THEN {"kInvalidPacket"}
    ELSE IF OwnersAt(r, q.name) = {}
         THEN {IF KnownAt(r, q.name[1]) THEN "kUnknownMethod" ELSE "kUnknownService"}
    ELSE IF q.payload = "bad" THEN {"kDeserializeError"}
    ELSE IF s = "keeps" THEN {"kInternalError", "kOk", "kSerializeError"}
    ELSE {"kOk", "kSerializeError"}

\* methods_ has the last service registered with a method, and no more are registered
\* once the server runs.
RegistryOK ==
    /\ serving => registered = Len(Services)
    /\ \A n \in Names : methods[n] # 0 => methods[n] \in OwnersAt(registered, n)
    /\ \A n \in Names : \A i \in OwnersAt(registered, n) : i <= methods[n]

Decoded == {"find", "request", "response", "check", "serialize"}
Called == {"check", "serialize"}

\* How far HandleFrame has got says what is known of its frame.
StageOK ==
    /\ stage \in {"idle", "find", "request"} => pc[ResponseHandle] = "empty"
    /\ stage # "idle" =>
        /\ current \in Frames /\ serving /\ request[current] \in Requests /\ reply[current] = None
    /\ stage \in Decoded => request[current].header = "good"
    /\ stage \in Decoded \ {"find"} => OwnersAt(registered, request[current].name) # {}
    /\ stage \in Called \cup {"response"} => request[current].payload = "good"
    /\ stage \in Decoded \ Called => service[current] = "none"
    /\ stage \in Called => service[current] \in Behaviours /\ pc[ResponseHandle] = "held"
    /\ stage = "check" /\ service[current] # "keeps" => called[current] /\ done_called
    /\ stage = "serialize" => called[current]
    /\ stage = "return" =>
        /\ result.code \in CodesFor(registered, request[current], service[current])
        /\ result.code = "kOk" => called[current]

\* The frames that wait, that a service has seen, whose closure is still out, and that
\* have been answered.
FrameOK(f) ==
    /\ request[f] = None => reply[f] = None /\ service[f] = "none"
    /\ request[f] # None => serving
    /\ service[f] # "none" =>
        /\ request[f] \in Requests /\ request[f].header = "good"
        /\ OwnersAt(registered, request[f].name) # {}
    /\ f \in kept => service[f] = "keeps" /\ ~called[f] /\ closure[f] = "live"
    /\ reply[f] # None =>
        /\ reply[f].code \in CodesFor(registered, request[f], service[f])
        /\ reply[f].request_id = IF request[f].header = "good" THEN f ELSE None
        /\ reply[f].code = "kOk" => called[f]
FramesOK == \A f \in Frames : FrameOK(f)

DispatchInv == PoolInv /\ DispatchTypeOK /\ RegistryOK /\ StageOK /\ FramesOK

\* A step of the server, or the arrival of a frame at it.
DispatcherStep ==
    \/ RegisterService \/ Run \/ HandleFrame \/ ServiceThread
    \/ \E f \in Frames : \E r \in Requests : Decode(f, r)

\* What a request is made of.
LEMMA RequestFields ==
    ASSUME NEW r \in Requests
    PROVE  /\ r.header \in {"good", "bad"}
           /\ r.header = "good" => r.name \in Names /\ r.payload \in {"good", "bad"}
BY DEF Requests

\* The codes that are replied with are all of RpcStatus's.
LEMMA CodesForType == \A r, q, s : CodesFor(r, q, s) \subseteq Codes
BY DEF CodesFor, Codes

\* Only the two handles of HandleFrame work on the pool, and every step of theirs is one
\* of MessagePool; a service that kept the response pointer writes content alone.
LEMMA DispatcherPool ==
    ASSUME DispatchInv, DispatcherStep
    PROVE  /\ PoolInv'
           /\ \/ UNCHANGED poolVars
              \/ \E h \in {RequestHandle, ResponseHandle} : HandleStep(h)
              \/ \E f \in kept : LateFill(f)
<1>0. PoolInv /\ DispatchTypeOK /\ StageOK
  BY DEF DispatchInv
<1>1. \/ UNCHANGED poolVars
      \/ \E h \in {RequestHandle, ResponseHandle} : HandleStep(h)
      \/ \E f \in kept : LateFill(f)
  <2>1. CASE AcquireMessage
    BY <2>1, TypesAssumption DEF AcquireMessage, Acquire, HandleStep
  <2>2. CASE Deserialize
    <3>1. current \in Data
      BY <1>0, <2>2, FramesAssumption DEF Deserialize, StageOK
    <3> QED BY <2>2, <3>1 DEF Deserialize, HandleStep
  <2>3. CASE CallMethod
    <3>1. current \in Data
      BY <1>0, <2>3, FramesAssumption DEF CallMethod, StageOK
    <3> QED BY <2>3, <3>1 DEF CallMethod, HandleStep
  <2>4. CASE ReleaseMessage
    BY <2>4 DEF ReleaseMessage, Release, HandleStep
  <2>5. ASSUME NEW f \in Frames, LateFill(f) PROVE \E g \in kept : LateFill(g)
    BY <2>5 DEF LateFill
  <2>6. CASE Find \/ CheckDone \/ Serialize \/ OnFrame \/ RegisterService \/ Run
    BY <2>6 DEF Find, CheckDone, Serialize, OnFrame, RegisterService, Run
  <2>7. CASE \E f \in Frames : LateRun(f) \/ \E r \in Requests : Decode(f, r)
    BY <2>7 DEF LateRun, Decode
  <2> QED BY <2>1, <2>2, <2>3, <2>4, <2>5, <2>6, <2>7 DEF DispatcherStep, HandleFrame, ServiceThread
<1>2. ASSUME NEW h \in {RequestHandle, ResponseHandle}, HandleStep(h) PROVE PoolInv'
  BY <1>0, <1>2, PoolStep, HandlesAssumption
<1>3. ASSUME NEW f \in kept, LateFill(f) PROVE PoolInv'
  <2>1. f \in Data /\ content' = [content EXCEPT ![response[f]] = f]
        /\ buckets' = buckets /\ message' = message /\ key' = key /\ pc' = pc /\ type' = type
    BY <1>0, <1>3, FramesAssumption DEF LateFill, DispatchTypeOK
  <2>2. TypeOK'
    BY <1>0, <2>1 DEF PoolInv, TypeOK
  <2>3. BucketsOK' /\ HandlesOK' /\ Apart' /\ NothingLeaks'
    BY <1>0, <2>1 DEF PoolInv, BucketsOK, HandlesOK, Apart, NothingLeaks, Holders
  <2> QED BY <2>2, <2>3 DEF PoolInv
<1>4. ASSUME UNCHANGED poolVars PROVE PoolInv'
  BY <1>0, <1>4 DEF poolVars, PoolInv, TypeOK, BucketsOK, HandlesOK, Apart, NothingLeaks, Holders
<1> QED BY <1>1, <1>2, <1>3, <1>4

\* Steps inside HandleFrame that leave the frames as they are.
LEMMA SameFrames ==
    ASSUME FramesOK, UNCHANGED <<registryVars, request, reply, service, kept, called, closure>>
    PROVE  FramesOK'
BY DEF FramesOK, FrameOK, registryVars

\* Registration ends before the first frame arrives.
LEMMA RegistryStep ==
    ASSUME DispatchInv, RegisterService \/ Run
    PROVE  DispatchInv'
<1>0. PoolInv /\ DispatchTypeOK /\ RegistryOK /\ StageOK /\ FramesOK
  BY DEF DispatchInv
<1>1. PoolInv'
  BY DispatcherPool DEF DispatcherStep
<1>2. /\ stage' = stage /\ current' = current /\ request' = request /\ done_called' = done_called
      /\ called' = called /\ closure' = closure /\ service' = service /\ kept' = kept
      /\ response' = response /\ disturbed' = disturbed /\ result' = result /\ reply' = reply /\ pc' = pc
  BY DEF RegisterService, Run, closureVars, serviceVars, poolVars
<1>3. ~serving /\ registered \in Nat /\ Len(Services) \in Nat
  BY <1>0, ServicesAssumption DEF RegisterService, Run, RegistryOK, DispatchTypeOK
<1>4. stage = "idle" /\ \A f \in Frames : request[f] = None /\ reply[f] = None /\ service[f] = "none"
                                          /\ f \notin kept
  BY <1>0, <1>3 DEF StageOK, FramesOK, FrameOK
<1>5. StageOK'
  BY <1>0, <1>2, <1>4 DEF StageOK, Decoded, Called
<1>6. FramesOK'
  BY <1>2, <1>4 DEF FramesOK, FrameOK
<1>7. DispatchTypeOK' /\ RegistryOK'
  <2>1. TypeOK'
    BY <1>1 DEF PoolInv
  <2>2. CASE Run
    BY <1>0, <1>2, <2>1, <2>2 DEF Run, DispatchTypeOK, RegistryOK
  <2>3. CASE RegisterService
    <3> DEFINE k == registered + 1
    <3>1. /\ registered' = k /\ serving' = serving /\ k \in 1..Len(Services)
          /\ methods' = [n \in Names |-> IF Has(k, n) THEN k ELSE methods[n]]
      BY <1>0, <1>3, <2>3 DEF RegisterService, DispatchTypeOK
    <3>2. DispatchTypeOK'
      BY <1>0, <1>2, <1>3, <2>1, <3>1 DEF DispatchTypeOK
    <3>3. \A i : i \in 1..k <=> i \in 1..registered \/ i = k
      BY <1>3
    <3> HIDE DEF k
    <3>4. ASSUME NEW n \in Names
          PROVE  OwnersAt(k, n) = OwnersAt(registered, n) \cup (IF Has(k, n) THEN {k} ELSE {})
      BY <3>3 DEF OwnersAt
    <3>5. \A n \in Names : \A i \in OwnersAt(registered, n) : i <= k
      BY <1>3 DEF OwnersAt, k
    <3>6. ASSUME NEW n \in Names
          PROVE  /\ methods'[n] # 0 => methods'[n] \in OwnersAt(k, n)
                 /\ \A i \in OwnersAt(k, n) : i <= methods'[n]
      <4>1. CASE Has(k, n)
        BY <3>1, <3>4, <3>5, <4>1
      <4>2. CASE ~Has(k, n)
        BY <1>0, <3>1, <3>4, <4>2 DEF RegistryOK
      <4> QED BY <4>1, <4>2
    <3> QED BY <1>3, <3>1, <3>2, <3>6 DEF RegistryOK
  <2> QED BY <2>2, <2>3
<1> QED BY <1>1, <1>5, <1>6, <1>7 DEF DispatchInv

\* A frame arrives and is decoded.
LEMMA DecodeStep ==
    ASSUME DispatchInv, NEW f \in Frames, NEW r \in Requests, Decode(f, r)
    PROVE  DispatchInv'
<1>0. PoolInv /\ DispatchTypeOK /\ RegistryOK /\ StageOK /\ FramesOK
  BY DEF DispatchInv
<1>1. PoolInv'
  BY DispatcherPool DEF DispatcherStep
<1>2. /\ registered' = registered /\ serving' = serving /\ methods' = methods
      /\ done_called' = done_called /\ called' = called /\ closure' = closure
      /\ service' = service /\ kept' = kept /\ response' = response /\ disturbed' = disturbed /\ reply' = reply
      /\ pc' = pc /\ current' = f /\ request' = [request EXCEPT ![f] = r]
      /\ serving /\ stage = "idle" /\ request[f] = None
  BY DEF Decode, closureVars, serviceVars, poolVars, registryVars
<1>3. \/ r.header = "bad" /\ stage' = "return" /\ result' = Error("kInvalidPacket")
      \/ r.header = "good" /\ stage' = "find" /\ result' = result
  BY RequestFields DEF Decode, Return
<1>4. request'[f] = r /\ reply[f] = None /\ service[f] = "none" /\ r # None
      /\ (\A g \in Frames \ {f} : request'[g] = request[g])
  BY <1>0, <1>2, RequestsAssumption DEF FramesOK, FrameOK, DispatchTypeOK
<1>5. DispatchTypeOK'
  <2>1. TypeOK'
    BY <1>1 DEF PoolInv
  <2>2. result' \in [code : Codes, content : Data \cup {"clean"}]
    BY <1>0, <1>3 DEF DispatchTypeOK, Error, Codes
  <2> QED BY <1>0, <1>2, <1>3, <2>1, <2>2 DEF DispatchTypeOK
<1>6. RegistryOK'
  BY <1>0, <1>2 DEF RegistryOK
<1>7. StageOK'
  BY <1>0, <1>2, <1>3, <1>4 DEF StageOK, Decoded, Called, CodesFor, Error
<1>8. FramesOK'
  BY <1>0, <1>2, <1>4 DEF FramesOK, FrameOK
<1> QED BY <1>1, <1>5, <1>6, <1>7, <1>8 DEF DispatchInv

\* A name is looked up: the entry is there iff a registered service has the method, and
\* the reason of a miss is the one the registrations give.
LEMMA FindTells ==
    ASSUME DispatchInv, NEW n \in Names
    PROVE  /\ methods[n] = 0 <=> OwnersAt(registered, n) = {}
           /\ FindError(n) = IF KnownAt(registered, n[1]) THEN "kUnknownMethod" ELSE "kUnknownService"
<1>0. /\ DispatchTypeOK /\ RegistryOK /\ registered \in 0..Len(Services) /\ Len(Services) \in Nat
      /\ registered \in Nat
  BY ServicesAssumption DEF DispatchInv, DispatchTypeOK
<1>1. \A m \in Names : \A i \in OwnersAt(registered, m) : i \in 1..Len(Services) /\ i # 0
                          /\ Services[i].name = m[1] /\ m[2] \in Services[i].methods
  BY <1>0 DEF OwnersAt, Has
<1>2. ASSUME NEW m \in Names PROVE methods[m] = 0 <=> OwnersAt(registered, m) = {}
  <2>1. ASSUME methods[m] = 0, NEW i \in OwnersAt(registered, m) PROVE FALSE
    <3>1. i <= 0 /\ i \in 1..Len(Services)
      BY <1>0, <1>1, <2>1 DEF RegistryOK
    <3> QED BY <1>0, <3>1
  <2>2. methods[m] # 0 => OwnersAt(registered, m) # {}
    BY <1>0 DEF RegistryOK
  <2> QED BY <2>1, <2>2
<1>3. ASSUME NEW m \in Names, m[1] = n[1], methods[m] # 0 PROVE KnownAt(registered, n[1])
  <2>1. PICK i \in OwnersAt(registered, m) : TRUE
    BY <1>2, <1>3
  <2>2. i \in 1..registered
    BY DEF OwnersAt
  <2> QED BY <1>1, <1>3, <2>1, <2>2 DEF KnownAt
<1>4. ASSUME KnownAt(registered, n[1]) PROVE \E m \in Names : m[1] = n[1] /\ methods[m] # 0
  <2>1. PICK i \in 1..registered : Services[i].name = n[1] /\ Services[i].methods # {}
    BY <1>4 DEF KnownAt
  <2>2. PICK x \in Services[i].methods : TRUE
    BY <2>1
  <2> DEFINE m == <<n[1], x>>
  <2>3. m \in Names
    BY <1>0, <2>1, <2>2, ServicesAssumption
  <2>4. i \in OwnersAt(registered, m)
    BY <2>1, <2>2 DEF OwnersAt, Has
  <2>5. m[1] = n[1] /\ methods[m] # 0
    BY <1>2, <2>3, <2>4
  <2> QED BY <2>3, <2>5
<1> QED BY <1>2, <1>3, <1>4 DEF FindError

\* Find, CheckDone and Serialize: each goes on, or returns with the code of its stage.
LEMMA LocalStep ==
    ASSUME DispatchInv, Find \/ CheckDone \/ Serialize
    PROVE  DispatchInv'
<1> DEFINE q == request[current]
<1>0. PoolInv /\ DispatchTypeOK /\ RegistryOK /\ StageOK /\ FramesOK
  BY DEF DispatchInv
<1>1. PoolInv' /\ TypeOK'
  BY DispatcherPool DEF DispatcherStep, HandleFrame, PoolInv
<1>2. /\ registered' = registered /\ serving' = serving /\ methods' = methods
      /\ done_called' = done_called /\ called' = called /\ current' = current
      /\ service' = service /\ kept' = kept /\ response' = response /\ disturbed' = disturbed /\ reply' = reply
      /\ pc' = pc /\ request' = request
  BY DEF Find, CheckDone, Serialize, closureVars, serviceVars, poolVars, registryVars
<1>3. /\ current \in Frames /\ q \in Requests /\ q.header = "good" /\ serving
      /\ q.name \in Names /\ q.payload \in {"good", "bad"} /\ reply[current] = None
  BY <1>0, RequestFields DEF StageOK, Find, CheckDone, Serialize, Decoded
<1>4. RegistryOK'
  BY <1>0, <1>2 DEF RegistryOK
<1>5. CASE Find
  <2>1. closure' = closure
    BY <1>5 DEF Find, closureVars
  <2>2. \/ /\ OwnersAt(registered, q.name) = {} /\ stage' = "return"
           /\ result' = Error(IF KnownAt(registered, q.name[1]) THEN "kUnknownMethod"
                              ELSE "kUnknownService")
        \/ OwnersAt(registered, q.name) # {} /\ stage' = "request" /\ result' = result
    BY <1>3, <1>5, FindTells DEF Find, Return
  <2>3. DispatchTypeOK'
    BY <1>0, <1>1, <1>2, <2>1, <2>2 DEF DispatchTypeOK, Error, Codes
  <2>4. StageOK'
    BY <1>0, <1>2, <1>3, <1>5, <2>2 DEF StageOK, Decoded, Called, CodesFor, Error, Find
  <2>5. FramesOK'
    BY <1>0, <1>2, <2>1, SameFrames DEF registryVars
  <2> QED BY <1>1, <1>4, <2>3, <2>4, <2>5 DEF DispatchInv
<1>6. CASE Serialize
  <2>1. /\ closure' = closure /\ stage = "serialize" /\ stage' = "return"
        /\ \/ result' = [code |-> "kOk", content |-> content[message[ResponseHandle]]]
           \/ result' = Error("kSerializeError")
    BY <1>6 DEF Serialize, closureVars, Return
  <2>2. message[ResponseHandle] \in Messages
    BY <1>0, <2>1, HandlesAssumption DEF StageOK, Called, PoolInv, HandlesOK, Holders, HasMessage
  <2>3. DispatchTypeOK'
    BY <1>0, <1>1, <1>2, <2>1, <2>2 DEF DispatchTypeOK, Error, Codes, TypeOK
  <2>4. StageOK'
    BY <1>0, <1>2, <1>3, <2>1 DEF StageOK, Decoded, Called, CodesFor, Error
  <2>5. FramesOK'
    BY <1>0, <1>2, <2>1, SameFrames DEF registryVars
  <2> QED BY <1>1, <1>4, <2>3, <2>4, <2>5 DEF DispatchInv
<1>7. CASE CheckDone
  <2>1. /\ stage = "check"
        /\ \/ /\ called[current] /\ stage' = "serialize" /\ result' = result
              /\ closure' = [closure EXCEPT ![current] = "deleted"]
           \/ /\ ~(called[current] /\ done_called) /\ stage' = "return"
              /\ result' = Error("kInternalError") /\ closure' = closure
    BY <1>7 DEF CheckDone, Return
  <2>2. DispatchTypeOK'
    BY <1>0, <1>1, <1>2, <2>1 DEF DispatchTypeOK, Error, Codes
  <2>3. StageOK'
    BY <1>0, <1>2, <1>3, <2>1 DEF StageOK, Decoded, Called, CodesFor, Error
  <2>4. \A f \in Frames : f \in kept => closure'[f] = closure[f]
    BY <1>0, <1>3, <2>1 DEF DispatchTypeOK, FramesOK, FrameOK
  <2>5. FramesOK'
    BY <1>0, <1>2, <2>4 DEF FramesOK, FrameOK
  <2> QED BY <1>1, <1>4, <2>2, <2>3, <2>5 DEF DispatchInv
<1> QED BY <1>5, <1>6, <1>7

\* Acquire and Release in HandleFrame, and a late write of a service, move nothing but
\* the pool and the record of disturbed frames.
LEMMA PoolOnlyStep ==
    ASSUME DispatchInv, AcquireMessage \/ ReleaseMessage \/ (\E f \in Frames : LateFill(f))
    PROVE  DispatchInv'
<1>0. PoolInv /\ DispatchTypeOK /\ RegistryOK /\ StageOK /\ FramesOK
  BY DEF DispatchInv
<1>1. PoolInv' /\ TypeOK'
  BY DispatcherPool DEF DispatcherStep, HandleFrame, ServiceThread, PoolInv
<1>2. /\ UNCHANGED <<registryVars, stage, current, request, closureVars, service, kept, response,
                      result, reply>>
      /\ disturbed' \subseteq Frames
  <2>1. CASE AcquireMessage \/ ReleaseMessage
    BY <1>0, <2>1 DEF AcquireMessage, ReleaseMessage, dispatchVars, serviceVars, DispatchTypeOK
  <2>2. ASSUME NEW f \in Frames, LateFill(f)
        PROVE  disturbed' \subseteq Frames
    <3>1. HoldsResponse(response[f]) => current \in Frames
      BY <1>0 DEF HoldsResponse, StageOK
    <3> QED BY <1>0, <2>2, <3>1 DEF LateFill, DispatchTypeOK
  <2>3. ASSUME NEW f \in Frames, LateFill(f)
        PROVE  UNCHANGED <<registryVars, stage, current, request, closureVars, service, kept,
                           response, result, reply>>
    BY <2>3 DEF LateFill
  <2> QED BY <2>1, <2>2, <2>3
<1>3. /\ registered' = registered /\ serving' = serving /\ methods' = methods
      /\ done_called' = done_called /\ called' = called /\ closure' = closure
      /\ current' = current /\ stage' = stage /\ result' = result
      /\ service' = service /\ kept' = kept /\ response' = response /\ reply' = reply
      /\ request' = request
  BY <1>2 DEF closureVars, registryVars
<1>4. stage \in {"idle", "find", "request", "check", "serialize"}
        => pc'[ResponseHandle] = pc[ResponseHandle]
  <2>1. CASE AcquireMessage
    BY <1>0, <2>1, HandlesAssumption
       DEF AcquireMessage, Acquire, AcquireReuse, AcquireMiss, AcquireClear, AcquireNew, Goto,
           PoolInv, TypeOK
  <2>2. CASE ReleaseMessage
    BY <2>2 DEF ReleaseMessage
  <2>3. CASE \E f \in Frames : LateFill(f)
    BY <2>3 DEF LateFill
  <2> QED BY <2>1, <2>2, <2>3
<1>5. DispatchTypeOK'
  BY <1>0, <1>1, <1>2, <1>3 DEF DispatchTypeOK
<1>6. RegistryOK'
  BY <1>0, <1>3 DEF RegistryOK
<1>7. StageOK'
  BY <1>0, <1>3, <1>4 DEF StageOK, Called
<1>8. FramesOK'
  BY <1>0, <1>3, SameFrames DEF registryVars
<1> QED BY <1>1, <1>5, <1>6, <1>7, <1>8 DEF DispatchInv

\* The payload is parsed.
LEMMA DeserializeStep ==
    ASSUME DispatchInv, Deserialize
    PROVE  DispatchInv'
<1> DEFINE q == request[current]
<1>0. PoolInv /\ DispatchTypeOK /\ RegistryOK /\ StageOK /\ FramesOK
  BY DEF DispatchInv
<1>1. PoolInv' /\ TypeOK'
  BY DispatcherPool DEF DispatcherStep, HandleFrame, PoolInv
<1>2. /\ registered' = registered /\ serving' = serving /\ methods' = methods
      /\ done_called' = done_called /\ called' = called /\ closure' = closure
      /\ current' = current /\ service' = service /\ kept' = kept /\ response' = response /\ disturbed' = disturbed
      /\ reply' = reply /\ pc' = pc /\ request' = request
  BY DEF Deserialize, Fill, closureVars, serviceVars, registryVars
<1>3. /\ stage = "request"
      /\ \/ q.payload = "bad" /\ stage' = "return" /\ result' = Error("kDeserializeError")
         \/ q.payload # "bad" /\ stage' = "response" /\ result' = result
  BY DEF Deserialize, Return
<1>4. q \in Requests /\ q.header = "good" /\ q.payload \in {"good", "bad"}
  BY <1>0, <1>3, RequestFields DEF StageOK, Decoded
<1>5. DispatchTypeOK'
  BY <1>0, <1>1, <1>2, <1>3 DEF DispatchTypeOK, Error, Codes
<1>6. RegistryOK'
  BY <1>0, <1>2 DEF RegistryOK
<1>7. StageOK'
  BY <1>0, <1>2, <1>3, <1>4 DEF StageOK, Decoded, Called, CodesFor, Error
<1>8. FramesOK'
  BY <1>0, <1>2, SameFrames DEF registryVars
<1> QED BY <1>1, <1>5, <1>6, <1>7, <1>8 DEF DispatchInv

\* The service is called; what it does with its closure is recorded in called_.
LEMMA CallMethodStep ==
    ASSUME DispatchInv, CallMethod
    PROVE  DispatchInv'
<1>0. PoolInv /\ DispatchTypeOK /\ RegistryOK /\ StageOK /\ FramesOK
  BY DEF DispatchInv
<1>1. PoolInv' /\ TypeOK'
  BY DispatcherPool DEF DispatcherStep, HandleFrame, PoolInv
<1>2. /\ registered' = registered /\ serving' = serving /\ methods' = methods
      /\ current' = current /\ reply' = reply /\ request' = request /\ result' = result
      /\ stage = "response" /\ stage' = "check" /\ pc[ResponseHandle] = "held"
      /\ closure' = [closure EXCEPT ![current] = "live"]
      /\ response' = [response EXCEPT ![current] = message[ResponseHandle]]
      /\ disturbed' = disturbed
  BY DEF CallMethod, registryVars
<1>3. PICK b \in Behaviours :
        /\ service' = [service EXCEPT ![current] = b]
        /\ kept' = IF b = "keeps" THEN kept \cup {current} ELSE kept
        /\ done_called' = (b # "keeps")
        /\ called' = [called EXCEPT ![current] = b # "keeps"]
        /\ pc' = pc
  BY DEF CallMethod, Fill, poolVars
<1>4. /\ current \in Frames /\ request[current] \in Requests /\ request[current].header = "good"
      /\ request[current].payload = "good" /\ OwnersAt(registered, request[current].name) # {}
      /\ reply[current] = None /\ service[current] = "none" /\ serving /\ request[current] # None
      /\ current \notin kept
  BY <1>0, <1>2, RequestsAssumption DEF StageOK, Decoded, Called, FramesOK, FrameOK
<1>5. message[ResponseHandle] \in Messages
  BY <1>0, <1>2, HandlesAssumption DEF PoolInv, HandlesOK, Holders, HasMessage
<1>6. /\ service'[current] = b /\ called'[current] = (b # "keeps") /\ closure'[current] = "live"
      /\ \A f \in Frames \ {current} :
           service'[f] = service[f] /\ called'[f] = called[f] /\ closure'[f] = closure[f]
           /\ (f \in kept' <=> f \in kept)
      /\ current \in kept' => b = "keeps"
  BY <1>0, <1>2, <1>3, <1>4 DEF DispatchTypeOK
<1>7. DispatchTypeOK'
  <2>1. done_called' \in BOOLEAN /\ called' \in [Frames -> BOOLEAN]
    <3>1. (b # "keeps") \in BOOLEAN
      OBVIOUS
    <3> QED BY <1>0, <1>3, <3>1, Zenon DEF DispatchTypeOK
  <2>2. /\ closure' \in [Frames -> {"none", "live", "deleted"}]
        /\ response' \in [Frames -> Messages \cup {None}]
    BY <1>0, <1>2, <1>5 DEF DispatchTypeOK
  <2>3. service' \in [Frames -> Behaviours \cup {"none"}] /\ kept' \subseteq Frames
    BY <1>0, <1>3, <1>4 DEF DispatchTypeOK
  <2> QED BY <1>0, <1>1, <1>2, <2>1, <2>2, <2>3 DEF DispatchTypeOK
<1>8. RegistryOK'
  BY <1>0, <1>2 DEF RegistryOK
<1>9. StageOK'
  BY <1>2, <1>3, <1>4, <1>6 DEF StageOK, Decoded, Called
<1>10. ASSUME NEW f \in Frames PROVE FrameOK(f)'
  <2>1. CASE f = current
    BY <1>2, <1>4, <1>6, <2>1 DEF FrameOK
  <2>2. CASE f # current
    BY <1>0, <1>2, <1>6, <2>2 DEF FramesOK, FrameOK
  <2> QED BY <2>1, <2>2
<1> QED BY <1>1, <1>7, <1>8, <1>9, <1>10 DEF DispatchInv, FramesOK

\* The reply is sent.
LEMMA OnFrameStep ==
    ASSUME DispatchInv, OnFrame
    PROVE  DispatchInv'
<1> DEFINE a == [code |-> result.code, content |-> result.content,
                 request_id |-> IF request[current].header = "good" THEN current ELSE None]
<1>0. PoolInv /\ DispatchTypeOK /\ RegistryOK /\ StageOK /\ FramesOK
  BY DEF DispatchInv
<1>1. PoolInv' /\ TypeOK'
  BY DispatcherPool DEF DispatcherStep, HandleFrame, PoolInv
<1>2. /\ registered' = registered /\ serving' = serving /\ methods' = methods
      /\ done_called' = done_called /\ called' = called /\ closure' = closure
      /\ service' = service /\ kept' = kept /\ response' = response /\ disturbed' = disturbed
      /\ pc' = pc /\ request' = request /\ result' = result
      /\ stage = "return" /\ stage' = "idle" /\ current' = None /\ pc[ResponseHandle] = "empty"
      /\ reply' = [reply EXCEPT ![current] = a]
  BY DEF OnFrame, closureVars, serviceVars, registryVars, poolVars
<1>3. /\ current \in Frames /\ request[current] \in Requests /\ request[current] # None /\ serving
      /\ result.code \in CodesFor(registered, request[current], service[current])
      /\ result.code = "kOk" => called[current]
  BY <1>0, <1>2, RequestsAssumption DEF StageOK
<1>4. a \in Replies
  BY <1>0, <1>3 DEF DispatchTypeOK, Replies
<1>5. reply'[current] = a /\ \A f \in Frames \ {current} : reply'[f] = reply[f]
  BY <1>0, <1>2, <1>3 DEF DispatchTypeOK
<1>6. a.code = result.code /\ a.request_id = IF request[current].header = "good" THEN current ELSE None
  OBVIOUS
<1> HIDE DEF a
<1>7. DispatchTypeOK'
  BY <1>0, <1>1, <1>2, <1>4 DEF DispatchTypeOK
<1>8. RegistryOK'
  BY <1>0, <1>2 DEF RegistryOK
<1>9. StageOK'
  BY <1>2 DEF StageOK, Decoded, Called
<1>10. ASSUME NEW f \in Frames PROVE FrameOK(f)'
  <2>1. CASE f = current
    BY <1>0, <1>2, <1>3, <1>5, <1>6, <2>1 DEF FramesOK, FrameOK
  <2>2. CASE f # current
    BY <1>0, <1>2, <1>5, <2>2 DEF FramesOK, FrameOK
  <2> QED BY <2>1, <2>2
<1> QED BY <1>1, <1>7, <1>8, <1>9, <1>10 DEF DispatchInv, FramesOK

\* A closure that was kept is run, at any time: it can only say that it was called.
LEMMA LateRunStep ==
    ASSUME DispatchInv, NEW g \in Frames, LateRun(g)
    PROVE  DispatchInv'
<1>0. PoolInv /\ DispatchTypeOK /\ RegistryOK /\ StageOK /\ FramesOK
  BY DEF DispatchInv
<1>1. PoolInv' /\ TypeOK'
  BY DispatcherPool DEF DispatcherStep, ServiceThread, PoolInv
<1>2. /\ registered' = registered /\ serving' = serving /\ methods' = methods
      /\ closure' = closure /\ current' = current /\ stage' = stage /\ result' = result
      /\ service' = service /\ response' = response /\ disturbed' = disturbed /\ reply' = reply
      /\ pc' = pc /\ request' = request
      /\ kept' = kept \ {g} /\ called' = [called EXCEPT ![g] = TRUE]
  BY DEF LateRun, registryVars, poolVars
<1>3. done_called' = done_called \/ done_called' = TRUE
  BY DEF LateRun
<1>4. \A f \in Frames : /\ called[f] => called'[f]
                        /\ f \in kept' => f \in kept /\ called'[f] = called[f]
  BY <1>0, <1>2 DEF DispatchTypeOK
<1>5. DispatchTypeOK'
  <2>1. done_called' \in BOOLEAN /\ called' \in [Frames -> BOOLEAN]
    <3>1. TRUE \in BOOLEAN
      OBVIOUS
    <3> QED BY <1>0, <1>2, <1>3, <3>1, Zenon DEF DispatchTypeOK
  <2> QED BY <1>0, <1>1, <1>2, <2>1 DEF DispatchTypeOK
<1>6. RegistryOK'
  BY <1>0, <1>2 DEF RegistryOK
<1>7. StageOK'
  BY <1>0, <1>2, <1>3, <1>4 DEF StageOK, Decoded, Called
<1>8. FramesOK'
  BY <1>0, <1>2, <1>4 DEF FramesOK, FrameOK
<1> QED BY <1>1, <1>5, <1>6, <1>7, <1>8 DEF DispatchInv

\* Every step of the dispatcher keeps its invariant.
LEMMA DispatchStep == DispatchInv /\ DispatcherStep => DispatchInv'
BY RegistryStep, DecodeStep, LocalStep, PoolOnlyStep, DeserializeStep, CallMethodStep,
   OnFrameStep, LateRunStep DEF DispatcherStep, HandleFrame, ServiceThread

-----------------------------------------------------------------------------
(* What the messages and the replies hold *)

\* What a service that does s can have put into the response of the frame f.
OwnOf(s, f) == IF s = "leaves" THEN {"clean"} ELSE IF s = "keeps" THEN {"clean", f} ELSE {f}

\* OwnContent, as a function of what it depends on.
LEMMA OwnContentOf == \A f : OwnContent(f) = OwnOf(service[f], f)
BY DEF OwnContent, OwnOf

\* As long as the frame is not disturbed: the response is clean when the service gets it,
\* and what the service put there is what is replied.
ContentOK ==
    /\ stage = "response" /\ pc[ResponseHandle] = "held" /\ current \notin disturbed
         => content[message[ResponseHandle]] = "clean"
    /\ stage \in Called /\ current \notin disturbed
         => content[message[ResponseHandle]] \in OwnOf(service[current], current)
    /\ stage = "return" /\ result.code = "kOk" /\ current \notin disturbed
         => result.content \in OwnOf(service[current], current)
    /\ \A f \in Frames \ disturbed : reply[f] # None /\ reply[f].code = "kOk"
         => reply[f].content \in OwnOf(service[f], f)

\* What the messages and the replies hold, step by step.
LEMMA ContentStep ==
    ASSUME DispatchInv, ContentOK, DispatcherStep
    PROVE  ContentOK'
<1> DEFINE m == message[ResponseHandle]
<1>0. /\ PoolInv /\ DispatchTypeOK /\ StageOK /\ FramesOK /\ TypeOK /\ HandlesOK
      /\ ResponseHandle \in Handles /\ RequestHandle \in Handles
  BY HandlesAssumption DEF DispatchInv, PoolInv
<1>1. /\ stage = "response" /\ pc[ResponseHandle] = "held" /\ current \notin disturbed
           => content[m] = "clean"
      /\ stage \in Called /\ current \notin disturbed
           => content[m] \in OwnOf(service[current], current)
      /\ stage = "return" /\ result.code = "kOk" /\ current \notin disturbed
           => result.content \in OwnOf(service[current], current)
      /\ \A f \in Frames \ disturbed : reply[f] # None /\ reply[f].code = "kOk"
           => reply[f].content \in OwnOf(service[f], f)
  BY DEF ContentOK
<1> DEFINE Now ==
       /\ stage' = "response" /\ pc'[ResponseHandle] = "held" /\ current' \notin disturbed'
            => content'[message'[ResponseHandle]] = "clean"
       /\ stage' \in Called /\ current' \notin disturbed'
            => content'[message'[ResponseHandle]] \in OwnOf(service'[current'], current')
       /\ stage' = "return" /\ result'.code = "kOk" /\ current' \notin disturbed'
            => result'.content \in OwnOf(service'[current'], current')
       /\ \A f \in Frames \ disturbed' : reply'[f] # None /\ reply'[f].code = "kOk"
            => reply'[f].content \in OwnOf(service'[f], f)
<1>2. ASSUME RegisterService \/ Run \/ (\E f \in Frames : LateRun(f)) PROVE Now
  <2>1. /\ stage' = stage /\ pc' = pc /\ content' = content /\ message' = message
        /\ service' = service /\ current' = current /\ result' = result /\ reply' = reply
        /\ disturbed' = disturbed
    BY <1>2 DEF RegisterService, Run, LateRun, poolVars, serviceVars
  <2> QED BY <1>1, <2>1
\* The message written is not the one HandleFrame has, or the frame is disturbed now, or it is
\* the frame's own.
<1>3. ASSUME NEW g \in Frames, LateFill(g) PROVE Now
  <2>1. /\ stage' = stage /\ pc' = pc /\ message' = message /\ service' = service
        /\ current' = current /\ result' = result /\ reply' = reply /\ g \in kept
        /\ content' = [content EXCEPT ![response[g]] = g]
        /\ disturbed' = IF HoldsResponse(response[g]) /\ current # g
                        THEN disturbed \cup {current} ELSE disturbed
    BY <1>3 DEF LateFill
  <2>2. service[g] = "keeps" /\ disturbed \subseteq disturbed'
    BY <1>0, <2>1 DEF FramesOK, FrameOK
  <2>3. CASE response[g] = m /\ pc[ResponseHandle] = "held" /\ stage \in Called \cup {"response"}
    <3>1. HoldsResponse(response[g])
      BY <2>3 DEF HoldsResponse, Called
    <3>2. CASE current # g
      BY <1>1, <2>1, <2>2, <2>3, <3>1, <3>2 DEF Called
    <3>3. CASE current = g
      <4>1. stage \in Called /\ m \in Messages
        BY <1>0, <2>2, <2>3, <3>3 DEF StageOK, Decoded, Called, HandlesOK, Holders, HasMessage
      <4>2. content'[m] = g
        BY <1>0, <2>1, <2>3, <4>1 DEF TypeOK
      <4>3. content'[message'[ResponseHandle]] \in OwnOf(service'[current'], current')
        BY <2>1, <2>2, <3>3, <4>2 DEF OwnOf
      <4> QED BY <1>1, <2>1, <2>2, <4>1, <4>3 DEF Called
    <3> QED BY <3>2, <3>3
  <2>4. CASE response[g] # m
    <3>1. stage \in Called \/ (stage = "response" /\ pc[ResponseHandle] = "held") => m \in Messages
      BY <1>0 DEF StageOK, HandlesOK, Holders, HasMessage
    <3>2. stage \in Called \/ (stage = "response" /\ pc[ResponseHandle] = "held")
            => content'[m] = content[m]
      BY <1>0, <2>1, <2>4, <3>1 DEF TypeOK
    <3> QED BY <1>1, <2>1, <2>2, <3>2
  <2>5. CASE ~(pc[ResponseHandle] = "held" /\ stage \in Called \cup {"response"})
    BY <1>0, <1>1, <2>1, <2>2, <2>5 DEF StageOK
  <2> QED BY <2>3, <2>4, <2>5
<1>4. ASSUME Find PROVE Now
  <2>1. /\ stage' # "response" /\ stage' \notin Called /\ disturbed' = disturbed
        /\ service' = service /\ reply' = reply /\ (stage' = "return" => result'.code # "kOk")
    BY <1>4 DEF Find, Return, Error, FindError, Called, serviceVars
  <2> QED BY <1>1, <2>1
<1>5. ASSUME NEW f \in Frames, NEW r \in Requests, Decode(f, r) PROVE Now
  <2>1. /\ stage' # "response" /\ stage' \notin Called /\ disturbed' = disturbed
        /\ service' = service /\ reply' = reply /\ (stage' = "return" => result'.code # "kOk")
    BY <1>5 DEF Decode, Return, Error, Called, serviceVars
  <2> QED BY <1>1, <2>1
\* Acquire clears what it takes from a bucket, whatever has been written there meanwhile.
<1>6. ASSUME AcquireMessage PROVE Now
  <2>1. /\ stage' = stage /\ stage \in {"request", "response"} /\ disturbed' = disturbed
        /\ service' = service /\ current' = current /\ result' = result /\ reply' = reply
    BY <1>6 DEF AcquireMessage, dispatchVars, serviceVars
  <2>2. stage = "response" /\ pc'[ResponseHandle] = "held" => content'[message'[ResponseHandle]] = "clean"
    <3> SUFFICES ASSUME stage = "response", pc'[ResponseHandle] = "held"
                 PROVE  content'[message'[ResponseHandle]] = "clean"
      OBVIOUS
    <3>1. AcquireClear(ResponseHandle) \/ AcquireNew(ResponseHandle)
      BY <1>0, <1>6 DEF AcquireMessage, Acquire, AcquireReuse, AcquireMiss, Goto, TypeOK
    <3>2. CASE AcquireClear(ResponseHandle)
      <4>1. m \in Messages /\ message' = message
        BY <1>0, <3>2 DEF AcquireClear, HandlesOK, Holders, HasMessage, handleVars
      <4> QED BY <1>0, <3>2, <4>1 DEF AcquireClear, TypeOK
    <3>3. CASE AcquireNew(ResponseHandle)
      BY <1>0, <3>3 DEF AcquireNew, TypeOK
    <3> QED BY <3>1, <3>2, <3>3
  <2> QED BY <1>1, <2>1, <2>2 DEF Called
<1>7. ASSUME Deserialize PROVE Now
  <2>1. /\ stage' \in {"response", "return"} /\ (stage' = "return" => result'.code # "kOk")
        /\ service' = service /\ reply' = reply /\ pc' = pc /\ stage = "request"
        /\ disturbed' = disturbed
    BY <1>7 DEF Deserialize, Return, Error, serviceVars, Fill
  <2>2. pc'[ResponseHandle] # "held"
    BY <1>0, <2>1 DEF StageOK
  <2> QED BY <1>1, <2>1, <2>2 DEF Called
<1>8. ASSUME CallMethod PROVE Now
  <2>1. /\ stage = "response" /\ stage' = "check" /\ current' = current /\ reply' = reply
        /\ pc[ResponseHandle] = "held" /\ disturbed' = disturbed
    BY <1>8 DEF CallMethod
  <2>2. current \in Frames /\ reply[current] = None /\ m \in Messages
    BY <1>0, <2>1 DEF StageOK, HandlesOK, Holders, HasMessage
  <2>3. PICK b \in Behaviours : /\ service' = [service EXCEPT ![current] = b]
                                /\ IF b \in {"fills", "fails"} THEN Fill(ResponseHandle, current)
                                   ELSE UNCHANGED poolVars
    BY <1>8 DEF CallMethod
  <2>4. service'[current] = b /\ (\A f \in Frames \ {current} : service'[f] = service[f])
    BY <1>0, <2>2, <2>3 DEF DispatchTypeOK
  <2>5. message' = message /\ (current \notin disturbed => content'[m] \in OwnOf(b, current))
    <3>1. CASE b \in {"fills", "fails"}
      BY <1>0, <2>2, <2>3, <3>1 DEF Fill, OwnOf, handleVars, TypeOK
    <3>2. CASE b \in {"leaves", "keeps"}
      BY <1>1, <2>1, <2>3, <3>2 DEF OwnOf, poolVars
    <3> QED BY <3>1, <3>2 DEF Behaviours
  <2> QED BY <1>1, <2>1, <2>2, <2>4, <2>5
<1>9. ASSUME CheckDone PROVE Now
  <2>1. /\ stage = "check" /\ stage' \in {"serialize", "return"} /\ current' = current
        /\ reply' = reply /\ service' = service /\ content' = content /\ message' = message
        /\ disturbed' = disturbed /\ (stage' = "return" => result'.code # "kOk")
    BY <1>9 DEF CheckDone, Return, Error, serviceVars, poolVars
  <2> QED BY <1>1, <2>1 DEF Called
<1>10. ASSUME Serialize PROVE Now
  <2>1. /\ stage = "serialize" /\ stage' = "return" /\ current' = current
        /\ reply' = reply /\ service' = service /\ disturbed' = disturbed
        /\ \/ result'.content = content[m]
           \/ result'.code # "kOk"
    BY <1>10 DEF Serialize, Return, Error, serviceVars
  <2> QED BY <1>1, <2>1 DEF Called
<1>11. ASSUME ReleaseMessage PROVE Now
  <2>1. /\ stage = "return" /\ stage' = stage /\ service' = service /\ current' = current
        /\ result' = result /\ reply' = reply /\ disturbed' = disturbed
    BY <1>11 DEF ReleaseMessage, dispatchVars, serviceVars
  <2> QED BY <1>1, <2>1 DEF Called
<1>12. ASSUME OnFrame PROVE Now
  <2>1. /\ stage = "return" /\ stage' = "idle" /\ service' = service /\ current \in Frames
        /\ disturbed' = disturbed
    BY <1>0, <1>12 DEF OnFrame, StageOK, serviceVars
  <2>2. /\ reply'[current].code = result.code /\ reply'[current].content = result.content
        /\ \A f \in Frames \ {current} : reply'[f] = reply[f]
    BY <1>0, <1>12, <2>1 DEF OnFrame, DispatchTypeOK
  <2> QED BY <1>1, <2>1, <2>2 DEF Called
<1>13. Now
  BY <1>2, <1>3, <1>4, <1>5, <1>6, <1>7, <1>8, <1>9, <1>10, <1>11, <1>12
     DEF DispatcherStep, HandleFrame, ServiceThread
<1> QED BY <1>13 DEF ContentOK, OwnOf

-----------------------------------------------------------------------------
(* The calls *)

\* A call is executed only after it was sent, what it returned comes from the reply, and
\* what the caller's response holds too.
CallOK(f) ==
    /\ call[f] # "none" => wanted[f] \in Requests /\ wanted[f].header = "good"
    /\ request[f] # None => executions[f] = 1
    /\ executions[f] = 1 => call[f] # "none"
    /\ call[f] = "pending" => outcome[f] = None
    /\ outcome[f] = "kOk" =>
        reply[f] # None /\ reply[f].code = "kOk" /\ caller_response[f] = reply[f].content
    /\ outcome[f] # "kOk" => caller_response[f] = Untouched
    /\ outcome[f] = "kDiscoveryError" => call[f] = "none"
    /\ outcome[f] \in {"kUnknownService", "kUnknownMethod"} =>
        reply[f] # None /\ reply[f].code = outcome[f]
CallsOK == \A f \in Calls : CallOK(f)

SystemInv == DispatchInv /\ ContentOK /\ SystemTypeOK /\ CallsOK

\* A step that leaves the variables of the dispatcher alone keeps DispatchInv.
LEMMA DispatchStutters ==
    ASSUME DispatchInv, ContentOK, UNCHANGED <<poolVars, dispatchVars>>
    PROVE  DispatchInv' /\ ContentOK'
<1>0. PoolInv /\ DispatchTypeOK /\ RegistryOK /\ StageOK /\ FramesOK
  BY DEF DispatchInv
<1>1. /\ registered' = registered /\ serving' = serving /\ methods' = methods
      /\ done_called' = done_called /\ called' = called /\ closure' = closure
      /\ current' = current /\ stage' = stage /\ result' = result
      /\ service' = service /\ kept' = kept /\ response' = response /\ disturbed' = disturbed /\ reply' = reply
      /\ request' = request
      /\ buckets' = buckets /\ message' = message /\ key' = key /\ pc' = pc /\ type' = type
      /\ content' = content
  BY DEF dispatchVars, poolVars, closureVars, serviceVars, registryVars
<1>2. PoolInv'
  BY <1>0, <1>1 DEF PoolInv, TypeOK, BucketsOK, HandlesOK, Apart, NothingLeaks, Holders
<1>3. DispatchTypeOK'
  BY <1>0, <1>1, <1>2 DEF DispatchTypeOK, PoolInv
<1>4. RegistryOK' /\ StageOK'
  BY <1>0, <1>1 DEF RegistryOK, StageOK
<1>5. FramesOK'
  BY <1>0, <1>1, SameFrames DEF registryVars
<1>6. ContentOK'
  BY <1>1 DEF ContentOK, OwnOf
<1> QED BY <1>2, <1>3, <1>4, <1>5, <1>6 DEF DispatchInv

\* The replies that were sent stay as they are.
LEMMA AnsweredStays ==
    ASSUME DispatchInv, DispatcherStep, NEW f \in Frames
    PROVE  reply[f] # None => reply'[f] = reply[f]
<1>0. DispatchTypeOK /\ StageOK
  BY DEF DispatchInv
<1>1. CASE OnFrame
  BY <1>0, <1>1 DEF OnFrame, StageOK, DispatchTypeOK
<1>2. CASE DispatcherStep /\ ~OnFrame
  BY <1>2 DEF DispatcherStep, Decode, HandleFrame, ServiceThread, RegisterService, Run, Find, AcquireMessage,
         Deserialize, CallMethod, CheckDone, Serialize, ReleaseMessage, LateFill, LateRun,
         dispatchVars
<1> QED BY <1>1, <1>2

\* A step of the server's own.
LEMMA ServerKeeps ==
    ASSUME SystemInv, ServerStep
    PROVE  SystemInv'
<1>0. DispatchInv /\ ContentOK /\ SystemTypeOK /\ CallsOK /\ Calls \subseteq Frames
  BY CallsAssumption DEF SystemInv
<1>1. DispatcherStep
  BY DEF ServerStep, DispatcherStep
<1>2. DispatchInv' /\ ContentOK' /\ DispatchTypeOK'
  BY <1>0, <1>1, DispatchStep, ContentStep DEF DispatchInv
<1>3. /\ call' = call /\ executions' = executions /\ answer' = answer /\ alive' = alive
      /\ wanted' = wanted /\ outcome' = outcome /\ caller_response' = caller_response
  BY DEF ServerStep, callVars, invokeVars
<1>4. request' = request
  BY DEF ServerStep, HandleFrame, ServiceThread, RegisterService, Run, Find, AcquireMessage,
         Deserialize, CallMethod, CheckDone, Serialize, ReleaseMessage, OnFrame, LateFill, LateRun,
         dispatchVars
<1>5. \A f \in Calls : reply[f] # None => reply'[f] = reply[f]
  BY <1>0, <1>1, AnsweredStays
<1>6. SystemTypeOK'
  BY <1>0, <1>2, <1>3 DEF SystemTypeOK
<1>7. CallsOK'
  BY <1>0, <1>3, <1>4, <1>5 DEF CallsOK, CallOK
<1> QED BY <1>2, <1>6, <1>7 DEF SystemInv

\* The server gets a frame.
LEMMA ReceiveKeeps ==
    ASSUME SystemInv, NEW f \in Frames, Receive(f)
    PROVE  SystemInv'
<1>0. DispatchInv /\ ContentOK /\ SystemTypeOK /\ CallsOK /\ Calls \subseteq Frames
  BY CallsAssumption DEF SystemInv
<1>1. PICK r \in Requests : Decode(f, r)
  BY <1>0 DEF Receive, CallsOK, CallOK, Transport!Execute
<1>2. DispatchInv' /\ ContentOK' /\ DispatchTypeOK'
  BY <1>0, <1>1, DispatchStep, ContentStep DEF DispatchInv, DispatcherStep
<1>3. /\ call' = call /\ answer' = answer /\ alive' = alive
      /\ wanted' = wanted /\ outcome' = outcome /\ caller_response' = caller_response
      /\ reply' = reply /\ request' = [request EXCEPT ![f] = r]
  BY <1>1 DEF Receive, callVars, invokeVars, Transport!Execute, Decode
<1>4. IF f \in Calls THEN executions' = [executions EXCEPT ![f] = 1] /\ call[f] # "none"
                     ELSE executions' = executions
  BY DEF Receive, callVars, Transport!Execute
<1>5. SystemTypeOK'
  BY <1>0, <1>2, <1>3, <1>4 DEF SystemTypeOK
<1>6. ASSUME NEW g \in Calls PROVE CallOK(g)'
  <2>1. CASE g = f
    BY <1>0, <1>3, <1>4, <2>1 DEF CallsOK, CallOK, SystemTypeOK
  <2>2. CASE g # f
    <3>1. request'[g] = request[g] /\ executions'[g] = executions[g]
      BY <1>0, <1>3, <1>4, <2>2 DEF SystemTypeOK, DispatchTypeOK
    <3> QED BY <1>0, <1>3, <3>1 DEF CallsOK, CallOK
  <2> QED BY <2>1, <2>2
<1> QED BY <1>2, <1>5, <1>6 DEF SystemInv, CallsOK

\* The steps of InvokeAsync.
LEMMA ClientKeeps ==
    ASSUME SystemInv, NEW f \in Calls, ClientStep(f)
    PROVE  SystemInv'
<1>0. /\ DispatchInv /\ ContentOK /\ SystemTypeOK /\ DispatchTypeOK /\ CallsOK
      /\ f \in Frames /\ Calls \subseteq Frames
  BY CallsAssumption DEF SystemInv, DispatchInv
<1>1. UNCHANGED <<poolVars, dispatchVars>> /\ executions' = executions /\ alive' = alive
  BY DEF ClientStep, InvokeFails, InvokeSends, RoundTripFails, RoundTripReturns, callVars,
         Transport!Invoke, Transport!Fail, Transport!Succeed
<1>2. DispatchInv' /\ ContentOK' /\ DispatchTypeOK'
  BY <1>0, <1>1, DispatchStutters DEF DispatchInv
<1>3. reply' = reply /\ request' = request
  BY <1>1 DEF dispatchVars
<1>4. Results = Codes \cup {"kDiscoveryError", "kNetworkError"} /\ None \notin Results
      /\ (reply[f] # None => reply[f] \in Replies)
  BY <1>0, ResultsAssumption DEF Results, DispatchTypeOK
<1>5. CASE InvokeFails(f)
  <2>1. /\ call' = call /\ answer' = answer /\ wanted' = wanted
        /\ caller_response' = caller_response /\ call[f] = "none" /\ outcome[f] = None
    BY <1>5 DEF InvokeFails, callVars
  <2>2. PICK code \in {"kDiscoveryError", "kSerializeError"} : outcome' = [outcome EXCEPT ![f] = code]
    BY <1>5 DEF InvokeFails, Finish
  <2>3. SystemTypeOK'
    BY <1>0, <1>1, <1>2, <1>4, <2>1, <2>2 DEF SystemTypeOK, Codes
  <2>4. outcome'[f] = code /\ \A g \in Calls \ {f} : outcome'[g] = outcome[g]
    BY <1>0, <2>2 DEF SystemTypeOK
  <2>5. ASSUME NEW g \in Calls PROVE CallOK(g)'
    <3>1. CASE g = f
      BY <1>0, <1>1, <1>3, <1>4, <2>1, <2>4, <3>1 DEF CallsOK, CallOK, Codes
    <3>2. CASE g # f
      BY <1>0, <1>1, <1>3, <2>1, <2>4, <3>2 DEF CallsOK, CallOK
    <3> QED BY <3>1, <3>2
  <2> QED BY <1>2, <2>3, <2>5 DEF SystemInv, CallsOK
<1>6. CASE InvokeSends(f)
  <2>1. /\ call' = [call EXCEPT ![f] = "pending"] /\ answer' = answer /\ outcome' = outcome
        /\ caller_response' = caller_response /\ call[f] = "none" /\ outcome[f] = None
    BY <1>6 DEF InvokeSends, Transport!Invoke
  <2>2. PICK r \in Requests : r.header = "good" /\ wanted' = [wanted EXCEPT ![f] = r]
    BY <1>6 DEF InvokeSends
  <2>3. SystemTypeOK'
    BY <1>0, <1>1, <1>2, <2>1, <2>2 DEF SystemTypeOK
  <2>4. /\ call'[f] = "pending" /\ wanted'[f] = r
        /\ \A g \in Calls \ {f} : call'[g] = call[g] /\ wanted'[g] = wanted[g]
    BY <1>0, <2>1, <2>2 DEF SystemTypeOK
  <2>5. ASSUME NEW g \in Calls PROVE CallOK(g)'
    <3>1. CASE g = f
      BY <1>0, <1>1, <1>3, <1>4, <2>1, <2>2, <2>4, <3>1 DEF CallsOK, CallOK, Codes
    <3>2. CASE g # f
      BY <1>0, <1>1, <1>3, <2>1, <2>4, <3>2 DEF CallsOK, CallOK
    <3> QED BY <3>1, <3>2
  <2> QED BY <1>2, <2>3, <2>5 DEF SystemInv, CallsOK
<1>7. CASE RoundTripFails(f)
  <2>1. /\ call' = [call EXCEPT ![f] = "error"] /\ answer' = answer /\ wanted' = wanted
        /\ caller_response' = caller_response /\ call[f] = "pending"
    BY <1>7 DEF RoundTripFails, Transport!Fail
  <2>2. PICK code \in {"kNetworkError", "kInvalidPacket"} : outcome' = [outcome EXCEPT ![f] = code]
    BY <1>7 DEF RoundTripFails, Finish
  <2>3. SystemTypeOK'
    BY <1>0, <1>1, <1>2, <1>4, <2>1, <2>2 DEF SystemTypeOK, Codes
  <2>4. /\ call'[f] = "error" /\ outcome'[f] = code
        /\ \A g \in Calls \ {f} : call'[g] = call[g] /\ outcome'[g] = outcome[g]
    BY <1>0, <2>1, <2>2 DEF SystemTypeOK
  <2>5. ASSUME NEW g \in Calls PROVE CallOK(g)'
    <3>1. CASE g = f
      BY <1>0, <1>1, <1>3, <1>4, <2>1, <2>4, <3>1 DEF CallsOK, CallOK, Codes
    <3>2. CASE g # f
      BY <1>0, <1>1, <1>3, <2>1, <2>4, <3>2 DEF CallsOK, CallOK
    <3> QED BY <3>1, <3>2
  <2> QED BY <1>2, <2>3, <2>5 DEF SystemInv, CallsOK
<1>8. CASE RoundTripReturns(f)
  <2>1. /\ call' = [call EXCEPT ![f] = "ok"] /\ answer' = [answer EXCEPT ![f] = f]
        /\ wanted' = wanted /\ call[f] = "pending" /\ reply[f] # None
    BY <1>8 DEF RoundTripReturns, Transport!Succeed
  <2>2. PICK code \in {reply[f].code, "kDeserializeError"} :
          /\ outcome' = [outcome EXCEPT ![f] = code]
          /\ \/ code # "kOk" /\ caller_response' = caller_response
             \/ /\ code = "kOk" /\ reply[f].code = "kOk"
                /\ caller_response' = [caller_response EXCEPT ![f] = reply[f].content]
    BY <1>8 DEF RoundTripReturns, Finish
  <2>3. reply[f].code \in Codes /\ reply[f].content \in Data \cup {"clean"} /\ code \in Codes
    BY <1>4, <2>1, <2>2 DEF Replies, Codes
  <2>4. SystemTypeOK'
    BY <1>0, <1>1, <1>2, <1>4, <2>1, <2>2, <2>3 DEF SystemTypeOK
  <2>5. /\ call'[f] = "ok" /\ outcome'[f] = code
        /\ \A g \in Calls \ {f} : /\ call'[g] = call[g] /\ outcome'[g] = outcome[g]
                                  /\ caller_response'[g] = caller_response[g]
        /\ caller_response'[f] = IF code = "kOk" THEN reply[f].content ELSE caller_response[f]
    BY <1>0, <2>1, <2>2 DEF SystemTypeOK
  <2>6. outcome[f] # "kOk" /\ call[f] # "none"
    BY <1>0, <1>4, <2>1 DEF CallsOK, CallOK, Codes
  <2>7. ASSUME NEW g \in Calls PROVE CallOK(g)'
    <3>1. CASE g = f
      BY <1>0, <1>1, <1>3, <1>4, <2>1, <2>2, <2>3, <2>5, <2>6, <3>1 DEF CallsOK, CallOK, Codes
    <3>2. CASE g # f
      BY <1>0, <1>1, <1>3, <2>1, <2>5, <3>2 DEF CallsOK, CallOK
    <3> QED BY <3>1, <3>2
  <2> QED BY <1>2, <2>4, <2>7 DEF SystemInv, CallsOK
<1> QED BY <1>5, <1>6, <1>7, <1>8 DEF ClientStep

\* No service is registered, no frame has arrived and no call was made.
LEMMA SystemStarts == SystemInit => SystemInv
<1> SUFFICES ASSUME SystemInit PROVE SystemInv
  OBVIOUS
<1> USE DEF SystemInit, DispatchInit
<1>1. PoolInv
  BY PoolInit
<1>2. DispatchTypeOK
  <2>1. registered \in 0..Len(Services) /\ methods \in [Names -> 0..Len(Services)]
    BY ServicesAssumption
  <2>2. result \in [code : Codes, content : Data \cup {"clean"}]
    BY DEF Error, Codes
  <2> QED BY <1>1, <2>1, <2>2 DEF DispatchTypeOK, PoolInv
<1>3. RegistryOK
  BY DEF RegistryOK, OwnersAt
<1>4. pc[ResponseHandle] = "empty"
  BY HandlesAssumption DEF Init
<1>5. StageOK
  BY <1>4 DEF StageOK, Decoded, Called
<1>6. FramesOK
  BY DEF FramesOK, FrameOK
<1>7. ContentOK
  BY DEF ContentOK, Called
<1>8. SystemTypeOK
  BY <1>2 DEF SystemTypeOK, Transport!Init
<1>9. CallsOK
  BY ResultsAssumption, CallsAssumption DEF CallsOK, CallOK, Transport!Init, Results, Codes
<1> QED BY <1>1, <1>2, <1>3, <1>5, <1>6, <1>7, <1>8, <1>9 DEF SystemInv, DispatchInv

\* A step of the client, the server, the transport or a service's own thread.
LEMMA SystemStep == SystemInv /\ [SystemNext]_systemVars => SystemInv'
<1> SUFFICES ASSUME SystemInv, [SystemNext]_systemVars PROVE SystemInv'
  OBVIOUS
<1>1. CASE ServerStep
  BY <1>1, ServerKeeps
<1>2. CASE \E f \in Calls : ClientStep(f)
  BY <1>2, ClientKeeps
<1>3. CASE \E f \in Frames : Receive(f)
  BY <1>3, ReceiveKeeps
<1>4. CASE ClientDies \/ UNCHANGED systemVars
  <2>1. /\ UNCHANGED <<poolVars, dispatchVars>> /\ (alive' = alive \/ alive' = FALSE)
        /\ call' = call /\ executions' = executions /\ answer' = answer /\ wanted' = wanted
        /\ outcome' = outcome /\ caller_response' = caller_response
    BY <1>4 DEF ClientDies, systemVars, callVars, invokeVars, Transport!Die
  <2>2. DispatchInv' /\ ContentOK' /\ DispatchTypeOK'
    BY <2>1, DispatchStutters DEF SystemInv, DispatchInv
  <2>3. reply' = reply /\ request' = request
    BY <2>1 DEF dispatchVars
  <2>4. SystemTypeOK'
    BY <2>1, <2>2 DEF SystemInv, SystemTypeOK
  <2>5. CallsOK'
    BY <2>1, <2>3 DEF SystemInv, CallsOK, CallOK
  <2> QED BY <2>2, <2>4, <2>5 DEF SystemInv
<1> QED BY <1>1, <1>2, <1>3, <1>4 DEF SystemNext, Over

\* The inductive invariant of a call from end to end.
THEOREM SystemInvariance == SystemSpec => []SystemInv
BY SystemStarts, SystemStep, PTL DEF SystemSpec

\* Every variable of the server's and the client's side stays in its type.
THEOREM SystemTypes == SystemSpec => []SystemTypeOK
<1>1. SystemInv => SystemTypeOK
  BY DEF SystemInv
<1> QED BY <1>1, SystemInvariance, PTL

\* Whatever is registered and whatever arrives, OnFrame answers with the code of the first
\* stage of HandleFrame that fails and with the frame's own request id, and a method is
\* found in the last service registered with it.
THEOREM EveryReplyIsAsSpecified == SystemSpec => []RepliesAsSpecified
<1>1. SystemInv => RepliesAsSpecified
  <2> SUFFICES ASSUME SystemInv PROVE RepliesAsSpecified
    OBVIOUS
  <2>0. DispatchInv /\ RegistryOK /\ FramesOK
    BY DEF SystemInv, DispatchInv
  <2>1. \A n \in Names : Owners(n) = OwnersAt(registered, n)
    BY DEF Owners, OwnersAt
  <2>2. \A n \in Names : /\ Owners(n) # {} => methods[n] \in Owners(n)
                         /\ \A i \in Owners(n) : i <= methods[n]
    BY <2>0, <2>1, FindTells DEF RegistryOK
  <2>3. \A f \in Frames : Expected(f) = CodesFor(registered, request[f], service[f])
    BY DEF Expected, CodesFor, Owners, OwnersAt, Known, KnownAt
  <2> QED BY <2>0, <2>2, <2>3 DEF RepliesAsSpecified, FramesOK, FrameOK
<1> QED BY <1>1, SystemInvariance, PTL

\* kOk means that the closure of this very request was run, whatever closures kept from
\* earlier requests write over done_called; and a closure that is out is not freed.
THEOREM ClosuresAreSound == SystemSpec => []ClosureSound
<1>1. SystemInv => ClosureSound
  BY DEF SystemInv, DispatchInv, DispatchTypeOK, FramesOK, FrameOK, ClosureSound
<1> QED BY <1>1, SystemInvariance, PTL

\* Whatever services write through pointers they have kept, a reply holds what the service
\* of its own frame put there, unless such a write met HandleFrame with the message in use.
THEOREM LateWritesStayOut == SystemSpec => []RepliesUndisturbed
<1>1. SystemInv => RepliesUndisturbed
  BY OwnContentOf DEF SystemInv, ContentOK, RepliesUndisturbed
<1> QED BY <1>1, SystemInvariance, PTL

\* Invoke succeeds only after a service has run the closure of this very call, and with what
\* that service wrote unless the call was disturbed; in every other case it leaves the
\* caller's response as it was.
THEOREM CallerSeesItsOwn == SystemSpec => []CallerSees
<1>1. SystemInv => CallerSees
  <2> SUFFICES ASSUME SystemInv, NEW f \in Calls
               PROVE  IF outcome[f] = "kOk"
                      THEN called[f] /\ (f \notin disturbed => caller_response[f] \in OwnContent(f))
                      ELSE caller_response[f] = Untouched
    BY DEF CallerSees
  <2>1. CallOK(f) /\ FrameOK(f) /\ f \in Frames
    BY CallsAssumption DEF SystemInv, DispatchInv, CallsOK, FramesOK
  <2> QED BY <2>1, OwnContentOf DEF SystemInv, ContentOK, CallOK, FrameOK
<1> QED BY <1>1, SystemInvariance, PTL

\* After kDiscoveryError, kUnknownService and kUnknownMethod no service has executed the
\* call: it may be made again elsewhere.
THEOREM RetryIsSafe == SystemSpec => []SafeToRetry
<1>1. SystemInv => SafeToRetry
  <2> SUFFICES ASSUME SystemInv, NEW f \in Calls,
                      outcome[f] \in {"kDiscoveryError", "kUnknownService", "kUnknownMethod"}
               PROVE  service[f] = "none"
    BY DEF SafeToRetry
  <2>1. CallOK(f) /\ FrameOK(f) /\ f \in Frames
    BY CallsAssumption DEF SystemInv, DispatchInv, CallsOK, FramesOK
  <2>2. CASE outcome[f] = "kDiscoveryError"
    BY <2>1, <2>2 DEF CallOK, FrameOK
  <2>3. CASE outcome[f] \in {"kUnknownService", "kUnknownMethod"}
    <3>1. /\ reply[f] # None /\ reply[f].code \in {"kUnknownService", "kUnknownMethod"}
          /\ reply[f].code \in CodesFor(registered, request[f], service[f])
      BY <2>1, <2>3 DEF CallOK, FrameOK
    <3>2. OwnersAt(registered, request[f].name) = {}
      BY <3>1 DEF CodesFor
    <3> QED BY <2>1, <3>2 DEF FrameOK
  <2> QED BY <2>2, <2>3
<1> QED BY <1>1, SystemInvariance, PTL
=============================================================================
