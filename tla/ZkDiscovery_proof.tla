--------------------------- MODULE ZkDiscovery_proof ---------------------------
(* Proofs about the watches of ZkDiscovery, for any servers, any finite set  *)
(* of callers, and any number of restarts and failures.                      *)
EXTENDS ZkDiscovery, FiniteSetTheorems, TLAPS

\* The watches set, fired, or about to be renewed by the watcher thread.
Watches == armed + notified + (IF pc[Watcher] = "children" THEN 1 ELSE 0)

\* The callers about to ask for the children, and those that read them.
Asking == {c \in Callers : pc[c] = "children"}
Reading == {c \in Callers : pc[c] = "data"}

\* A caller sets one watch at most: it does so on its way from "children" to "data",
\* and leaves "data" only by storing the entry, after which nobody misses it.
OneWatchPerCaller ==
    /\ cache = None => Watches <= Cardinality(Reading)
    /\ cache # None => Watches + Cardinality(Asking) <= Cardinality(Callers)

Inv == TypeOK /\ OneWatchPerCaller

\* Before the first call nothing is watched.
LEMMA InitInv == Init => Inv
<1> SUFFICES ASSUME Init PROVE Inv
  OBVIOUS
<1>1. TypeOK
  <2>1. 1 \in DOMAIN RegisterPath
    BY DEF RegisterPath
  <2>2. failures \in 0..MaxFailures
    BY BoundsAssumption DEF Init
  <2> QED BY <2>1, <2>2 DEF Init, TypeOK
<1>2. Reading = {} /\ Cardinality(Reading) = 0
  BY FS_EmptySet DEF Init, Asking, Reading, Actors
<1>3. Watches = 0
  BY DEF Init, Watches, Actors
<1> QED BY <1>1, <1>2, <1>3 DEF Inv, OneWatchPerCaller, Init

\* The level of the next node is one of the path.
LEMMA NextLevelType ==
    ASSUME TypeOK, NEW s \in Servers, NextLevel(s)
    PROVE  /\ level' \in [Servers -> DOMAIN RegisterPath]
           /\ phase' \in [Servers -> {"off", "exists", "create", "registered", "failed"}]
           /\ run' = run
<1>1. DOMAIN RegisterPath = 1..4 /\ Len(RegisterPath) = 4
  BY DEF RegisterPath
<1>2. level[s] \in 1..4
  BY <1>1 DEF TypeOK
<1> QED BY <1>1, <1>2 DEF NextLevel, TypeOK

\* A change of the instances keeps ZooKeeper's side in its types.
LEMMA SetOwnerType ==
    ASSUME TypeOK, NEW s \in Servers, NEW n \in Nat, SetOwner(s, n)
    PROVE  /\ owner' \in [Servers -> Nat] /\ raced' \in BOOLEAN
           /\ armed' \in Nat /\ notified' \in Nat
           /\ armed' + notified' = armed + notified /\ (armed > 0 => notified' > 0)
           /\ notified' >= notified
BY DEF SetOwner, TypeOK

\* What a step of a server, its registration and its session does to the client: the
\* events of the watches that fire are on their way, and nothing else.
ServerOnly ==
    /\ UNCHANGED <<cache, refreshVars>>
    /\ armed' \in Nat /\ notified' \in Nat /\ armed' + notified' = armed + notified
    /\ (armed > 0 \/ notified > 0) => (armed' > 0 \/ notified' > 0)

\* A step of a server process or of its session leaves the watches of the client alone, or fires them.
LEMMA ServerStep ==
    ASSUME TypeOK, NEW s \in Servers,
           Register(s) \/ Process(s) \/ SessionExpires(s) \/ LiveSessionExpires(s)
    PROVE  TypeOK' /\ ServerOnly
<1> USE DEF ServerOnly, registrarVars, watchVars, refreshVars, historyVars
<1>1. CASE CheckExists(s)
  <2>1. CASE NextLevel(s)
    BY <1>1, <2>1, NextLevelType DEF CheckExists, TypeOK
  <2>2. CASE ~NextLevel(s)
    BY <1>1, <2>2 DEF CheckExists, TypeOK
  <2> QED BY <2>1, <2>2
<1>2. CASE CreateNode(s)
  <2>0. NextLevel(s)
    BY <1>2 DEF CreateNode
  <2>1. CASE RegisterPath[level[s]] = "instance"
    <3>1. SetOwner(s, run[s]) /\ UNCHANGED <<paths, failures, cache, refreshVars>> /\ run[s] \in Nat
      BY <1>2, <2>1 DEF CreateNode, TypeOK
    <3> QED BY <2>0, <3>1, NextLevelType, SetOwnerType DEF TypeOK
  <2>2. CASE RegisterPath[level[s]] # "instance"
    <3>1. level[s] \in 1..4
      BY DEF TypeOK, RegisterPath
    <3>2. RegisterPath[level[s]] \in {"service", "method"}
      BY <3>1, <2>2 DEF RegisterPath
    <3> QED BY <1>2, <2>0, <2>2, <3>2, NextLevelType DEF CreateNode, TypeOK
  <2> QED BY <2>1, <2>2
<1>3. CASE RegisterFails(s)
  BY <1>3, BoundsAssumption DEF RegisterFails, Fail, TypeOK, RegisterPath
<1>4. CASE Start(s)
  BY <1>4 DEF Start, TypeOK
<1>5. CASE Crash(s)
  BY <1>5 DEF Crash, TypeOK, RegisterPath
<1>6. CASE Exit(s)
  <2>1. CASE owner[s] = run[s]
    BY <1>6, <2>1, SetOwnerType DEF Exit, TypeOK
  <2>2. CASE owner[s] # run[s]
    BY <1>6, <2>2 DEF Exit, TypeOK
  <2> QED BY <2>1, <2>2
<1>7. CASE SessionExpires(s) \/ LiveSessionExpires(s)
  <2>1. SetOwner(s, 0) /\ UNCHANGED <<paths, registrarVars, cache, refreshVars>>
    BY <1>7 DEF SessionExpires, LiveSessionExpires
  <2>2. failures' \in 0..MaxFailures
    BY <1>7, BoundsAssumption DEF SessionExpires, LiveSessionExpires, Fail, TypeOK
  <2> QED BY <2>1, <2>2, SetOwnerType DEF TypeOK
<1> QED BY <1>1, <1>2, <1>3, <1>4, <1>5, <1>6, <1>7 DEF Register, Process

\* Every step of a thread of the client keeps the types.
LEMMA RefreshType ==
    ASSUME TypeOK, NEW a \in Actors, RefreshMethod(a)
    PROVE  TypeOK'
<1> USE DEF Goto, registrarVars, watchVars, historyVars
<1>0. Registered \in SUBSET Servers
  BY DEF Registered
<1>1. CASE GetChildrenWatched(a)
  BY <1>0, <1>1 DEF GetChildrenWatched, TypeOK
<1>2. CASE GetChildrenFails(a)
  <2>1. failures' \in 0..MaxFailures
    BY <1>2, BoundsAssumption DEF GetChildrenFails, Fail, TypeOK
  <2> QED BY <1>2, <2>1 DEF GetChildrenFails, TypeOK
<1>3. CASE StoreInstances(a)
  <2>1. instances[a] \subseteq Servers
    BY DEF TypeOK
  <2> QED BY <1>3, <2>1 DEF StoreInstances, TypeOK
<1>4. ASSUME NEW s \in Servers, GetData(a, s) PROVE TypeOK'
  BY <1>4 DEF GetData, TypeOK
<1>5. ASSUME NEW s \in Servers, GetDataFails(a, s) PROVE TypeOK'
  <2>1. failures' \in 0..MaxFailures
    BY <1>5, BoundsAssumption DEF GetDataFails, Fail, TypeOK
  <2> QED BY <1>5, <2>1 DEF GetDataFails, TypeOK
<1> QED BY <1>1, <1>2, <1>3, <1>4, <1>5 DEF RefreshMethod

\* Two disjoint sets of callers have sizes that add up to no more than all of them.
LEMMA Sizes ==
    ASSUME NEW D \in SUBSET Callers, NEW K \in SUBSET Callers, D \cap K = {}
    PROVE  /\ IsFiniteSet(D) /\ Cardinality(D) \in Nat /\ Cardinality(K) \in Nat
           /\ Cardinality(Callers) \in Nat
           /\ Cardinality(D) + Cardinality(K) <= Cardinality(Callers)
<1>1. /\ IsFiniteSet(D) /\ Cardinality(D) \in Nat
      /\ IsFiniteSet(K) /\ Cardinality(K) \in Nat
      /\ Cardinality(Callers) \in Nat
  BY CallersAssumption, FS_Subset, FS_CardinalityType
<1>2. Cardinality(D \cap K) = 0
  BY FS_EmptySet
<1>3. Cardinality(D \cup K) = Cardinality(D) + Cardinality(K) - Cardinality(D \cap K)
  BY <1>1, FS_Union
<1>4. Cardinality(D \cup K) <= Cardinality(Callers)
  <2>1. D \cup K \subseteq Callers
    OBVIOUS
  <2> QED BY <2>1, CallersAssumption, FS_Subset
<1> QED BY <1>1, <1>2, <1>3, <1>4

\* A caller that comes to a place is one more there, one that leaves is one fewer.
LEMMA Moves ==
    ASSUME TypeOK, NEW c \in Callers, NEW loc \in {"idle", "children", "data"}, Goto(c, loc)
    PROVE  /\ pc'[Watcher] = pc[Watcher]
           /\ pc[c] # "children" /\ loc = "children" =>
                Cardinality(Asking') = Cardinality(Asking) + 1
           /\ pc[c] = "children" /\ loc # "children" =>
                Cardinality(Asking') = Cardinality(Asking) - 1
           /\ pc[c] # "children" /\ loc # "children" => Asking' = Asking
           /\ pc[c] # "data" /\ loc = "data" =>
                Cardinality(Reading') = Cardinality(Reading) + 1
           /\ pc[c] = "data" /\ loc # "data" =>
                Cardinality(Reading') = Cardinality(Reading) - 1
           /\ pc[c] # "data" /\ loc # "data" => Reading' = Reading
<1>0. /\ pc \in [Actors -> {"idle", "children", "data"}] /\ c \in Actors /\ Watcher # c
      /\ Callers \subseteq Actors /\ Watcher \in Actors /\ pc' = [pc EXCEPT ![c] = loc]
  BY NamesAssumption DEF TypeOK, Actors, Goto
<1>1. IsFiniteSet(Asking) /\ IsFiniteSet(Reading)
  BY CallersAssumption, FS_Subset DEF Asking, Reading
<1>2. pc'[Watcher] = pc[Watcher]
  BY <1>0
<1>3. ASSUME pc[c] # "children", loc = "children"
      PROVE  Cardinality(Asking') = Cardinality(Asking) + 1
  <2>1. Asking' = Asking \cup {c} /\ c \notin Asking
    BY <1>0, <1>3 DEF Asking
  <2> QED BY <1>1, <2>1, FS_AddElement
<1>4. ASSUME pc[c] = "children", loc # "children"
      PROVE  Cardinality(Asking') = Cardinality(Asking) - 1
  <2>1. Asking' = Asking \ {c} /\ c \in Asking
    BY <1>0, <1>4 DEF Asking
  <2> QED BY <1>1, <2>1, FS_RemoveElement
<1>5. ASSUME pc[c] # "data", loc = "data"
      PROVE  Cardinality(Reading') = Cardinality(Reading) + 1
  <2>1. Reading' = Reading \cup {c} /\ c \notin Reading
    BY <1>0, <1>5 DEF Reading
  <2> QED BY <1>1, <2>1, FS_AddElement
<1>6. ASSUME pc[c] = "data", loc # "data"
      PROVE  Cardinality(Reading') = Cardinality(Reading) - 1
  <2>1. Reading' = Reading \ {c} /\ c \in Reading
    BY <1>0, <1>6 DEF Reading
  <2> QED BY <1>1, <2>1, FS_RemoveElement
<1>7. /\ pc[c] # "children" /\ loc # "children" => Asking' = Asking
      /\ pc[c] # "data" /\ loc # "data" => Reading' = Reading
  BY <1>0 DEF Asking, Reading
<1> QED BY <1>2, <1>3, <1>4, <1>5, <1>6, <1>7

\* Every step of the client keeps one watch per caller: a caller brings its own when
\* it comes to "data", and the watcher thread trades an event for a watch.
LEMMA RefreshWatches ==
    ASSUME Inv, NEW a \in Actors, RefreshMethod(a)
    PROVE  OneWatchPerCaller'
<1>0. TypeOK /\ TypeOK' /\ OneWatchPerCaller
  BY RefreshType DEF Inv
<1> DEFINE data == Cardinality(Reading)  kids == Cardinality(Asking)
           all == Cardinality(Callers)
<1>s. /\ data \in Nat /\ kids \in Nat /\ all \in Nat /\ data + kids <= all
      /\ data' \in Nat /\ kids' \in Nat /\ data' + kids' <= all
  <2>1. Reading \in SUBSET Callers /\ Asking \in SUBSET Callers
        /\ Reading \cap Asking = {}
    BY DEF Asking, Reading
  <2>2. Reading' \in SUBSET Callers /\ Asking' \in SUBSET Callers
        /\ Reading' \cap Asking' = {}
    BY DEF Asking, Reading
  <2> QED BY <2>1, <2>2, Sizes
<1>n. armed \in Nat /\ notified \in Nat /\ armed' \in Nat /\ notified' \in Nat
  BY <1>0 DEF TypeOK
<1>a. a \in Callers \/ a = Watcher
  BY DEF Actors
<1>1. CASE GetChildrenWatched(a) /\ a \in Callers
  <2>1. /\ data' = data + 1 /\ kids' = kids - 1 /\ pc'[Watcher] = pc[Watcher]
        /\ armed' = armed + 1 /\ notified' = notified /\ cache' = cache
    BY <1>0, <1>1, Moves DEF GetChildrenWatched
  <2> QED BY <1>0, <1>s, <1>n, <2>1 DEF OneWatchPerCaller, Watches
<1>2. CASE GetChildrenFails(a) /\ a \in Callers
  <2>1. /\ data' = data /\ kids' = kids - 1 /\ pc'[Watcher] = pc[Watcher]
        /\ armed' = armed /\ notified' = notified /\ cache' = cache
    BY <1>0, <1>2, Moves DEF GetChildrenFails, watchVars
  <2> QED BY <1>0, <1>s, <1>n, <2>1 DEF OneWatchPerCaller, Watches
<1>3. CASE StoreInstances(a) /\ a \in Callers
  <2>1. /\ data' = data - 1 /\ kids' = kids /\ pc'[Watcher] = pc[Watcher]
        /\ armed' = armed /\ notified' = notified
    BY <1>0, <1>3, Moves DEF StoreInstances, watchVars
  <2>2. cache' # None
    BY <1>0, <1>3, NamesAssumption DEF StoreInstances, TypeOK
  <2> QED BY <1>0, <1>s, <1>n, <2>1, <2>2 DEF OneWatchPerCaller, Watches
<1>4. CASE a = Watcher /\ (GetChildrenWatched(a) \/ GetChildrenFails(a) \/ StoreInstances(a))
  <2>0. pc \in [Actors -> {"idle", "children", "data"}] /\ a \in Actors /\ pc'[a] # "children"
    BY <1>0, <1>4 DEF TypeOK, GetChildrenWatched, GetChildrenFails, StoreInstances, Goto
  <2>1. PICK loc : pc' = [pc EXCEPT ![a] = loc]
    BY <1>4 DEF GetChildrenWatched, GetChildrenFails, StoreInstances, Goto
  <2>2. \A c \in Callers : pc'[c] = pc[c]
    BY <1>4, <2>0, <2>1, NamesAssumption DEF Actors
  <2>3. Reading' = Reading /\ Asking' = Asking
    BY <2>2 DEF Asking, Reading
  <2>a. Watches' = armed' + notified'
    BY <1>4, <1>n, <2>0 DEF Watches
  <2>4. Watches' <= Watches
    <3>2. CASE GetChildrenWatched(a)
      <4>1. armed' = armed + 1 /\ notified' = notified /\ pc[Watcher] = "children"
        BY <1>4, <3>2 DEF GetChildrenWatched
      <4> QED BY <1>n, <2>a, <4>1 DEF Watches
    <3>3. CASE GetChildrenFails(a) \/ StoreInstances(a)
      <4>1. armed' = armed /\ notified' = notified
        BY <3>3 DEF GetChildrenFails, StoreInstances, watchVars
      <4> QED BY <1>n, <2>a, <4>1 DEF Watches
    <3> QED BY <1>4, <3>2, <3>3
  <2>5. cache' = cache \/ cache' # None
    BY <1>0, <1>4, NamesAssumption
       DEF GetChildrenWatched, GetChildrenFails, StoreInstances, TypeOK
  <2>6. Watches \in Nat
    BY <1>n DEF Watches
  <2>7. Watches' \in Nat
    <3>1. \A m, n \in Nat : m + n \in Nat
      OBVIOUS
    <3> QED BY <1>n, <2>a, <3>1, Zenon
  <2> QED BY <1>0, <1>s, <2>3, <2>4, <2>5, <2>6, <2>7 DEF OneWatchPerCaller
<1>5. ASSUME NEW s \in Servers, GetData(a, s) \/ GetDataFails(a, s) PROVE OneWatchPerCaller'
  BY <1>0, <1>5 DEF GetData, GetDataFails, OneWatchPerCaller, Watches, Asking, Reading, watchVars
<1> QED BY <1>a, <1>1, <1>2, <1>3, <1>4, <1>5 DEF RefreshMethod

\* Every step keeps the invariant.
LEMMA NextInv == Inv /\ [Next]_vars => Inv'
<1> SUFFICES ASSUME Inv, [Next]_vars PROVE Inv'
  OBVIOUS
<1>0. TypeOK /\ OneWatchPerCaller
  BY DEF Inv
<1>1. ASSUME NEW s \in Servers,
             Register(s) \/ Process(s) \/ SessionExpires(s) \/ LiveSessionExpires(s)
      PROVE  Inv'
  <2>1. TypeOK' /\ ServerOnly
    BY <1>0, <1>1, ServerStep
  <2>2. Watches' = Watches
    BY <1>0, <2>1 DEF ServerOnly, Watches, refreshVars, TypeOK
  <2>3. Reading' = Reading /\ Asking' = Asking /\ cache' = cache
    BY <2>1 DEF ServerOnly, Asking, Reading, refreshVars
  <2> QED BY <1>0, <2>1, <2>2, <2>3 DEF Inv, OneWatchPerCaller
<1>2. CASE OnMethodChanged
  <2>1. TypeOK'
    BY <1>0, <1>2 DEF OnMethodChanged, Goto, TypeOK, registrarVars, historyVars, Actors
  <2>2. Watches' = Watches
    BY <1>0, <1>2 DEF OnMethodChanged, Goto, Watches, TypeOK, Actors
  <2>3. Reading' = Reading /\ Asking' = Asking /\ cache' = cache
    BY <1>0, <1>2, NamesAssumption DEF OnMethodChanged, Goto, Asking, Reading, TypeOK, Actors
  <2> QED BY <1>0, <2>1, <2>2, <2>3 DEF Inv, OneWatchPerCaller
<1>3. ASSUME NEW c \in Callers, ResolveMiss(c) PROVE Inv'
  <2>1. TypeOK'
    BY <1>0, <1>3 DEF ResolveMiss, Goto, TypeOK, registrarVars, watchVars, historyVars, Actors
  <2>2. Reading' = Reading /\ pc'[Watcher] = pc[Watcher]
    BY <1>0, <1>3, Moves DEF ResolveMiss
  <2> QED BY <1>0, <1>3, <2>1, <2>2 DEF ResolveMiss, Inv, OneWatchPerCaller, Watches, watchVars
<1>4. ASSUME NEW a \in Actors, RefreshMethod(a) PROVE Inv'
  BY <1>0, <1>4, RefreshType, RefreshWatches DEF Inv
<1>5. CASE UNCHANGED vars
  BY <1>0, <1>5 DEF vars, registrarVars, watchVars, refreshVars, historyVars, Inv, TypeOK,
       OneWatchPerCaller, Watches, Asking, Reading
<1> QED BY <1>1, <1>2, <1>3, <1>4, <1>5 DEF Next, ResolveHit

\* The variables keep their types, and each caller brings at most one watch, in every
\* reachable state.
THEOREM Invariance == Spec => []Inv
BY InitInv, NextInv, PTL DEF Spec

\* However often instances come and go, and whatever fails, the resolver's watches, events
\* and renewals together never outnumber the callers.
THEOREM WatchesAreBounded == Spec => []WatchesBounded
<1>1. Inv => WatchesBounded
  <2> SUFFICES ASSUME Inv PROVE WatchesBounded
    OBVIOUS
  <2>1. Reading \in SUBSET Callers /\ Asking \in SUBSET Callers
        /\ Reading \cap Asking = {}
    BY DEF Asking, Reading
  <2>2. /\ Cardinality(Reading) \in Nat /\ Cardinality(Asking) \in Nat
        /\ Cardinality(Callers) \in Nat
        /\ Cardinality(Reading) + Cardinality(Asking) <= Cardinality(Callers)
    BY <2>1, Sizes
  <2>3. Watches \in Nat
    BY DEF Watches, Inv, TypeOK
  <2>4. Watches <= Cardinality(Callers)
    BY <2>2, <2>3 DEF Inv, OneWatchPerCaller
  <2> QED BY <2>4 DEF Watches, WatchesBounded
<1> QED BY <1>1, Invariance, PTL

\* Once the resolver is told of changes, only a refresh that fails in the watcher thread
\* ends this: no step of a caller, a server or ZooKeeper does.
THEOREM WatchChainHolds == Spec => WatchChain
<1>1. ASSUME Inv, [Next]_vars
      PROVE  [Watched => Watched' \/ (pc[Watcher] = "children" /\ pc'[Watcher] = "idle")]_vars
  <2>0. TypeOK /\ Watcher \in Actors
    BY <1>1 DEF Inv, Actors
  <2> SUFFICES ASSUME Watched, Next
               PROVE  Watched' \/ (pc[Watcher] = "children" /\ pc'[Watcher] = "idle")
    BY <1>1
  <2> USE DEF Watched
  <2>1. ASSUME NEW s \in Servers,
               Register(s) \/ Process(s) \/ SessionExpires(s) \/ LiveSessionExpires(s)
        PROVE  Watched'
    BY <2>0, <2>1, ServerStep DEF ServerOnly, refreshVars
  <2>2. CASE OnMethodChanged
    BY <2>0, <2>2 DEF OnMethodChanged, Goto, TypeOK
  <2>3. ASSUME NEW c \in Callers, ResolveHit(c) \/ ResolveMiss(c) PROVE Watched'
    BY <2>0, <2>3, NamesAssumption
       DEF ResolveHit, ResolveMiss, Goto, TypeOK, vars, watchVars, refreshVars
  <2>4. ASSUME NEW a \in Actors, RefreshMethod(a)
        PROVE  Watched' \/ (pc[Watcher] = "children" /\ pc'[Watcher] = "idle")
    BY <2>0, <2>4 DEF RefreshMethod, GetChildrenWatched, GetChildrenFails, StoreInstances,
         GetData, GetDataFails, Goto, TypeOK, watchVars
  <2> QED BY <2>1, <2>2, <2>3, <2>4 DEF Next
<1> QED BY <1>1, Invariance, PTL DEF Spec, WatchChain

\* A process that runs has a session of its own.
Numbered == \A s \in Servers : phase[s] # "off" => run[s] # 0

\* The client's steps leave the servers alone.
LEMMA ClientLeaves ==
    ASSUME Next, \A s \in Servers : ~(Register(s) \/ Process(s) \/ SessionExpires(s)
                                      \/ LiveSessionExpires(s))
    PROVE  owner' = owner /\ phase' = phase /\ run' = run
<1>1. CASE OnMethodChanged
  BY <1>1 DEF OnMethodChanged, registrarVars
<1>2. ASSUME NEW c \in Callers, ResolveHit(c) \/ ResolveMiss(c)
      PROVE  owner' = owner /\ phase' = phase /\ run' = run
  BY <1>2 DEF ResolveHit, ResolveMiss, vars, registrarVars
<1>3. ASSUME NEW a \in Actors, RefreshMethod(a)
      PROVE  owner' = owner /\ phase' = phase /\ run' = run
  BY <1>3 DEF RefreshMethod, GetChildrenWatched, GetChildrenFails, StoreInstances, GetData,
       GetDataFails, registrarVars
<1> QED BY <1>1, <1>2, <1>3 DEF Next

\* What the steps of one server's process, registration and session do to it, and that
\* they leave the other servers alone.
LEMMA OwnRegistration ==
    ASSUME TypeOK, NEW s \in Servers,
           Register(s) \/ Process(s) \/ SessionExpires(s) \/ LiveSessionExpires(s)
    PROVE  /\ \A r \in Servers \ {s} :
                phase'[r] = phase[r] /\ owner'[r] = owner[r] /\ run'[r] = run[r]
           /\ phase'[s] # "off" => run'[s] = run[s] + 1 \/ (phase[s] # "off" /\ run'[s] = run[s])
           /\ phase'[s] = "registered" =>
                \/ phase[s] = "registered" /\ owner'[s] = owner[s]
                \/ phase[s] = "registered" /\ (owner[s] # run[s] \/ failures' > failures)
                \/ owner'[s] # 0
                \/ owner'[s] = run[s] /\ phase[s] # "off"
<1>0. /\ phase \in [Servers -> {"off", "exists", "create", "registered", "failed"}]
      /\ owner \in [Servers -> Nat] /\ run \in [Servers -> Nat]
      /\ level[s] \in 1..4 /\ Len(RegisterPath) = 4 /\ RegisterPath[4] = "instance"
      /\ \A i \in 1..3 : RegisterPath[i] # "instance"
      /\ failures \in Nat
  BY BoundsAssumption DEF TypeOK, RegisterPath
<1>1. CASE CheckExists(s)
  <2>1. /\ owner' = owner /\ run' = run /\ phase[s] = "exists"
        /\ \/ /\ NodeExists(s)
              /\ phase' = [phase EXCEPT ![s] =
                             IF level[s] = 4 THEN "registered" ELSE "exists"]
           \/ phase' = [phase EXCEPT ![s] = "create"]
    BY <1>0, <1>1 DEF CheckExists, NextLevel
  <2>2. phase'[s] = "registered" => level[s] = 4 /\ NodeExists(s)
    BY <1>0, <2>1
  <2>3. phase'[s] = "registered" => owner[s] # 0
    BY <1>0, <2>2 DEF NodeExists
  <2> QED BY <1>0, <2>1, <2>3
<1>2. CASE CreateNode(s)
  <2>1. /\ run' = run /\ phase[s] = "create"
        /\ phase' = [phase EXCEPT ![s] = IF level[s] = 4 THEN "registered" ELSE "exists"]
        /\ IF level[s] = 4 THEN owner' = [owner EXCEPT ![s] = run[s]] ELSE owner' = owner
    BY <1>0, <1>2 DEF CreateNode, NextLevel, SetOwner
  <2> QED BY <1>0, <2>1
<1>3. CASE RegisterFails(s)
  BY <1>0, <1>3 DEF RegisterFails
<1>4. CASE Start(s)
  BY <1>0, <1>4 DEF Start
<1>5. CASE Crash(s)
  BY <1>0, <1>5 DEF Crash
<1>6. CASE Exit(s)
  BY <1>0, <1>6 DEF Exit, SetOwner
<1>7. CASE SessionExpires(s)
  BY <1>0, <1>7 DEF SessionExpires, SetOwner, registrarVars
<1>8. CASE LiveSessionExpires(s)
  BY <1>0, <1>8 DEF LiveSessionExpires, SetOwner, Fail, registrarVars
<1> QED BY <1>1, <1>2, <1>3, <1>4, <1>5, <1>6, <1>7, <1>8 DEF Register, Process

\* For any servers and restarts: registration leaves a server listed, and only the end of
\* its own session, or of the one whose node it has taken over, ends that.
THEOREM RegisteredServersStayListed == Spec => ListedOnceRegistered
<1>1. Init => Numbered
  BY DEF Init, Numbered
<1>2. Inv /\ Numbered /\ [Next]_vars => Numbered'
  <2> SUFFICES ASSUME Inv, Numbered, [Next]_vars PROVE Numbered'
    OBVIOUS
  <2>0. TypeOK /\ run \in [Servers -> Nat]
    BY DEF Inv, TypeOK
  <2>1. ASSUME NEW s \in Servers,
               Register(s) \/ Process(s) \/ SessionExpires(s) \/ LiveSessionExpires(s)
        PROVE  Numbered'
    <3>1. ASSUME NEW r \in Servers, phase'[r] # "off" PROVE run'[r] # 0
      <4>1. CASE r = s
        BY <2>0, <2>1, <3>1, <4>1, OwnRegistration DEF Numbered
      <4>2. CASE r # s
        BY <2>0, <2>1, <3>1, <4>2, OwnRegistration DEF Numbered
      <4> QED BY <4>1, <4>2
    <3> QED BY <3>1 DEF Numbered
  <2>2. CASE owner' = owner /\ phase' = phase /\ run' = run
    BY <2>2 DEF Numbered
  <2>3. CASE UNCHANGED vars
    BY <2>3 DEF Numbered, vars, registrarVars
  <2> QED BY <2>1, <2>2, <2>3, ClientLeaves
<1>3. ASSUME Inv, Numbered, [Next]_vars
      PROVE  [\A s \in Servers :
                phase'[s] = "registered" /\ owner'[s] = 0 =>
                    phase[s] = "registered" /\ (owner[s] # run[s] \/ failures' > failures)]_vars
  <2>0. TypeOK
    BY <1>3 DEF Inv
  <2> SUFFICES ASSUME Next, NEW s \in Servers, phase'[s] = "registered", owner'[s] = 0
               PROVE  phase[s] = "registered" /\ (owner[s] # run[s] \/ failures' > failures)
    BY <1>3
  <2>1. CASE owner'[s] = owner[s] /\ phase'[s] = phase[s]
    BY <1>3, <2>1 DEF Numbered
  <2>2. CASE Register(s) \/ Process(s) \/ SessionExpires(s) \/ LiveSessionExpires(s)
    BY <1>3, <2>0, <2>2, OwnRegistration DEF Numbered
  <2>3. ASSUME NEW r \in Servers \ {s},
               Register(r) \/ Process(r) \/ SessionExpires(r) \/ LiveSessionExpires(r)
        PROVE  owner'[s] = owner[s] /\ phase'[s] = phase[s]
    BY <2>0, <2>3, OwnRegistration
  <2> QED BY <2>1, <2>2, <2>3, ClientLeaves
<1> QED BY <1>1, <1>2, <1>3, Invariance, PTL DEF Spec, ListedOnceRegistered
=============================================================================
