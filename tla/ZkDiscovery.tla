------------------------------ MODULE ZkDiscovery ------------------------------
(***************************************************************************)
(* Service discovery through ZooKeeper (src/service_discovery.cc and       *)
(* src/zookeeperutil.cc), for one method: ZkRegistrar in each server       *)
(* process, and ZkResolver with its cache and watches in one client        *)
(* process.  ZooKeeper itself is external: a tree of nodes, ephemeral ones *)
(* owned by a session, and one-shot child watches.                         *)
(*                                                                         *)
(* An instance node is named by its server.  A server process has one      *)
(* session per run, numbered from 1.                                       *)
(***************************************************************************)
EXTENDS Integers, Sequences, FiniteSets

CONSTANTS
    Servers,   \* server endpoints: the instance ids
    Callers,   \* threads that call Resolve
    Watcher,   \* the thread in which the ZooKeeper client runs watchers
    MaxRuns,   \* bound: server -> how often its process is started
    MaxFailures,  \* bound: calls that ZooKeeper refuses and live sessions that expire
    None

ASSUME BoundsAssumption == MaxRuns \in [Servers -> Nat] /\ MaxFailures \in Nat
ASSUME NamesAssumption == Watcher \notin Callers /\ \A S \in SUBSET Servers : S # None
ASSUME CallersAssumption == IsFiniteSet(Callers)

VARIABLES
    paths,      \* the persistent nodes that exist
    owner,      \* the session that owns each instance node, 0 if there is none
    run,        \* the current session of each server process
    phase,      \* where each server is in Register
    level,      \* the position in RegisterPath
    armed,      \* child watches set and not fired
    notified,   \* watch events waiting for the watcher thread
    cache,      \* method_instances[method_path], None if absent
    pc,         \* where each thread of the client is in RefreshMethod
    children,   \* the children still to be read
    instances,  \* RefreshMethod's local vector
    failures,   \* how many calls have failed and live sessions expired so far
    raced       \* the instances have changed while a caller was in RefreshMethod

registrarVars == <<run, phase, level>>
watchVars == <<armed, notified>>
refreshVars == <<pc, children, instances>>
historyVars == <<failures, raced>>
vars == <<paths, owner, registrarVars, watchVars, cache, refreshVars, historyVars>>

Actors == Callers \cup {Watcher}
Registered == {s \in Servers : owner[s] # 0}

\* EnsurePath(service), EnsurePath(method) with its two levels, and CreateNode.
RegisterPath == <<"service", "service", "method", "instance">>

Init ==
    /\ paths = {} /\ owner = [s \in Servers |-> 0]
    /\ run = [s \in Servers |-> 0] /\ phase = [s \in Servers |-> "off"]
    /\ level = [s \in Servers |-> 1]
    /\ armed = 0 /\ notified = 0 /\ cache = None
    /\ pc = [a \in Actors |-> "idle"]
    /\ children = [a \in Actors |-> {}] /\ instances = [a \in Actors |-> {}]
    /\ failures = 0 /\ raced = FALSE

-----------------------------------------------------------------------------
(* ZooKeeper *)

Fail == failures < MaxFailures /\ failures' = failures + 1

\* An instance node appears or disappears, and every watch set fires.
SetOwner(s, n) ==
    /\ raced' = (raced \/ \E c \in Callers : pc[c] # "idle")
    /\ owner' = [owner EXCEPT ![s] = n]
    /\ notified' = notified + armed /\ armed' = 0

\* The session of a process that has ended expires.
SessionExpires(s) ==
    /\ owner[s] # 0 /\ (owner[s] # run[s] \/ phase[s] = "off")
    /\ SetOwner(s, 0)
    /\ UNCHANGED <<paths, registrarVars, cache, refreshVars, failures>>

\* So does that of a process cut off from ZooKeeper for too long; nothing in the
\* server reacts to it.
LiveSessionExpires(s) ==
    /\ owner[s] # 0 /\ owner[s] = run[s] /\ phase[s] # "off"
    /\ Fail /\ SetOwner(s, 0)
    /\ UNCHANGED <<paths, registrarVars, cache, refreshVars>>

-----------------------------------------------------------------------------
(* Servers: RegisterEndpoints and ZkRegistrar::Register *)

Start(s) ==
    /\ phase[s] = "off" /\ run[s] < MaxRuns[s]
    /\ run' = [run EXCEPT ![s] = @ + 1]
    /\ phase' = [phase EXCEPT ![s] = "exists"]
    /\ UNCHANGED <<paths, owner, level, watchVars, cache, refreshVars, historyVars>>

\* Mutant: the instance is looked up under the path of its method.
NodeExists_Method(s) ==
    IF RegisterPath[level[s]] = "instance" THEN "method" \in paths ELSE RegisterPath[level[s]] \in paths

NodeExists(s) ==
    IF RegisterPath[level[s]] = "instance" THEN owner[s] # 0 ELSE RegisterPath[level[s]] \in paths

\* CreateNode returns success: on to the next node.
NextLevel(s) ==
    /\ level' = [level EXCEPT ![s] = IF @ = Len(RegisterPath) THEN 1 ELSE @ + 1]
    /\ phase' = [phase EXCEPT ![s] =
                   IF level[s] = Len(RegisterPath) THEN "registered" ELSE "exists"]
    /\ UNCHANGED run

\* CreateNode: zoo_exists; a node that exists counts as created.
CheckExists(s) ==
    /\ phase[s] = "exists"
    /\ \/ NodeExists(s) /\ NextLevel(s)
       \/ /\ ~NodeExists(s)
          /\ phase' = [phase EXCEPT ![s] = "create"]
          /\ UNCHANGED <<run, level>>
    /\ UNCHANGED <<paths, owner, watchVars, cache, refreshVars, historyVars>>

\* CreateNode: zoo_create, of a persistent node or of the ephemeral instance.
CreateNode(s) ==
    /\ phase[s] = "create" /\ ~NodeExists(s)
    /\ NextLevel(s)
    /\ \/ /\ RegisterPath[level[s]] = "instance"
          /\ SetOwner(s, run[s])
          /\ UNCHANGED <<paths, failures>>
       \/ /\ RegisterPath[level[s]] # "instance"
          /\ paths' = paths \cup {RegisterPath[level[s]]}
          /\ UNCHANGED <<owner, watchVars, historyVars>>
    /\ UNCHANGED <<cache, refreshVars>>

\* CreateNode fails: zoo_create finds that the node exists by now, or ZooKeeper
\* does not answer.  RpcServer::Run throws.
RegisterFails(s) ==
    /\ \/ phase[s] = "create" /\ NodeExists(s) /\ UNCHANGED failures
       \/ phase[s] \in {"exists", "create"} /\ Fail
    /\ phase' = [phase EXCEPT ![s] = "failed"] /\ level' = [level EXCEPT ![s] = 1]
    /\ UNCHANGED <<paths, owner, run, watchVars, cache, refreshVars, raced>>

\* The process ends without zookeeper_close: its session lives on for a while.
Crash(s) ==
    /\ phase[s] # "off"
    /\ phase' = [phase EXCEPT ![s] = "off"] /\ level' = [level EXCEPT ![s] = 1]
    /\ UNCHANGED <<paths, owner, run, watchVars, cache, refreshVars, historyVars>>

\* ~ZkClient calls zookeeper_close, which removes the session's ephemeral node.
Exit(s) ==
    /\ phase[s] \in {"registered", "failed"}
    /\ phase' = [phase EXCEPT ![s] = "off"]
    /\ \/ owner[s] = run[s] /\ SetOwner(s, 0)
       \/ owner[s] # run[s] /\ UNCHANGED <<owner, watchVars, raced>>
    /\ UNCHANGED <<paths, run, level, cache, refreshVars, failures>>

-----------------------------------------------------------------------------
(* The resolver *)

Goto(a, loc) == pc' = [pc EXCEPT ![a] = loc]

\* Resolve chooses among the cached instances, or finds no entry and refreshes.
ResolveHit(c) == pc[c] = "idle" /\ cache # None /\ UNCHANGED vars
ResolveMiss(c) ==
    /\ pc[c] = "idle" /\ cache = None
    /\ Goto(c, "children")
    /\ UNCHANGED <<paths, owner, registrarVars, watchVars, cache, children, instances, historyVars>>

\* ChildWatcher calls OnMethodChanged, which refreshes the method.
OnMethodChanged ==
    /\ pc[Watcher] = "idle" /\ notified > 0
    /\ notified' = notified - 1
    /\ Goto(Watcher, "children")
    /\ UNCHANGED <<paths, owner, registrarVars, armed, cache, children, instances, historyVars>>

\* Mutant: a refresh in the watcher thread uses GetChildren, without a watch.
GetChildrenWatched_Unwatched(a) ==
    /\ pc[a] = "children" /\ "method" \in paths
    /\ children' = [children EXCEPT ![a] = Registered]
    /\ instances' = [instances EXCEPT ![a] = {}]
    /\ armed' = IF a = Watcher THEN armed ELSE armed + 1
    /\ Goto(a, "data")
    /\ UNCHANGED <<paths, owner, registrarVars, notified, cache, historyVars>>

\* RefreshMethod: zoo_wget_children reads the list and sets a watch at once.
GetChildrenWatched(a) ==
    /\ pc[a] = "children" /\ "method" \in paths
    /\ children' = [children EXCEPT ![a] = Registered]
    /\ instances' = [instances EXCEPT ![a] = {}]
    /\ armed' = armed + 1
    /\ Goto(a, "data")
    /\ UNCHANGED <<paths, owner, registrarVars, notified, cache, historyVars>>

\* RefreshMethod returns an error; a watcher's error is logged.
GetChildrenFails(a) ==
    /\ pc[a] = "children"
    /\ \/ "method" \notin paths /\ UNCHANGED failures
       \/ "method" \in paths /\ Fail
    /\ Goto(a, "idle")
    /\ UNCHANGED <<paths, owner, registrarVars, watchVars, cache, children, instances, raced>>

\* GetData of one child after the other,
GetData(a, s) ==
    /\ pc[a] = "data" /\ s \in children[a]
    /\ owner[s] # 0
    /\ children' = [children EXCEPT ![a] = @ \ {s}]
    /\ instances' = [instances EXCEPT ![a] = @ \cup {s}]
    /\ UNCHANGED <<paths, owner, registrarVars, watchVars, cache, pc, historyVars>>

\* leaving out those that cannot be read.
GetDataFails(a, s) ==
    /\ pc[a] = "data" /\ s \in children[a]
    /\ (owner[s] = 0 /\ UNCHANGED failures) \/ (owner[s] # 0 /\ Fail)
    /\ children' = [children EXCEPT ![a] = @ \ {s}]
    /\ UNCHANGED <<paths, owner, registrarVars, watchVars, cache, pc, instances, raced>>

\* Mutant: an empty list is not worth caching.
StoreInstances_NotEmpty(a) ==
    /\ pc[a] = "data" /\ children[a] = {}
    /\ cache' = IF instances[a] = {} THEN cache ELSE instances[a]
    /\ Goto(a, "idle")
    /\ UNCHANGED <<paths, owner, registrarVars, watchVars, children, instances, historyVars>>

\* Mutant: a refresh drops the instances that are gone, and adds none.
StoreInstances_OnlyRemoves(a) ==
    /\ pc[a] = "data" /\ children[a] = {}
    /\ cache' = IF cache = None THEN instances[a] ELSE cache \cap instances[a]
    /\ Goto(a, "idle")
    /\ instances' = [instances EXCEPT ![a] = {}]
    /\ UNCHANGED <<paths, owner, registrarVars, watchVars, children, historyVars>>

\* The list replaces the cache entry, under cache_state_->mutex.
StoreInstances(a) ==
    /\ pc[a] = "data" /\ children[a] = {}
    /\ cache' = instances[a]
    /\ Goto(a, "idle")
    /\ instances' = [instances EXCEPT ![a] = {}]
    /\ UNCHANGED <<paths, owner, registrarVars, watchVars, children, historyVars>>

-----------------------------------------------------------------------------
RefreshMethod(a) ==
    \/ GetChildrenWatched(a) \/ GetChildrenFails(a) \/ StoreInstances(a)
    \/ \E s \in Servers : GetData(a, s) \/ GetDataFails(a, s)
Register(s) == CheckExists(s) \/ CreateNode(s) \/ RegisterFails(s)
Process(s) == Start(s) \/ Crash(s) \/ Exit(s)

Next ==
    \/ \E s \in Servers :
        Register(s) \/ Process(s) \/ SessionExpires(s) \/ LiveSessionExpires(s)
    \/ OnMethodChanged
    \/ \E c \in Callers : ResolveHit(c) \/ ResolveMiss(c)
    \/ \E a \in Actors : RefreshMethod(a)

\* Threads run, ZooKeeper delivers watch events and expires dead sessions.  Nothing
\* obliges a server to start or to end, or a session to expire while its server lives.
Fairness ==
    /\ \A a \in Actors : WF_vars(RefreshMethod(a))
    /\ WF_vars(OnMethodChanged)
    /\ \A s \in Servers : WF_vars(Register(s)) /\ WF_vars(SessionExpires(s))

Spec == Init /\ [][Next]_vars
FairSpec == Spec /\ Fairness

-----------------------------------------------------------------------------
(* Properties *)

\* Every variable stays in its type.
TypeOK ==
    /\ paths \subseteq {"service", "method"}
    /\ owner \in [Servers -> Nat] /\ run \in [Servers -> Nat]
    /\ phase \in [Servers -> {"off", "exists", "create", "registered", "failed"}]
    /\ level \in [Servers -> DOMAIN RegisterPath]
    /\ armed \in Nat /\ notified \in Nat
    /\ cache = None \/ cache \subseteq Servers
    /\ pc \in [Actors -> {"idle", "children", "data"}]
    /\ children \in [Actors -> SUBSET Servers] /\ instances \in [Actors -> SUBSET Servers]
    /\ failures \in 0..MaxFailures /\ raced \in BOOLEAN

\* However often the instances change, the resolver has at most one watch per
\* caller that ever missed the cache: a callback sets one new watch at most, and
\* the entry, once stored, is never missed again.
WatchesBounded ==
    armed + notified + (IF pc[Watcher] = "children" THEN 1 ELSE 0) <= Cardinality(Callers)

\* RefreshMethod's comment says that the watch it sets makes every later change
\* call OnMethodChanged.  The resolver hears of the next change while a watch is
\* set, its event is on its way, or the watcher thread is about to set the next;
\* whatever the callers and the servers do, only a refresh that fails in the
\* watcher thread ends this.
Watched == armed > 0 \/ notified > 0 \/ pc[Watcher] = "children"
WatchChain ==
    [][Watched => Watched' \/ (pc[Watcher] = "children" /\ pc'[Watcher] = "idle")]_vars

UpToDate == cache = None \/ cache = Registered

\* Once the instances no longer change, the cache entry is the list of instances: it
\* has learnt of those that joined and stay as well as of those that left, unless a
\* call failed or the instances changed during a caller's refresh.
CacheConverges == <>[](UpToDate \/ failures > 0 \/ raced)

\* service_discovery.h says that the watch callback refreshes the cache entry:
\* then the entry ends up right in every case in which no call fails.
CacheFollows == <>[](UpToDate \/ failures > 0)

\* A server whose Register has returned success is in the list, and leaves it only
\* when its own session expires or when the node was not its own: CreateNode takes a
\* node that exists for success, and after a restart that is the node of the session
\* of its predecessor, which expires later.
ListedOnceRegistered ==
    [][\A s \in Servers :
         phase'[s] = "registered" /\ owner'[s] = 0 =>
             phase[s] = "registered" /\ (owner[s] # run[s] \/ failures' > failures)]_vars
=============================================================================
