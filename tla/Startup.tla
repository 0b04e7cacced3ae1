-------------------------------- MODULE Startup --------------------------------
(***************************************************************************)
(* A process starts: it loads its settings, constructs an RpcServer, whose *)
(* registrar may be a ZkClient, and RpcClients, whose resolvers may be     *)
(* others (src/service_discovery.cc, src/zookeeperutil.cc); then the       *)
(* server announces its endpoints and listens (src/rpc_server.cc).         *)
(*                                                                         *)
(* All ZkClients of the process share g_connected.  ZooKeeper is external. *)
(***************************************************************************)
EXTENDS Settings

CONSTANTS
    ZkClients,  \* the ZkClient objects, each started in a thread of its own
    Registrar   \* the one that belongs to the server

ASSUME RegistrarAssumption == Registrar \in ZkClients

VARIABLES
    backend,      \* the discovery backend of the settings
    reachable,    \* does ZooKeeper answer?
    g_connected,  \* the flag of zookeeperutil.cc
    pc,           \* where each ZkClient is in its factory function and in Start
    session,      \* the state of each ZkClient's session
    server,       \* where the server is in Run
    registered    \* some of the server's endpoints are in ZooKeeper

zkVars == <<g_connected, pc, session>>
serverVars == <<server, registered>>
startVars == <<backend, reachable, zkVars, serverVars>>
allVars == <<phase, fileVars, startVars>>

Init ==
    /\ ConfigInit
    /\ backend = "kStatic" /\ reachable = FALSE /\ g_connected = FALSE
    /\ pc = [z \in ZkClients |-> "idle"] /\ session = [z \in ZkClients |-> "none"]
    /\ server = "constructing" /\ registered = FALSE

Goto(z, loc) == pc' = [pc EXCEPT ![z] = loc]

-----------------------------------------------------------------------------
\* LoadRawConfig and the parts of Load that read the file
LoadConfigFile == (OpenFile \/ OpenFails \/ ReadLine \/ EndOfFile) /\ UNCHANGED startVars

\* ServerSettings::Load returns, and the table goes away.
LoadSettings ==
    /\ phase = "loaded"
    /\ page' = {} /\ lines' = <<>> /\ sections' = <<>> /\ config_map' = NoEntries
    /\ \/ ~BuildServerConfig.ok /\ phase' = "failed" /\ UNCHANGED <<backend, reachable>>
       \/ /\ BuildServerConfig.ok /\ phase' = "running"
          /\ backend' = BuildServerConfig.discovery.backend
          /\ reachable' \in BOOLEAN
    /\ UNCHANGED <<zkVars, serverVars>>

\* DiscoveryFactory::CreateRegistrar and CreateResolver
Create(z) ==
    /\ phase = "running" /\ pc[z] = "idle"
    /\ Goto(z, IF backend = "kZookeeper" THEN "reset" ELSE "fallback")
    /\ UNCHANGED <<phase, fileVars, backend, reachable, g_connected, session, serverVars>>

\* ZkClient::Start: the flag is cleared, under g_connection_mutex,
StartReset(z) ==
    /\ phase = "running" /\ pc[z] = "reset"
    /\ g_connected' = FALSE
    /\ Goto(z, "init")
    /\ UNCHANGED <<phase, fileVars, backend, reachable, session, serverVars>>

\* Mutant: the flag is cleared after zookeeper_init, which may have connected.
StartInit_ThenResets(z) ==
    /\ phase = "running" /\ pc[z] = "init"
    /\ session' \in {[session EXCEPT ![z] = s] : s \in {"connecting", "connected"}}
    /\ g_connected' = FALSE
    /\ Goto(z, "waiting")
    /\ UNCHANGED <<phase, fileVars, backend, reachable, serverVars>>

\* the session begins to connect,
StartInit(z) ==
    /\ phase = "running" /\ pc[z] = "init"
    /\ session' = [session EXCEPT ![z] = "connecting"]
    /\ Goto(z, "waiting")
    /\ UNCHANGED <<phase, fileVars, backend, reachable, g_connected, serverVars>>

\* or zookeeper_init fails, and the static resolver or no registrar is used;
StartInitFails(z) ==
    /\ phase = "running" /\ pc[z] = "init"
    /\ Goto(z, "init failed")
    /\ UNCHANGED <<phase, fileVars, backend, reachable, g_connected, session, serverVars>>

\* then Start waits for the flag, which any session of the process sets.
StartReturns(z) ==
    /\ phase = "running" /\ pc[z] = "waiting" /\ g_connected
    /\ Goto(z, "started")
    /\ UNCHANGED <<phase, fileVars, backend, reachable, g_connected, session, serverVars>>

\* GlobalWatcher, in a thread of the ZooKeeper client
SessionConnected(z) ==
    /\ phase = "running" /\ reachable /\ session[z] = "connecting"
    /\ session' = [session EXCEPT ![z] = "connected"]
    /\ g_connected' = TRUE
    /\ UNCHANGED <<phase, fileVars, backend, reachable, pc, serverVars>>
SessionLost(z) ==
    /\ phase = "running" /\ session[z] = "connected"
    /\ session' = [session EXCEPT ![z] = "connecting"]
    /\ UNCHANGED <<phase, fileVars, backend, reachable, g_connected, pc, serverVars>>

-----------------------------------------------------------------------------
(* RpcServer::Run *)

\* RegisterEndpoints announces one method after the other: the first of them is in
\* ZooKeeper,
RegisterMethod ==
    /\ phase = "running" /\ server = "constructing" /\ ~registered
    /\ pc[Registrar] = "started" /\ session[Registrar] = "connected"
    /\ registered' = TRUE
    /\ UNCHANGED <<phase, fileVars, backend, reachable, zkVars, server>>

\* then all are.  A server without methods announces none, and NoopRegistrar does
\* nothing.
RegisterEndpoints ==
    /\ phase = "running" /\ server = "constructing"
    /\ pc[Registrar] \in {"fallback", "init failed", "started"}
    /\ server' = "registered"
    /\ UNCHANGED <<phase, fileVars, backend, reachable, zkVars, registered>>

\* A call to ZooKeeper fails, for the first method or a later one, also because
\* Start returned without a session: Run throws.
RegisterFails ==
    /\ phase = "running" /\ server = "constructing" /\ pc[Registrar] = "started"
    /\ phase' = "gone"
    /\ UNCHANGED <<fileVars, startVars>>

Listen ==
    /\ phase = "running" /\ server = "registered"
    /\ server' = "listening"
    /\ UNCHANGED <<phase, fileVars, backend, reachable, zkVars, registered>>

\* Mutant: Run begins again.
ListenFails_Restarts ==
    /\ phase = "running" /\ server = "registered"
    /\ server' = "constructing"
    /\ UNCHANGED <<phase, fileVars, backend, reachable, zkVars, registered>>

ListenFails ==
    /\ phase = "running" /\ server = "registered"
    /\ phase' = "gone"
    /\ UNCHANGED <<fileVars, startVars>>

\* The process exits or crashes, also while it waits.
Ends ==
    /\ phase = "running" /\ phase' = "gone"
    /\ UNCHANGED <<fileVars, startVars>>

\* zookeeper_close, or the expiry of the session, removes the endpoints.
Withdraw ==
    /\ phase = "gone" /\ registered
    /\ registered' = FALSE
    /\ UNCHANGED <<phase, fileVars, backend, reachable, zkVars, server>>

-----------------------------------------------------------------------------
Start(z) == Create(z) \/ StartReset(z) \/ StartInit(z) \/ StartInitFails(z) \/ StartReturns(z)
Run == RegisterMethod \/ RegisterEndpoints \/ RegisterFails \/ Listen \/ ListenFails

Over == (phase = "failed" \/ (phase = "gone" /\ ~registered)) /\ UNCHANGED allVars

Next ==
    \/ LoadConfigFile \/ LoadSettings
    \/ \E z \in ZkClients : Start(z) \/ SessionConnected(z) \/ SessionLost(z)
    \/ Run \/ Ends \/ Withdraw \/ Over

\* Threads run, a reachable ZooKeeper accepts sessions, dead sessions end.
Fairness ==
    /\ \A z \in ZkClients : WF_allVars(Start(z)) /\ WF_allVars(SessionConnected(z))
    /\ WF_allVars(Run) /\ WF_allVars(Withdraw)

Spec == Init /\ [][Next]_allVars /\ Fairness

-----------------------------------------------------------------------------
(* Properties *)

\* Every variable of the start of the process stays in its type.
TypeOK ==
    /\ phase \in {"closed", "reading", "loaded", "failed", "running", "gone"}
    /\ backend \in {"kStatic", "kZookeeper"}
    /\ reachable \in BOOLEAN /\ g_connected \in BOOLEAN /\ registered \in BOOLEAN
    /\ pc \in [ZkClients -> {"idle", "reset", "init", "waiting", "started", "init failed",
                             "fallback"}]
    /\ session \in [ZkClients -> {"none", "connecting", "connected"}]
    /\ server \in {"constructing", "registered", "listening"}

\* When ZooKeeper can be reached, Start returns in every thread, although each
\* Start clears the flag that the others wait for.  A Start whose zookeeper_init
\* fails after it has cleared the flag can leave the others waiting.
StartsReturn ==
    \A z \in ZkClients :
        pc[z] = "waiting" ~>
            \/ pc[z] = "started" \/ phase = "gone" \/ ~reachable
            \/ \E other \in ZkClients : pc[other] = "init failed"

\* Endpoints that are announced before the server listens do not stay so: it
\* listens in the end, or they are withdrawn.
AnnouncedListens == registered ~> (server = "listening" \/ ~registered)
=============================================================================
