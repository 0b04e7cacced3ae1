-------------------------------- MODULE Settings --------------------------------
(***************************************************************************)
(* The typed settings (src/settings.cc) built from a configuration file:   *)
(* ServerSettings, ClientSettings and LoggerSettings::Load, and what       *)
(* StaticResolver makes of the static services.                            *)
(*                                                                         *)
(* A value is a text: a word, a number as std::stoul and std::stoi read it *)
(* at the front of a text, or a text with colons, which is a list of       *)
(* host:port items.  A number that std::stoul refuses is a word.  The      *)
(* first item of a list has a colon; one without it has an empty port.     *)
(***************************************************************************)
EXTENDS Config

Word(w) == [kind |-> "word", word |-> w]
Number(n) == [kind |-> "number", number |-> n]
List(items) == [kind |-> "list", items |-> items]
Item(host, port) == [host |-> host, port |-> port]

Texts ==
    {Empty} \cup [kind : {"word"}, word : STRING \ {""}] \cup [kind : {"number"}, number : Int]
Items == [host : Texts, port : Texts]
Values == Texts \cup [kind : {"list"}, items : Seq(Items) \ {<<>>}]
Lines == {Ignored} \cup [kind : {"line"}, indent : Nat, key : Seq(STRING), value : Values]

ASSUME LinesAssumption == \A p \in Pages : \A l \in p : l \in Lines

PortRange == 65536     \* of std::uint16_t
IntMax == 2147483647   \* std::stoi throws above it
DefaultTimeout == 3000
Error == [ok |-> FALSE]

Is(value, words) == value.kind = "word" /\ value.word \in words

\* Mutant: the number is checked before it is cut to 16 bits.
ParseEndpoint_Wide(host, port) ==
    IF port.kind # "number" \/ host = Empty THEN Error
    ELSE IF port.number = 0 THEN Error
    ELSE [ok |-> TRUE, host |-> host, port |-> port.number % PortRange]

\* host:port.  The port is cut to 16 bits before IsValid looks at it.
ParseEndpoint(host, port) ==
    IF port.kind # "number" \/ host = Empty THEN Error
    ELSE IF port.number % PortRange = 0 THEN Error
    ELSE [ok |-> TRUE, host |-> host, port |-> port.number % PortRange]

\* Two settings joined by a colon.  ParseEndpoint splits at the first colon there is,
\* and std::stoul reads what is in front of the next one.
Leading(value) == IF value.kind = "list" THEN value.items[1].host ELSE value
ParseJoined(host, port) ==
    IF host.kind = "list" THEN ParseEndpoint(host.items[1].host, host.items[1].port)
    ELSE ParseEndpoint(host, Leading(port))

\* One item that cannot be parsed spoils the list.
ParseEndpointList(value) ==
    LET parsed(i) == ParseEndpoint(value.items[i].host, value.items[i].port) IN
    IF value.kind # "list" THEN Error
    ELSE IF \E i \in DOMAIN value.items : ~parsed(i).ok THEN Error
    ELSE [ok |-> TRUE, endpoints |-> [i \in DOMAIN value.items |-> parsed(i)]]

ServicesPrefix == <<"discovery", "services">>
ServiceKeys == {p \in DOMAIN config_map : Len(p) > 2 /\ SubSeq(p, 1, 2) = ServicesPrefix}
ServiceKey(p) == SubSeq(p, 3, Len(p))

\* An unknown backend is static, and a list that cannot be parsed is skipped.
LoadDiscoveryConfig ==
    LET listed == {p \in ServiceKeys : ParseEndpointList(config_map[p]).ok} IN
    [backend |-> IF Is(Load(<<"discovery", "backend">>), {"zookeeper", "zk"})
                 THEN "kZookeeper" ELSE "kStatic",
     zookeeper_endpoint |-> ParseJoined(Load(<<"discovery", "zookeeper", "host">>),
                                        Load(<<"discovery", "zookeeper", "port">>)),
     static_services |-> [key \in {ServiceKey(p) : p \in listed} |->
                            ParseEndpointList(config_map[ServicesPrefix \o key]).endpoints]]

BuildServerConfig ==
    LET endpoint == ParseJoined(Load(<<"server", "host">>), Load(<<"server", "port">>)) IN
    IF ~endpoint.ok THEN Error
    ELSE [ok |-> TRUE, listen_endpoint |-> endpoint, discovery |-> LoadDiscoveryConfig]

BuildClientConfig ==
    LET raw == Load(<<"client", "rpc_timeout_ms">>)  timeout == Leading(raw) IN
    IF raw # Empty /\ (timeout.kind # "number" \/ timeout.number \notin 1..IntMax) THEN Error
    ELSE [ok |-> TRUE, discovery |-> LoadDiscoveryConfig,
          timeout_ms |-> IF raw = Empty THEN DefaultTimeout ELSE timeout.number]

\* mode, sink and min_level are required; a path goes with a sink that writes to
\* a file and with no other.
BuildLoggerConfig ==
    LET mode == Load(<<"logging", "mode">>)  sink == Load(<<"logging", "sink">>)
        level == Load(<<"logging", "min_level">>)
        path == Load(<<"logging", "file_path">>)
        writes_file == Is(sink, {"file", "stderr_and_file"})
    IN  IF /\ Is(mode, {"sync", "async"}) /\ Is(level, {"info", "warn", "error"})
           /\ Is(sink, {"stderr", "file", "stderr_and_file"})
           /\ writes_file <=> path # Empty
        THEN [ok |-> TRUE, mode |-> mode.word, sink |-> sink.word, file_path |-> path]
        ELSE Error

\* LoggerConfig::ToOptions
ToOptions(logger) ==
    [async_enabled |-> logger.mode = "async",
     stderr_enabled |-> logger.sink \in {"stderr", "stderr_and_file"},
     file_path |-> logger.file_path]

\* StaticResolver::Resolve: the endpoints it may choose, {} for an error.
Resolve(discovery, key) ==
    IF key \in DOMAIN discovery.static_services
    THEN Range(discovery.static_services[key]) ELSE {}

\* The end of the file; the settings are built from the table.
EndOfFile ==
    /\ phase = "reading" /\ phase' = "loaded"
    /\ UNCHANGED fileVars

-----------------------------------------------------------------------------
(* Properties *)

Port == 1..(PortRange - 1)
Valid(endpoint) == endpoint.host # Empty /\ endpoint.port \in Port
NamesEndpoint(item) ==
    item.host # Empty /\ item.port.kind = "number" /\ item.port.number \in Port

\* The endpoints of a static service are those of its list in the file, one for one
\* and in order: a list of endpoints is never left out or used in part.  A port that
\* is out of range does not spoil its list: it is cut to some other port.
ServedAsListed(value, services, key) ==
    /\ key \in DOMAIN services =>
         /\ value.kind = "list" /\ DOMAIN services[key] = DOMAIN value.items
         /\ \A i \in DOMAIN value.items :
              LET item == value.items[i]  endpoint == services[key][i] IN
              /\ Valid(endpoint) /\ endpoint.host = item.host
              /\ NamesEndpoint(item) => endpoint.port = item.port.number
    /\ value.kind = "list" /\ (\A i \in DOMAIN value.items : NamesEndpoint(value.items[i])) =>
         key \in DOMAIN services

\* Settings that were loaded without an error can be used as the components use
\* them: the server's address is complete, the client's timeout is one (zero
\* would mean no timeout to setsockopt), the logger has a place to write to, and
\* the resolver never chooses from an empty list, and for every service the file
\* names from the endpoints of its list.
SettingsUsable ==
    phase = "loaded" =>
        /\ BuildServerConfig.ok => Valid(BuildServerConfig.listen_endpoint)
        /\ BuildClientConfig.ok => BuildClientConfig.timeout_ms > 0
        /\ BuildLoggerConfig.ok =>
             LET options == ToOptions(BuildLoggerConfig) IN
             options.stderr_enabled \/ options.file_path # Empty
        /\ LET services == LoadDiscoveryConfig.static_services IN
           /\ \A p \in ServiceKeys : ServedAsListed(config_map[p], services, ServiceKey(p))
           /\ \A key \in DOMAIN services : Resolve(LoadDiscoveryConfig, key) # {}
=============================================================================
