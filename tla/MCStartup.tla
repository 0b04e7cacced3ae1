------------------------------- MODULE MCStartup -------------------------------
(* A small instance of Startup for TLC: files about one part of the settings *)
(* each, with lines that are missing, repeated, wrong or in the wrong place. *)
EXTENDS Startup

Section(indent, name) == Line(indent, <<name>>, Empty)
Entry(indent, name, value) == Line(indent, <<name>>, value)

Nesting ==
    {Section(0, "a"), Section(1, "b"), Section(2, "a"), Section(1, "a"), Ignored,
     Entry(0, "k", Word("v")), Entry(1, "k", Word("w")), Entry(2, "k", Word("v"))}
Address ==
    {Section(0, "server"), Section(0, "discovery"), Entry(1, "host", Word("h")),
     Entry(1, "host", List(<<Item(Word("h"), Number(8080))>>)),
     Entry(1, "port", Number(80)), Entry(1, "port", Number(PortRange)),
     Entry(1, "port", Word("http")), Entry(1, "backend", Word("zk"))}
Timeout ==
    {Section(0, "client"), Section(1, "rpc_timeout_ms"), Entry(1, "rpc_timeout_ms", Number(0)),
     Entry(1, "rpc_timeout_ms", Number(100)), Entry(1, "rpc_timeout_ms", Word("soon")),
     Entry(1, "rpc_timeout_ms", List(<<Item(Empty, Number(80))>>))}
Services ==
    {Section(0, "discovery"), Section(1, "services"), Section(2, "S"),
     Entry(3, "m", List(<<Item(Word("h"), Number(80)), Item(Word("i"), Number(PortRange + 1))>>)),
     Line(2, <<"S", "m">>, List(<<Item(Word("h"), Number(80)), Item(Word("i"), Word("x"))>>)),
     Line(2, <<"S", "n">>,
          List(<<Item(Word("h"), Number(1)), Item(Word("h"), Number(PortRange - 1))>>)),
     Line(2, <<"S", "m">>, Word("h"))}
Logging ==
    {Section(0, "logging"), Entry(1, "mode", Word("async")), Entry(1, "sink", Word("file")),
     Entry(1, "sink", Word("stderr")), Entry(1, "min_level", Word("info")),
     Entry(1, "file_path", Word("log")), Section(1, "file_path")}
AllPages == {Nesting, Address, Timeout, Services, Logging}
=============================================================================
