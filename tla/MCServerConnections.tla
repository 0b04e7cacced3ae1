-------------------------- MODULE MCServerConnections --------------------------
(* A small instance of ServerConnections for TLC: one client pipelines two *)
(* requests, another connects and goes away.                               *)
EXTENDS ServerConnections, TLC

CONSTANTS c1, c2
Requests == (c1 :> 2) @@ (c2 :> 0)
=============================================================================
