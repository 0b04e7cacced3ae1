----------------------------- MODULE MCZkDiscovery -----------------------------
(* Small instances of ZkDiscovery for TLC: one server that restarts, and one *)
(* that may join it.                                                        *)
EXTENDS ZkDiscovery, TLC

CONSTANTS s1, s2
Restarts == (s1 :> 2) @@ (s2 :> 1)
Alone == s1 :> 2
=============================================================================
