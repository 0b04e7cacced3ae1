--------------------------- MODULE MCClientTransport ---------------------------
(* A small instance of ClientTransport for TLC. *)
EXTENDS ClientTransport
=============================================================================
