-------------------------------- MODULE MCLogger --------------------------------
(* A small instance of Logger for TLC. *)
EXTENDS Logger
=============================================================================
