----------------------------- MODULE MCAsyncRuntime -----------------------------
(* A small instance of AsyncRuntime for TLC. *)
EXTENDS AsyncRuntime
=============================================================================
