----------------------------- MODULE MCTaskPromise -----------------------------
(* A small instance of TaskPromise for TLC. *)
EXTENDS TaskPromise
=============================================================================
