----------------------------- MODULE MCMessagePool -----------------------------
(* A small instance of MessagePool for TLC. *)
EXTENDS MessagePool, TLC

Symmetry == Permutations(Handles) \cup Permutations(Types) \cup Permutations(Messages)
=============================================================================
