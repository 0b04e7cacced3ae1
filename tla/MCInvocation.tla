------------------------------ MODULE MCInvocation ------------------------------
(* A small instance of Invocation for TLC: two services of one name that   *)
(* share a method, a method neither has, and a service nobody has.         *)
EXTENDS Invocation, TLC

MCServices == <<[name |-> "S", methods |-> {"a", "b"}], [name |-> "S", methods |-> {"a"}]>>
MCNames == {<<"S", "a">>, <<"S", "b">>, <<"S", "c">>, <<"T", "a">>}
Symmetry == Permutations(Messages)
=============================================================================
