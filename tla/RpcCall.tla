-------------------------------- MODULE RpcCall --------------------------------
(***************************************************************************)
(* What the ClientTransport interface promises its callers, with neither   *)
(* sockets nor threads nor a pool: a round trip ends once, with the frame  *)
(* that answers it or with an error; the server executes a request at most *)
(* once, and has executed it when the round trip succeeds.  A request      *)
(* whose round trip has failed may still be executed later.                *)
(***************************************************************************)
EXTENDS Naturals

CONSTANT Ids      \* the round trips of a behaviour

VARIABLES
    call,         \* none, pending, ok or error
    executions,   \* how often the server has executed each request
    answer,       \* the request a successful round trip got the answer to, or 0
    alive         \* the calling process exists

vars == <<call, executions, answer, alive>>

Init ==
    /\ call = [i \in Ids |-> "none"]
    /\ executions = [i \in Ids |-> 0]
    /\ answer = [i \in Ids |-> 0]
    /\ alive = TRUE

Invoke(i) ==
    /\ alive /\ call[i] = "none"
    /\ call' = [call EXCEPT ![i] = "pending"]
    /\ UNCHANGED <<executions, answer, alive>>

Execute(i) ==
    /\ call[i] \in {"pending", "error"} /\ executions[i] = 0
    /\ executions' = [executions EXCEPT ![i] = 1]
    /\ UNCHANGED <<call, answer, alive>>

Succeed(i) ==
    /\ alive /\ call[i] = "pending" /\ executions[i] = 1
    /\ call' = [call EXCEPT ![i] = "ok"]
    /\ answer' = [answer EXCEPT ![i] = i]
    /\ UNCHANGED <<executions, alive>>

Fail(i) ==
    /\ alive /\ call[i] = "pending"
    /\ call' = [call EXCEPT ![i] = "error"]
    /\ UNCHANGED <<executions, answer, alive>>

\* The calling process ends: no round trip returns any more.
Die ==
    /\ alive' = FALSE
    /\ UNCHANGED <<call, executions, answer>>

Next == (\E i \in Ids : Invoke(i) \/ Execute(i) \/ Succeed(i) \/ Fail(i)) \/ Die

Spec == Init /\ [][Next]_vars

\* A round trip ends while the process lives.
FairSpec == Spec /\ \A i \in Ids : WF_vars(Succeed(i) \/ Fail(i))
=============================================================================
