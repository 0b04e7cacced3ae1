------------------------------- MODULE Invocation -------------------------------
(***************************************************************************)
(* A call from end to end: RpcClient::InvokeAsync (src/rpc_client.cc), the *)
(* transport as RpcCall specifies it, and the server's dispatcher.  Every  *)
(* call is made by a thread of its own; the server also gets frames from   *)
(* clients that are not modelled.  ClientTransport shows that the TCP      *)
(* transport implements RpcCall, MessagePool that the pooled response of   *)
(* InvokeAsync belongs to one thread.                                      *)
(***************************************************************************)
EXTENDS Dispatcher

CONSTANT Calls    \* the frames that come from RpcClient::Invoke

ASSUME CallsAssumption == Calls \subseteq Frames

VARIABLES
    call, executions, answer, alive,  \* the variables of RpcCall
    wanted,           \* call -> the request it sends
    outcome,          \* call -> the code Invoke returned, or None
    caller_response   \* call -> what the caller's response object holds

callVars == <<call, executions, answer, alive>>
invokeVars == <<wanted, outcome, caller_response>>
systemVars == <<poolVars, dispatchVars, callVars, invokeVars>>

Transport == INSTANCE RpcCall WITH Ids <- Calls
Untouched == "untouched"
Results == Codes \cup {"kDiscoveryError", "kNetworkError"}
ASSUME ResultsAssumption == None \notin Results

SystemInit ==
    /\ DispatchInit /\ Transport!Init
    /\ wanted = [f \in Calls |-> None]
    /\ outcome = [f \in Calls |-> None]
    /\ caller_response = [f \in Calls |-> Untouched]

Finish(f, code) == outcome' = [outcome EXCEPT ![f] = code]

-----------------------------------------------------------------------------
\* Resolve finds no instance, or the request cannot be serialized or encoded.
InvokeFails(f) ==
    /\ alive /\ call[f] = "none" /\ outcome[f] = None
    /\ \E code \in {"kDiscoveryError", "kSerializeError"} : Finish(f, code)
    /\ UNCHANGED <<poolVars, dispatchVars, callVars, wanted, caller_response>>

\* The request is encoded and RoundTripAsync begins.
InvokeSends(f) ==
    /\ outcome[f] = None
    /\ \E r \in Requests : r.header = "good" /\ wanted' = [wanted EXCEPT ![f] = r]
    /\ Transport!Invoke(f)
    /\ UNCHANGED <<poolVars, dispatchVars, outcome, caller_response>>

\* Mutant: a failed round trip is reported as an instance that is not there.
RoundTripFails_Discovery(f) ==
    /\ Transport!Fail(f)
    /\ \E code \in {"kNetworkError", "kDiscoveryError"} : Finish(f, code)
    /\ UNCHANGED <<poolVars, dispatchVars, wanted, caller_response>>

RoundTripFails(f) ==
    /\ Transport!Fail(f)
    /\ \E code \in {"kNetworkError", "kInvalidPacket"} : Finish(f, code)
    /\ UNCHANGED <<poolVars, dispatchVars, wanted, caller_response>>

\* Mutant: the payload is parsed into the caller's object.
RoundTripReturns_InPlace(f) ==
    /\ Transport!Succeed(f) /\ reply[f] # None
    /\ \/ reply[f].code # "kOk" /\ Finish(f, reply[f].code) /\ UNCHANGED caller_response
       \/ /\ reply[f].code = "kOk"
          /\ Finish(f, "kOk") \/ Finish(f, "kDeserializeError")
          /\ caller_response' = [caller_response EXCEPT ![f] = reply[f].content]
    /\ UNCHANGED <<poolVars, dispatchVars, wanted>>

\* The response frame arrives: its status is looked at, its payload parsed into
\* a pooled message, and that copied into the caller's response.
RoundTripReturns(f) ==
    /\ Transport!Succeed(f) /\ reply[f] # None
    /\ \/ reply[f].code # "kOk" /\ Finish(f, reply[f].code) /\ UNCHANGED caller_response
       \/ reply[f].code = "kOk" /\ Finish(f, "kDeserializeError") /\ UNCHANGED caller_response
       \/ /\ reply[f].code = "kOk" /\ Finish(f, "kOk")
          /\ caller_response' = [caller_response EXCEPT ![f] = reply[f].content]
    /\ UNCHANGED <<poolVars, dispatchVars, wanted>>

\* The server gets the request of a call, which may have failed meanwhile, or
\* any frame of another client.
Receive(f) ==
    /\ \/ f \in Calls /\ Transport!Execute(f) /\ Decode(f, wanted[f])
       \/ f \in Frames \ Calls /\ (\E r \in Requests : Decode(f, r)) /\ UNCHANGED callVars
    /\ UNCHANGED invokeVars

\* The client process ends in the middle of its calls.
ClientDies ==
    /\ alive /\ Transport!Die
    /\ UNCHANGED <<poolVars, dispatchVars, invokeVars>>

ClientStep(f) == InvokeFails(f) \/ InvokeSends(f) \/ RoundTripFails(f) \/ RoundTripReturns(f)
ServerStep ==
    /\ RegisterService \/ Run \/ HandleFrame \/ ServiceThread
    /\ UNCHANGED <<callVars, invokeVars>>

\* Every frame has been handled and every call has returned.
Over ==
    /\ serving /\ stage = "idle" /\ kept = {}
    /\ \A f \in Calls : outcome[f] # None \/ ~alive
    /\ \A f \in Frames \ Calls : request[f] # None
    /\ UNCHANGED systemVars

SystemNext ==
    \/ ServerStep \/ (\E f \in Calls : ClientStep(f)) \/ ClientDies
    \/ (\E f \in Frames : Receive(f)) \/ Over

SystemSpec == SystemInit /\ [][SystemNext]_systemVars

-----------------------------------------------------------------------------
(* Properties *)

\* Every variable of the server's and the client's side stays in its type.
SystemTypeOK ==
    /\ DispatchTypeOK
    /\ call \in [Calls -> {"none", "pending", "ok", "error"}]
    /\ executions \in [Calls -> 0..1] /\ answer \in [Calls -> Calls \cup {0}]
    /\ alive \in BOOLEAN
    /\ wanted \in [Calls -> Requests \cup {None}]
    /\ outcome \in [Calls -> Results \cup {None}]
    /\ caller_response \in [Calls -> Data \cup {"clean", Untouched}]

\* Invoke succeeds only when a service has run the closure of this very call,
\* and then the caller's response holds what that service wrote and nothing of
\* another call, unless a service wrote through a kept pointer while the server
\* held this call's response; in every other case the caller's response is as it
\* was.
CallerSees ==
    \A f \in Calls :
        IF outcome[f] = "kOk"
        THEN called[f] /\ (f \notin disturbed => caller_response[f] \in OwnContent(f))
        ELSE caller_response[f] = Untouched

\* After these errors no service has executed the call, and none will: the
\* caller can try elsewhere.
SafeToRetry ==
    \A f \in Calls :
        outcome[f] \in {"kDiscoveryError", "kUnknownService", "kUnknownMethod"} =>
            service[f] = "none"
=============================================================================
