------------------------------- MODULE Dispatcher -------------------------------
(***************************************************************************)
(* RpcDispatcher::HandleFrame and RpcServer::OnFrame on the server's loop  *)
(* thread, with the ServiceRegistry they look methods up in and the        *)
(* MessagePool they take request and response messages from.               *)
(*                                                                         *)
(* A service runs its done closure before CallMethod returns, or keeps the *)
(* closure and the response pointer and uses them later from a thread of   *)
(* its own, which the framework rejects but cannot prevent.                *)
(***************************************************************************)
EXTENDS MessagePool

CONSTANTS
    Frames,          \* the frames the server receives in one behaviour
    Services,        \* the Service objects in the order they are registered, each
                     \* with its descriptor's name and the names of its methods
    Names,           \* the pairs <<service, method>> a request can carry
    RequestHandle, ResponseHandle,  \* HandleFrame's two PooledMessage locals
    RequestType, ResponseType       \* the types GetRequest/ResponsePrototype give

ASSUME HandlesAssumption ==
    {RequestHandle, ResponseHandle} \subseteq Handles /\ RequestHandle # ResponseHandle
ASSUME TypesAssumption == {RequestType, ResponseType} \subseteq Types
ASSUME FramesAssumption == Frames \subseteq Data
ASSUME ServicesAssumption == Len(Services) \in Nat /\ \A i \in 1..Len(Services) :
    /\ DOMAIN Services[i] = {"name", "methods"}
    /\ \A m \in Services[i].methods : <<Services[i].name, m>> \in Names

VARIABLES
    methods,      \* methods_: <<service, method>> -> index of its service, 0 if absent
    registered,   \* the number of services registered so far
    serving,      \* Run has been called
    stage,        \* where HandleFrame and OnFrame are
    current,      \* the frame being handled
    request,      \* frame -> the decoded request, or None before it arrives
    done_called,  \* HandleFrame's local variable, a slot on the loop thread's stack
    called,       \* frame -> InlineDoneClosure::called_
    closure,      \* frame -> its closure: none, live or deleted
    service,      \* frame -> what CallMethod did
    kept,         \* frames whose closure a service has kept and not run yet
    response,     \* frame -> the response pointer given to CallMethod
    disturbed,    \* history: frames whose response message was written through a pointer
                  \* kept from another call while HandleFrame held it
    result,       \* what HandleFrame is about to return
    reply         \* frame -> the response frame that was sent, or None

poolVars == <<buckets, message, key, pc, type, content>>
registryVars == <<methods, registered, serving>>
closureVars == <<done_called, called, closure>>
serviceVars == <<service, kept, response, disturbed>>
dispatchVars == <<registryVars, stage, current, request, closureVars, serviceVars, result, reply>>
allVars == <<poolVars, dispatchVars>>

\* header says whether DecodeRequest accepts the frame, payload whether
\* Deserialize accepts its arguments.
Requests == [header : {"good"}, name : Names, payload : {"good", "bad"}]
            \cup [header : {"bad"}]
ASSUME RequestsAssumption == \A r \in Requests : r # None
Codes == {"kOk", "kInvalidPacket", "kUnknownService", "kUnknownMethod", "kDeserializeError",
          "kSerializeError", "kInternalError"}
Behaviours == {"fills", "leaves", "fails", "keeps"}
Replies == [code : Codes, content : Data \cup {"clean"}, request_id : Frames \cup {None}]
Error(code) == [code |-> code, content |-> "clean"]

DispatchInit ==
    /\ Init
    /\ methods = [n \in Names |-> 0] /\ registered = 0 /\ serving = FALSE
    /\ stage = "idle" /\ current = None
    /\ request = [f \in Frames |-> None]
    /\ done_called = FALSE
    /\ called = [f \in Frames |-> FALSE] /\ closure = [f \in Frames |-> "none"]
    /\ service = [f \in Frames |-> "none"] /\ kept = {}
    /\ response = [f \in Frames |-> None] /\ disturbed = {}
    /\ result = Error("kOk")
    /\ reply = [f \in Frames |-> None]

-----------------------------------------------------------------------------
(* ServiceRegistry *)

Has(i, n) == Services[i].name = n[1] /\ n[2] \in Services[i].methods

\* Every method of the service gets an entry of its own; a service of the same
\* name that was registered before loses the methods they share.
RegisterService ==
    /\ registered < Len(Services)
    /\ registered' = registered + 1
    /\ methods' = [n \in Names |-> IF Has(registered + 1, n) THEN registered + 1 ELSE methods[n]]
    /\ UNCHANGED <<poolVars, serving, stage, current, request, closureVars, serviceVars, result,
                   reply>>

Run ==
    /\ ~serving /\ registered = Len(Services) /\ serving' = TRUE
    /\ UNCHANGED <<poolVars, methods, registered, stage, current, request, closureVars,
                   serviceVars, result, reply>>

\* Mutant: any miss is reported as an unknown service.
FindError_OneCode(n) == "kUnknownService"

FindError(n) ==
    IF \E m \in Names : m[1] = n[1] /\ methods[m] # 0
    THEN "kUnknownMethod" ELSE "kUnknownService"

-----------------------------------------------------------------------------
(* HandleFrame *)

Return(r) == stage' = "return" /\ result' = r

\* ConnectionManager hands a frame to OnFrame: DecodeRequest.
Decode(f, r) ==
    /\ serving /\ stage = "idle" /\ request[f] = None
    /\ request' = [request EXCEPT ![f] = r]
    /\ IF r.header = "bad" THEN Return(Error("kInvalidPacket"))
       ELSE stage' = "find" /\ UNCHANGED result
    /\ current' = f
    /\ UNCHANGED <<poolVars, registryVars, closureVars, serviceVars, reply>>

Find ==
    LET n == request[current].name IN
    /\ stage = "find"
    /\ IF methods[n] = 0 THEN Return(Error(FindError(n)))
       ELSE stage' = "request" /\ UNCHANGED result
    /\ UNCHANGED <<poolVars, registryVars, current, request, closureVars, serviceVars, reply>>

\* message_pool_->Acquire, in the steps MessagePool has.
Acquire(h, t) == AcquireReuse(h, t) \/ AcquireMiss(h, t) \/ AcquireClear(h) \/ AcquireNew(h)

AcquireMessage ==
    /\ \/ stage = "request" /\ Acquire(RequestHandle, RequestType)
       \/ stage = "response" /\ Acquire(ResponseHandle, ResponseType)
    /\ UNCHANGED dispatchVars

\* A payload that cannot be parsed may leave a part of itself in the message.
Deserialize ==
    /\ stage = "request" /\ Fill(RequestHandle, current)
    /\ IF request[current].payload = "bad" THEN Return(Error("kDeserializeError"))
       ELSE stage' = "response" /\ UNCHANGED result
    /\ UNCHANGED <<registryVars, current, request, closureVars, serviceVars, reply>>

\* CallMethod, up to its return: the service fills the response or leaves it
\* as it is, may call SetFailed, and runs done; or it keeps done for later.
CallMethod ==
    /\ stage = "response" /\ pc[ResponseHandle] = "held"
    /\ \E b \in Behaviours :
        /\ service' = [service EXCEPT ![current] = b]
        /\ IF b \in {"fills", "fails"} THEN Fill(ResponseHandle, current)
           ELSE UNCHANGED poolVars
        /\ kept' = IF b = "keeps" THEN kept \cup {current} ELSE kept
        /\ done_called' = (b # "keeps")
        /\ called' = [called EXCEPT ![current] = b # "keeps"]
    /\ closure' = [closure EXCEPT ![current] = "live"]
    /\ response' = [response EXCEPT ![current] = message[ResponseHandle]]
    /\ stage' = "check"
    /\ UNCHANGED <<registryVars, current, request, disturbed, result, reply>>

\* Mutant: only the flag on the stack is looked at.
CheckDone_Flag ==
    /\ stage = "check"
    /\ IF done_called
       THEN /\ closure' = [closure EXCEPT ![current] = "deleted"]
            /\ stage' = "serialize" /\ UNCHANGED result
       ELSE Return(Error("kInternalError")) /\ UNCHANGED closure
    /\ UNCHANGED <<poolVars, registryVars, current, request, done_called, called, serviceVars,
                   reply>>

\* A closure that was not run is leaked, because the service may still run it.
CheckDone ==
    /\ stage = "check"
    /\ IF called[current] /\ done_called
       THEN /\ closure' = [closure EXCEPT ![current] = "deleted"]
            /\ stage' = "serialize" /\ UNCHANGED result
       ELSE Return(Error("kInternalError")) /\ UNCHANGED closure
    /\ UNCHANGED <<poolVars, registryVars, current, request, done_called, called, serviceVars,
                   reply>>

\* The controller is not looked at: after SetFailed the response is kOk too.
Serialize ==
    /\ stage = "serialize"
    /\ \/ Return([code |-> "kOk", content |-> content[message[ResponseHandle]]])
       \/ Return(Error("kSerializeError"))
    /\ UNCHANGED <<poolVars, registryVars, current, request, closureVars, serviceVars, reply>>

\* The destructors of the two handles, in reverse order, on every return.
Release(h) == ReleaseClear(h) \/ ReleasePush(h)
ReleaseMessage ==
    /\ stage = "return"
    /\ \/ Release(ResponseHandle)
       \/ pc[ResponseHandle] = "empty" /\ Release(RequestHandle)
    /\ UNCHANGED dispatchVars

\* OnFrame sends the response, or a framework error: for that the frame is
\* decoded once more, to find its request id.
OnFrame ==
    /\ stage = "return"
    /\ pc[ResponseHandle] = "empty" /\ pc[RequestHandle] = "empty"
    /\ reply' = [reply EXCEPT ![current] =
                   [code |-> result.code, content |-> result.content,
                    request_id |-> IF request[current].header = "good" THEN current ELSE None]]
    /\ stage' = "idle" /\ current' = None
    /\ UNCHANGED <<poolVars, registryVars, request, closureVars, serviceVars, result>>

-----------------------------------------------------------------------------
(* Other threads *)

\* HandleFrame has the message m for its response and has not serialized it yet.
HoldsResponse(m) ==
    /\ stage \in {"response", "check", "serialize"}
    /\ pc[ResponseHandle] = "held" /\ message[ResponseHandle] = m

\* A service that kept done writes its result where response points: into a
\* message that has gone back to the pool, or to somebody else, or away.
LateFill(f) ==
    /\ f \in kept
    /\ content' = [content EXCEPT ![response[f]] = f]
    /\ disturbed' = IF HoldsResponse(response[f]) /\ current # f
                    THEN disturbed \cup {current} ELSE disturbed
    /\ UNCHANGED <<buckets, message, key, pc, type, registryVars, stage, current, request,
                   closureVars, service, kept, response, result, reply>>

\* Then it runs done, which writes called_ and, through its reference, the place
\* where done_called of its HandleFrame was: the done_called of another call,
\* when one is in progress at the same depth of the stack.
LateRun(f) ==
    /\ f \in kept
    /\ kept' = kept \ {f}
    /\ called' = [called EXCEPT ![f] = TRUE]
    /\ done_called' \in {done_called, TRUE}
    /\ UNCHANGED <<poolVars, registryVars, stage, current, request, closure, service, response,
                   disturbed, result, reply>>

-----------------------------------------------------------------------------
HandleFrame ==
    \/ Find \/ AcquireMessage \/ Deserialize \/ CallMethod \/ CheckDone \/ Serialize
    \/ ReleaseMessage \/ OnFrame
ServiceThread == \E f \in Frames : LateFill(f) \/ LateRun(f)

-----------------------------------------------------------------------------
(* Properties *)

\* Every variable stays in its type.
DispatchTypeOK ==
    /\ TypeOK
    /\ registered \in 0..Len(Services) /\ serving \in BOOLEAN
    /\ methods \in [Names -> 0..Len(Services)]
    /\ stage \in {"idle", "find", "request", "response", "check", "serialize", "return"}
    /\ current \in Frames \cup {None}
    /\ request \in [Frames -> Requests \cup {None}]
    /\ done_called \in BOOLEAN /\ called \in [Frames -> BOOLEAN]
    /\ closure \in [Frames -> {"none", "live", "deleted"}]
    /\ service \in [Frames -> Behaviours \cup {"none"}]
    /\ kept \subseteq Frames
    /\ response \in [Frames -> Messages \cup {None}] /\ disturbed \subseteq Frames
    /\ result \in [code : Codes, content : Data \cup {"clean"}]
    /\ reply \in [Frames -> Replies \cup {None}]

\* What the service that got f can have put into the response by the time it is serialized.
OwnContent(f) ==
    CASE service[f] = "leaves" -> {"clean"}
      [] service[f] = "keeps" -> {"clean", f}
      [] OTHER -> {f}

\* The services registered so far that have the method n.
Owners(n) == {i \in 1..registered : Has(i, n)}
Known(name) == \E i \in 1..registered : Services[i].name = name /\ Services[i].methods # {}

\* The answers that OnFrame may send for a frame, from the registrations and the
\* frame alone.
Expected(f) ==
    LET r == request[f] IN
    IF r.header = "bad" THEN {"kInvalidPacket"}
    ELSE IF Owners(r.name) = {}
         THEN {IF Known(r.name[1]) THEN "kUnknownMethod" ELSE "kUnknownService"}
    ELSE IF r.payload = "bad" THEN {"kDeserializeError"}
    ELSE IF service[f] = "keeps" THEN {"kInternalError", "kOk", "kSerializeError"}
    ELSE {"kOk", "kSerializeError"}

\* Every frame is answered with the code of the first stage that fails, in the
\* order in which HandleFrame promises them, and carries its own request id
\* whenever the frame has a readable one.  A method is found in the service
\* registered last that has it, whatever has the same name.
RepliesAsSpecified ==
    /\ \A n \in Names :
        /\ Owners(n) # {} => methods[n] \in Owners(n)
        /\ \A i \in Owners(n) : i <= methods[n]
    /\ \A f \in Frames : reply[f] # None =>
        /\ reply[f].code \in Expected(f)
        /\ reply[f].request_id = IF request[f].header = "good" THEN f ELSE None

\* A kOk response means that the service ran the closure of this very request,
\* also when a closure that was kept from an earlier request is run meanwhile
\* and writes over done_called: that is what called_ is there for.  A closure
\* that a service still holds is never freed.
ClosureSound ==
    /\ \A f \in Frames : reply[f] # None /\ reply[f].code = "kOk" => called[f]
    /\ \A f \in kept : closure[f] = "live"

\* A service that kept the response pointer of an earlier call writes into a
\* message that is in the pool, is held by another call, or is on its way between
\* the two.  Only the calls that hold the message at that moment can send such
\* data: Acquire clears a pooled message after it has taken it, so what was written
\* before that is in no later response.
RepliesUndisturbed ==
    \A f \in Frames \ disturbed :
        reply[f] # None /\ reply[f].code = "kOk" => reply[f].content \in OwnContent(f)
=============================================================================
