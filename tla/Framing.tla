-------------------------------- MODULE Framing --------------------------------
(***************************************************************************)
(* The wire format: RpcCodec's four functions, the cutting of the server's *)
(* input into frames (ConnectionManager::ProcessInput) and the client's    *)
(* ReceiveFrame, on one connection whose bytes arrive in pieces.           *)
(*                                                                         *)
(* A stream is a sequence of cells.  A 32-bit length field is one cell, a  *)
(* number below Word that stands for 2^32; sizes held in a size_t are not  *)
(* reduced, values stored in a uint32_t are.  The peer is the framework's  *)
(* own encoder, or a stranger that writes any cells at all.                *)
(***************************************************************************)
EXTENDS Naturals, Sequences

CONSTANTS
    Word,       \* 2^32: one more than the largest length field
    MaxFrame,   \* kMaxFrameBodySize, and ReceiveFrame's kMaxFrameSize
    Requests,   \* requests a client encodes: request_id, metadata and payload
    Payloads,   \* payloads a service answers with
    Strange,    \* what a stranger may write, to either side
    MaxSent,    \* bound: requests sent on the connection
    Arrivals    \* how many cells may arrive at once

Cells == 0 .. Word - 1
Prefix == 1       \* kLengthPrefixSize
HeaderSize == 3   \* a serialized header: the request id and two numbers

ASSUME WordAssumption == Word \in Nat /\ MaxFrame \in Nat /\ HeaderSize < MaxFrame /\ MaxFrame < Word
ASSUME RequestsAssumption ==
    \A r \in Requests : r.request_id \in Cells /\ r.metadata \in Seq(Cells) /\ r.payload \in Seq(Cells)
ASSUME CellsAssumption == Arrivals \subseteq Nat \ {0} /\ \A s \in Payloads \cup Strange : s \in Seq(Cells)

VARIABLES
    wire,      \* cells on their way to the server
    input,     \* the connection's input_buffer
    server,    \* the server is in recv, in ProcessInput's loop, or has closed
    back,      \* cells on their way to the client
    client,    \* the client's end: open or closed
    sent,      \* requests the client has encoded
    handled,   \* what DecodeRequest made of each frame handed to the frame handler
    replied,   \* responses the server has encoded
    results,   \* what ReceiveFrame and DecodeResponse made of each response
    stranger   \* history: a stranger has written

vars == <<wire, input, server, back, client, sent, handled, replied, results, stranger>>

Invalid == [kind |-> "kInvalidPacket"]
OutOfRange == [kind |-> "std::out_of_range"]   \* substr beyond the end of the view

-----------------------------------------------------------------------------
(* RpcCodec *)

\* protobuf leaves a message of zeros empty, and reads an empty one as zeros.
SerializeToString(h) == IF h = <<0, 0, 0>> THEN <<>> ELSE h
ParseFromArray(view) == CASE Len(view) = HeaderSize -> view
                          [] Len(view) = 0 -> <<0, 0, 0>>
                          [] OTHER -> Invalid

\* frame_size and header_size are cut to 32 bits, what they count is not.
EncodeFrame(header, payload) ==
    <<(Prefix + Len(header) + Len(payload)) % Word, Len(header) % Word>> \o header \o payload

EncodeRequest(r) ==
    EncodeFrame(SerializeToString(<<r.request_id, Len(r.metadata) % Word, Len(r.payload) % Word>>),
                r.metadata \o r.payload)

EncodeResponse(r) ==
    EncodeFrame(SerializeToString(<<r.request_id, r.status, Len(r.payload) % Word>>), r.payload)

\* frame.substr(pos): throws when pos is past the end.
Substr(s, pos) == SubSeq(s, pos + 1, Len(s))

\* The parts of a frame, from header size h on.
Slices(frame, h) ==
    IF 2 * Prefix + h > Len(frame)
    THEN OutOfRange
    ELSE [kind |-> "parts", header |-> SubSeq(frame, 2 * Prefix + 1, 2 * Prefix + h),
          payload |-> Substr(frame, 2 * Prefix + h)]

SplitFrame(frame) ==
    IF \/ Len(frame) < 2 * Prefix
       \/ Len(frame) # Prefix + frame[1]
       \/ Len(frame) < 2 * Prefix + frame[2]
    THEN Invalid
    ELSE Slices(frame, frame[2])

\* The request whose metadata is the first m cells of the payload view.
RequestOf(h, view, m) ==
    IF m > Len(view)
    THEN OutOfRange
    ELSE [kind |-> "kOk", request_id |-> h[1], metadata |-> SubSeq(view, 1, m),
          payload |-> Substr(view, m)]

\* Mutant: expected_size without the cast to size_t.
DecodeRequest_32Bit(frame) ==
    LET split == SplitFrame(frame)
        header == ParseFromArray(split.header)
    IN  IF split.kind # "parts" THEN split
        ELSE IF header = Invalid \/ Len(split.payload) # (header[2] + header[3]) % Word THEN Invalid
        ELSE RequestOf(header, split.payload, header[2])

DecodeRequest(frame) ==
    LET split == SplitFrame(frame)
        header == ParseFromArray(split.header)
    IN  IF split.kind # "parts" THEN split
        ELSE IF header = Invalid \/ Len(split.payload) # header[2] + header[3] THEN Invalid
        ELSE RequestOf(header, split.payload, header[2])

DecodeResponse(frame) ==
    LET split == SplitFrame(frame)
        header == ParseFromArray(split.header)
    IN  IF split.kind # "parts" THEN split
        ELSE IF header = Invalid \/ Len(split.payload) # header[3] THEN Invalid
        ELSE [kind |-> "kOk", request_id |-> header[1], status |-> header[2], payload |-> split.payload]

-----------------------------------------------------------------------------
Init ==
    /\ wire = <<>> /\ input = <<>> /\ back = <<>>
    /\ server = "recv" /\ client = "open"
    /\ sent = <<>> /\ handled = <<>> /\ replied = <<>> /\ results = <<>>
    /\ stranger = FALSE

\* The client encodes a request and sends the frame.
Send(r) ==
    /\ client = "open" /\ ~stranger
    /\ Len(sent) < MaxSent
    /\ wire' = wire \o EncodeRequest(r)
    /\ sent' = Append(sent, r)
    /\ UNCHANGED <<input, server, back, client, handled, replied, results, stranger>>

\* The connection is a stranger's, who writes to the server, or who answers the client.
StrangerSends(s) ==
    /\ ~stranger /\ sent = <<>>
    /\ stranger' = TRUE
    /\ \/ wire' = wire \o s /\ UNCHANGED back
       \/ back' = back \o s /\ UNCHANGED wire
    /\ UNCHANGED <<input, server, client, sent, handled, replied, results>>

\* HandleReadable: recv until EAGAIN appends what has arrived to input_buffer.
Recv(n) ==
    /\ server = "recv"
    /\ n <= Len(wire)
    /\ input' = input \o SubSeq(wire, 1, n)
    /\ wire' = SubSeq(wire, n + 1, Len(wire))
    /\ server' = "cut"
    /\ UNCHANGED <<back, client, sent, handled, replied, results, stranger>>

\* The response OnFrame sends for a decoded frame: the service's, or the error
\* with request_id 0 when the frame does not decode.
Answer(decoded, payload) ==
    IF decoded.kind = "kOk"
    THEN [request_id |-> decoded.request_id, status |-> 0, payload |-> payload]
    ELSE [request_id |-> 0, status |-> 1, payload |-> <<>>]

BadLength(n) == n < Prefix \/ n > MaxFrame
\* Mutant: a frame is handled when something follows it.
WholeFrame_OffByOne ==
    Len(input) >= Prefix /\ (BadLength(input[1]) \/ Len(input) > Prefix + input[1])

WholeFrame == Len(input) >= Prefix /\ (BadLength(input[1]) \/ Len(input) >= Prefix + input[1])

\* Mutant: the erase forgets the length prefix.
ProcessFrame_ErasesBody(payload) ==
    /\ server = "cut" /\ WholeFrame /\ ~BadLength(input[1])
    /\ LET total == Prefix + input[1]
           decoded == DecodeRequest(SubSeq(input, 1, total))
           response == Answer(decoded, payload)
       IN  /\ input' = SubSeq(input, input[1] + 1, Len(input))
           /\ handled' = Append(handled, decoded)
           /\ replied' = Append(replied, response)
           /\ back' = back \o EncodeResponse(response)
    /\ UNCHANGED <<wire, server, client, sent, results, stranger>>

\* ProcessInput's loop: the frame at the front is cut and handed to OnFrame.
ProcessFrame(payload) ==
    /\ server = "cut" /\ WholeFrame /\ ~BadLength(input[1])
    /\ LET total == Prefix + input[1]
           decoded == DecodeRequest(SubSeq(input, 1, total))
           response == Answer(decoded, payload)
       IN  /\ input' = SubSeq(input, total + 1, Len(input))
           /\ handled' = Append(handled, decoded)
           /\ replied' = Append(replied, response)
           /\ back' = back \o EncodeResponse(response)
    /\ UNCHANGED <<wire, server, client, sent, results, stranger>>

\* A length that no frame has: the connection is closed.
ProcessBadLength ==
    /\ server = "cut" /\ WholeFrame /\ BadLength(input[1])
    /\ server' = "closed"
    /\ input' = <<>>
    /\ UNCHANGED <<wire, back, client, sent, handled, replied, results, stranger>>

\* The rest of the frame has not arrived.
ProcessWaits ==
    /\ server = "cut" /\ ~WholeFrame
    /\ server' = "recv"
    /\ UNCHANGED <<wire, input, back, client, sent, handled, replied, results, stranger>>

\* ReceiveFrame and DecodeResponse.  After a bad length RoundTrip closes the socket.
ReceiveFrame ==
    /\ client = "open" /\ Len(back) >= Prefix
    /\ IF BadLength(back[1])
       THEN /\ results' = Append(results, Invalid)
            /\ client' = "closed"
            /\ UNCHANGED back
       ELSE /\ Len(back) >= Prefix + back[1]
            /\ results' = Append(results, DecodeResponse(SubSeq(back, 1, Prefix + back[1])))
            /\ back' = SubSeq(back, Prefix + back[1] + 1, Len(back))
            /\ UNCHANGED client
    /\ UNCHANGED <<wire, input, server, sent, handled, replied, stranger>>

\* The client gives up (a timeout): the socket is closed with what is in flight.
ClientCloses ==
    /\ client = "open"
    /\ client' = "closed"
    /\ UNCHANGED <<wire, input, server, back, sent, handled, replied, results, stranger>>

\* HandleReadable reads to the end of the stream and closes; what it read just before
\* the end is not processed.
RecvEof ==
    /\ server = "recv" /\ client = "closed"
    /\ server' = "closed"
    /\ wire' = <<>> /\ input' = <<>>
    /\ UNCHANGED <<back, client, sent, handled, replied, results, stranger>>

\* The connection is gone.
Over == server = "closed" /\ UNCHANGED vars

Next ==
    \/ \E r \in Requests : Send(r)
    \/ \E s \in Strange : StrangerSends(s)
    \/ \E n \in Arrivals : Recv(n)
    \/ \E p \in Payloads : ProcessFrame(p)
    \/ ProcessBadLength \/ ProcessWaits
    \/ ReceiveFrame \/ ClientCloses \/ RecvEof \/ Over

Spec == Init /\ [][Next]_vars

\* The loop thread reads what arrives and finishes ProcessInput.
FairSpec ==
    /\ Spec
    /\ WF_vars(\E n \in Arrivals : Recv(n))
    /\ WF_vars(ProcessBadLength \/ ProcessWaits \/ \E p \in Payloads : ProcessFrame(p))

-----------------------------------------------------------------------------
(* Properties *)

\* No length counted in a frame of this request is cut by the cast to 32 bits.
Fits(r) == Prefix + HeaderSize + Len(r.metadata) + Len(r.payload) < Word
Own == ~stranger /\ \A i \in DOMAIN sent : Fits(sent[i])
OwnReplies == ~stranger /\ \A i \in DOMAIN replied : Prefix + HeaderSize + Len(replied[i].payload) < Word

\* Every variable stays in its type.
TypeOK ==
    /\ wire \in Seq(Cells) /\ input \in Seq(Cells) /\ back \in Seq(Cells)
    /\ server \in {"recv", "cut", "closed"} /\ client \in {"open", "closed"}
    /\ \A i \in DOMAIN sent : sent[i] \in Requests
    /\ \A i \in DOMAIN replied :
           /\ replied[i].request_id \in Cells
           /\ replied[i].payload \in Payloads \cup {<<>>}
    /\ Len(replied) = Len(handled)
    /\ stranger \in BOOLEAN

\* Whatever cells arrive on either side, a stranger's included, the length checks of
\* SplitFrame and DecodeRequest leave no slice outside the frame: substr never throws,
\* an exception that neither the loop thread nor the caller catches.
NoSliceOutside ==
    /\ \A i \in DOMAIN handled : handled[i] # OutOfRange
    /\ \A i \in DOMAIN results : results[i] # OutOfRange

\* However the bytes are cut into reads, the server decodes the requests that were
\* sent, whole, in order and each once, and the client the responses, or sees
\* kInvalidPacket for one larger than a frame may be; as long as no length overflows
\* 32 bits and nobody else writes on the connection (codec.cc, ProcessInput).
Decoded(request) == [kind |-> "kOk", request_id |-> request.request_id,
                     metadata |-> request.metadata, payload |-> request.payload]
DecodedResponse(response) == [kind |-> "kOk", request_id |-> response.request_id,
                              status |-> response.status, payload |-> response.payload]
MessagesIntact ==
    /\ Own => /\ Len(handled) <= Len(sent)
              /\ \A i \in DOMAIN handled : handled[i] = Decoded(sent[i])
    /\ OwnReplies => /\ Len(results) <= Len(replied)
                     /\ \A i \in DOMAIN results :
                            IF Len(EncodeResponse(replied[i])) - Prefix > MaxFrame
                            THEN results[i] = Invalid
                            ELSE results[i] = DecodedResponse(replied[i])

\* A frame that has been sent completely does not stay in the buffer: it is handled
\* without waiting for more input, or the connection is closed.
FramesHandled ==
    \A k \in 1 .. MaxSent :
        (Own /\ Len(sent) = k) ~> (~Own \/ Len(handled) >= k \/ server = "closed")

=============================================================================
