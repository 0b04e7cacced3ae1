------------------------------- MODULE Framing_proof -------------------------------
(***************************************************************************)
(* Proofs about the wire format: whatever arrives on either side, no slice *)
(* that the codec takes lies outside the frame, for any length of the      *)
(* length field, any limit on a frame and any contents.                    *)
(***************************************************************************)
EXTENDS Framing, SequenceTheorems, TLAPS

\* What DecodeRequest and DecodeResponse may make of a frame.
RequestResults ==
    {Invalid} \cup [kind : {"kOk"}, request_id : Cells, metadata : Seq(Cells), payload : Seq(Cells)]
ResponseResults ==
    {Invalid} \cup [kind : {"kOk"}, request_id : Cells, status : Cells, payload : Seq(Cells)]
Responses == [request_id : Cells, status : {0, 1}, payload : Payloads \cup {<<>>}]

FramingInv ==
    /\ wire \in Seq(Cells) /\ input \in Seq(Cells) /\ back \in Seq(Cells)
    /\ server \in {"recv", "cut", "closed"} /\ client \in {"open", "closed"}
    /\ sent \in Seq(Requests) /\ stranger \in BOOLEAN
    /\ handled \in Seq(RequestResults) /\ results \in Seq(ResponseResults)
    /\ replied \in Seq(Responses) /\ Len(replied) = Len(handled)

-----------------------------------------------------------------------------
(* RpcCodec *)

\* A length cut to 32 bits fits in a length field.
LEMMA CellsFacts ==
    /\ 0 \in Cells /\ 1 \in Cells /\ Cells \subseteq Nat
    /\ \A n \in Nat : n % Word \in Cells
<1>1. Word \in Nat /\ Word > 3
  BY WordAssumption DEF HeaderSize
<1>2. 0 \in Cells /\ 1 \in Cells /\ Cells \subseteq Nat
  BY <1>1 DEF Cells
<1>3. ASSUME NEW n \in Nat PROVE n % Word \in Cells
  <2>1. n % Word \in 0 .. (Word - 1)
    BY <1>1
  <2> QED BY <2>1 DEF Cells
<1> QED BY <1>2, <1>3

\* Frames are sequences of cells.
LEMMA EncodeFrameType ==
    ASSUME NEW header \in Seq(Cells), NEW payload \in Seq(Cells)
    PROVE  EncodeFrame(header, payload) \in Seq(Cells)
<1>1. Prefix + Len(header) + Len(payload) \in Nat /\ Len(header) \in Nat
  BY DEF Prefix
<1>2. PICK a \in Cells, b \in Cells :
        a = (Prefix + Len(header) + Len(payload)) % Word /\ b = Len(header) % Word
  BY <1>1, CellsFacts
<1>3. <<a, b>> \in Seq(Cells)
  OBVIOUS
<1>4. <<a, b>> \o header \in Seq(Cells)
  BY <1>3
<1>5. <<a, b>> \o header \o payload \in Seq(Cells)
  BY <1>4
<1> QED BY <1>2, <1>5 DEF EncodeFrame

\* A serialized header is a sequence of cells.
LEMMA SerializeType ==
    ASSUME NEW a \in Cells, NEW b \in Cells, NEW c \in Cells
    PROVE  SerializeToString(<<a, b, c>>) \in Seq(Cells)
BY DEF SerializeToString

\* The slices of a subsequence stay inside it.
LEMMA Slice ==
    ASSUME NEW S, NEW s \in Seq(S), NEW a \in Nat, NEW b \in Nat, a <= b, b <= Len(s)
    PROVE  SubSeq(s, a + 1, b) \in Seq(S) /\ Len(SubSeq(s, a + 1, b)) = b - a
           /\ \A i \in 1..(b - a) : SubSeq(s, a + 1, b)[i] = s[a + i]
<1>1. Len(s) \in Nat /\ \A i \in (a + 1)..b : s[i] \in S
  OBVIOUS
<1>2. SubSeq(s, a + 1, b) = [i \in 1..(b - a) |-> s[a + i]]
  <2>1. SubSeq(s, a + 1, b) = [i \in 1..(1 + b - (a + 1)) |-> s[i + (a + 1) - 1]]
    OBVIOUS
  <2>2. 1 + b - (a + 1) = b - a /\ \A i \in 1..(b - a) : i + (a + 1) - 1 = a + i
    OBVIOUS
  <2> QED BY <2>1, <2>2
<1>3. \A i \in 1..(b - a) : a + i \in (a + 1)..b
  OBVIOUS
<1>4. b - a \in Nat
  OBVIOUS
<1> QED BY <1>1, <1>2, <1>3, <1>4

\* SplitFrame's checks keep both slices inside the frame.
LEMMA SplitFrameSafe ==
    ASSUME NEW frame \in Seq(Cells)
    PROVE  \/ SplitFrame(frame) = Invalid
           \/ \E h, p \in Seq(Cells) : SplitFrame(frame) = [kind |-> "parts", header |-> h, payload |-> p]
<1> SUFFICES ASSUME SplitFrame(frame) # Invalid
             PROVE  \E h, p \in Seq(Cells) :
                      SplitFrame(frame) = [kind |-> "parts", header |-> h, payload |-> p]
  OBVIOUS
<1>1. Len(frame) \in Nat /\ Len(frame) >= 2
  BY DEF SplitFrame, Prefix
<1>2. frame[2] \in Cells
  BY <1>1
<1>3. PICK l \in Nat, z \in Nat : l = Len(frame) /\ z = frame[2]
  BY <1>1, <1>2, CellsFacts
<1>4. 2 + z <= l
  BY <1>1, <1>3 DEF SplitFrame, Prefix
<1>5. SplitFrame(frame) = [kind |-> "parts", header |-> SubSeq(frame, 2 + 1, 2 + z),
                           payload |-> SubSeq(frame, 2 + z + 1, Len(frame))]
  BY <1>1, <1>3, <1>4 DEF SplitFrame, Slices, Substr, Prefix
<1>6. SubSeq(frame, 2 + 1, 2 + z) \in Seq(Cells)
  <2>1. PICK a \in Nat, b \in Nat : a = 2 /\ b = 2 + z
    OBVIOUS
  <2>2. a <= b /\ b <= Len(frame)
    BY <1>3, <1>4, <2>1
  <2>3. SubSeq(frame, a + 1, b) \in Seq(Cells)
    BY <2>2, Slice
  <2> QED BY <2>1, <2>3
<1>7. SubSeq(frame, 2 + z + 1, Len(frame)) \in Seq(Cells)
  <2>1. PICK a \in Nat : a = 2 + z
    OBVIOUS
  <2>2. a <= Len(frame) /\ Len(frame) <= Len(frame) /\ Len(frame) \in Nat
    BY <1>1, <1>3, <1>4, <2>1
  <2>3. SubSeq(frame, a + 1, Len(frame)) \in Seq(Cells)
    BY <2>2, Slice
  <2> QED BY <2>1, <2>3
<1> QED BY <1>5, <1>6, <1>7

\* A header that parses is three numbers.
LEMMA ParseSafe ==
    ASSUME NEW view \in Seq(Cells), ParseFromArray(view) # Invalid
    PROVE  /\ ParseFromArray(view)[1] \in Cells /\ ParseFromArray(view)[2] \in Cells
           /\ ParseFromArray(view)[3] \in Cells
<1>1. CASE Len(view) = HeaderSize
  <2>1. ParseFromArray(view) = view
    BY <1>1 DEF ParseFromArray, HeaderSize
  <2>2. 1 \in 1..Len(view) /\ 2 \in 1..Len(view) /\ 3 \in 1..Len(view)
    BY <1>1 DEF HeaderSize
  <2> QED BY <2>1, <2>2
<1>2. CASE Len(view) = 0
  <2>1. ParseFromArray(view) = <<0, 0, 0>>
    BY <1>2 DEF ParseFromArray, HeaderSize
  <2> QED BY <2>1, CellsFacts
<1> QED BY <1>1, <1>2 DEF ParseFromArray

\* expected_size in 64 bits bounds the metadata size.
LEMMA DecodeRequestSafe ==
    ASSUME NEW frame \in Seq(Cells)
    PROVE  DecodeRequest(frame) \in RequestResults
<1>1. CASE SplitFrame(frame) = Invalid
  BY <1>1 DEF DecodeRequest, RequestResults, Invalid
<1>2. ASSUME NEW h \in Seq(Cells), NEW p \in Seq(Cells),
             SplitFrame(frame) = [kind |-> "parts", header |-> h, payload |-> p]
      PROVE  DecodeRequest(frame) \in RequestResults
  <2>1. DecodeRequest(frame) =
          IF ParseFromArray(h) = Invalid
             \/ Len(p) # ParseFromArray(h)[2] + ParseFromArray(h)[3] THEN Invalid
          ELSE RequestOf(ParseFromArray(h), p, ParseFromArray(h)[2])
    BY <1>2 DEF DecodeRequest
  <2>2. CASE ParseFromArray(h) = Invalid \/ Len(p) # ParseFromArray(h)[2] + ParseFromArray(h)[3]
    BY <2>1, <2>2 DEF RequestResults
  <2>3. CASE ParseFromArray(h) # Invalid /\ Len(p) = ParseFromArray(h)[2] + ParseFromArray(h)[3]
    <3>1. PICK q : q = ParseFromArray(h)
      OBVIOUS
    <3>2. PICK a \in Cells, b \in Nat, c \in Nat : a = q[1] /\ b = q[2] /\ c = q[3]
      BY <2>3, <3>1, ParseSafe, CellsFacts
    <3>3. Len(p) = b + c /\ Len(p) \in Nat /\ b <= Len(p)
      BY <2>3, <3>1, <3>2
    <3>4. DecodeRequest(frame) = RequestOf(q, p, b)
      BY <2>1, <2>3, <3>1, <3>2
    <3>5. RequestOf(q, p, b) = [kind |-> "kOk", request_id |-> a, metadata |-> SubSeq(p, 1, b),
                                payload |-> SubSeq(p, b + 1, Len(p))]
      BY <3>2, <3>3 DEF RequestOf, Substr
    <3>6. SubSeq(p, 1, b) \in Seq(Cells)
      BY <3>3
    <3>7. SubSeq(p, b + 1, Len(p)) \in Seq(Cells)
      <4>1. Len(p) <= Len(p)
        BY <3>3
      <4> QED BY <3>3, <4>1, Slice
    <3> QED BY <3>4, <3>5, <3>6, <3>7 DEF RequestResults
  <2> QED BY <2>2, <2>3
<1> QED BY <1>1, <1>2, SplitFrameSafe

\* DecodeResponse takes no slice besides those of SplitFrame.
LEMMA DecodeResponseSafe ==
    ASSUME NEW frame \in Seq(Cells)
    PROVE  DecodeResponse(frame) \in ResponseResults
<1>1. CASE SplitFrame(frame) = Invalid
  BY <1>1 DEF DecodeResponse, ResponseResults, Invalid
<1>2. ASSUME NEW h \in Seq(Cells), NEW p \in Seq(Cells),
             SplitFrame(frame) = [kind |-> "parts", header |-> h, payload |-> p]
      PROVE  DecodeResponse(frame) \in ResponseResults
  <2>1. DecodeResponse(frame) =
          IF ParseFromArray(h) = Invalid \/ Len(p) # ParseFromArray(h)[3] THEN Invalid
          ELSE [kind |-> "kOk", request_id |-> ParseFromArray(h)[1],
                status |-> ParseFromArray(h)[2], payload |-> p]
    BY <1>2 DEF DecodeResponse
  <2> QED BY <2>1, ParseSafe DEF ResponseResults
<1> QED BY <1>1, <1>2, SplitFrameSafe

-----------------------------------------------------------------------------
(* The steps of FramingInv *)

\* A new connection has nothing on it.
LEMMA FramingInit == Init => FramingInv
<1> SUFFICES ASSUME Init PROVE FramingInv
  OBVIOUS
<1>1. \A S : <<>> \in Seq(S)
  OBVIOUS
<1>2. wire \in Seq(Cells) /\ input \in Seq(Cells) /\ back \in Seq(Cells)
  BY <1>1 DEF Init
<1>3. sent \in Seq(Requests) /\ handled \in Seq(RequestResults)
  BY <1>1 DEF Init
<1>4. replied \in Seq(Responses) /\ results \in Seq(ResponseResults)
  BY <1>1 DEF Init
<1> QED BY <1>2, <1>3, <1>4 DEF Init, FramingInv

\* An encoded request is a sequence of cells.
LEMMA EncodeRequestType ==
    ASSUME NEW r \in Requests
    PROVE  EncodeRequest(r) \in Seq(Cells)
<1>1. r.request_id \in Cells /\ r.metadata \in Seq(Cells) /\ r.payload \in Seq(Cells)
  BY RequestsAssumption
<1>2. Len(r.metadata) % Word \in Cells /\ Len(r.payload) % Word \in Cells
  BY <1>1, CellsFacts
<1>3. SerializeToString(<<r.request_id, Len(r.metadata) % Word, Len(r.payload) % Word>>) \in Seq(Cells)
  BY <1>1, <1>2, SerializeType
<1>4. r.metadata \o r.payload \in Seq(Cells)
  BY <1>1
<1> QED BY <1>3, <1>4, EncodeFrameType DEF EncodeRequest

\* The fields of a response that the server encodes.
LEMMA ResponseParts ==
    ASSUME NEW r \in Responses
    PROVE  r.request_id \in Cells /\ r.status \in Cells /\ r.payload \in Seq(Cells)
<1>1. r.request_id \in Cells /\ r.status \in {0, 1} /\ r.payload \in Payloads \cup {<<>>}
  BY DEF Responses
<1>2. r.payload \in Seq(Cells)
  <2>1. CASE r.payload \in Payloads
    BY <2>1, CellsAssumption
  <2>2. CASE r.payload = <<>>
    BY <2>2
  <2> QED BY <1>1, <2>1, <2>2
<1> QED BY <1>1, <1>2, CellsFacts

\* An encoded response is a sequence of cells.
LEMMA EncodeResponseType ==
    ASSUME NEW r \in Responses
    PROVE  EncodeResponse(r) \in Seq(Cells)
<1>1. r.request_id \in Cells /\ r.status \in Cells /\ r.payload \in Seq(Cells)
  BY ResponseParts
<1>2. Len(r.payload) % Word \in Cells
  BY <1>1, CellsFacts
<1>3. SerializeToString(<<r.request_id, r.status, Len(r.payload) % Word>>) \in Seq(Cells)
  BY <1>1, <1>2, SerializeType
<1> QED BY <1>1, <1>3, EncodeFrameType DEF EncodeResponse

\* OnFrame answers whatever was decoded with a response.
LEMMA AnswerType ==
    ASSUME NEW d \in RequestResults, NEW p \in Payloads
    PROVE  Answer(d, p) \in Responses
BY CellsFacts DEF Answer, RequestResults, Responses, Invalid

\* The client sends a request.
LEMMA SendStep ==
    ASSUME FramingInv, NEW r \in Requests, Send(r)
    PROVE  FramingInv'
<1>1. wire' \in Seq(Cells)
  BY EncodeRequestType DEF Send, FramingInv
<1>2. sent' \in Seq(Requests)
  BY DEF Send, FramingInv
<1> QED BY <1>1, <1>2 DEF Send, FramingInv

\* A stranger writes to one of the two sides.
LEMMA StrangerStep ==
    ASSUME FramingInv, NEW s \in Strange, StrangerSends(s)
    PROVE  FramingInv'
<1>1. s \in Seq(Cells)
  BY CellsAssumption
<1>2. wire' \in Seq(Cells) /\ back' \in Seq(Cells)
  <2>1. wire \in Seq(Cells) /\ back \in Seq(Cells)
    BY DEF FramingInv
  <2>2. wire \o s \in Seq(Cells) /\ back \o s \in Seq(Cells)
    BY <1>1, <2>1
  <2>3. CASE wire' = wire \o s /\ back' = back
    BY <2>1, <2>2, <2>3
  <2>4. CASE back' = back \o s /\ wire' = wire
    BY <2>1, <2>2, <2>4
  <2> QED BY <2>3, <2>4 DEF StrangerSends
<1> QED BY <1>2 DEF StrangerSends, FramingInv

\* Some of what was sent arrives.
LEMMA RecvStep ==
    ASSUME FramingInv, NEW n \in Arrivals, Recv(n)
    PROVE  FramingInv'
<1>1. n \in Nat /\ n <= Len(wire) /\ wire \in Seq(Cells) /\ Len(wire) \in Nat
  BY CellsAssumption DEF Recv, FramingInv
<1>2. SubSeq(wire, 1, n) \in Seq(Cells)
  BY <1>1
<1>3. SubSeq(wire, n + 1, Len(wire)) \in Seq(Cells)
  <2>1. Len(wire) <= Len(wire)
    BY <1>1
  <2> QED BY <1>1, <2>1, Slice
<1>4. input' \in Seq(Cells) /\ wire' \in Seq(Cells)
  BY <1>2, <1>3 DEF Recv, FramingInv
<1> QED BY <1>4 DEF Recv, FramingInv

\* A frame that is cut off the front of a stream.
LEMMA CutType ==
    ASSUME NEW s \in Seq(Cells), Len(s) >= 1, Len(s) >= Prefix + s[1]
    PROVE  /\ SubSeq(s, 1, Prefix + s[1]) \in Seq(Cells)
           /\ SubSeq(s, Prefix + s[1] + 1, Len(s)) \in Seq(Cells)
<1>1. Len(s) \in Nat /\ s[1] \in Cells
  OBVIOUS
<1>2. PICK t \in Nat : t = Prefix + s[1]
  <2>1. s[1] \in Nat
    BY <1>1, CellsFacts
  <2> QED BY <2>1 DEF Prefix
<1>3. t <= Len(s) /\ Len(s) <= Len(s)
  BY <1>1, <1>2
<1>4. SubSeq(s, 1, t) \in Seq(Cells)
  BY <1>1, <1>3
<1>5. SubSeq(s, t + 1, Len(s)) \in Seq(Cells)
  BY <1>1, <1>3, Slice
<1> QED BY <1>2, <1>4, <1>5

\* ProcessInput cuts a frame off and hands it to OnFrame.
LEMMA ProcessFrameStep ==
    ASSUME FramingInv, NEW p \in Payloads, ProcessFrame(p)
    PROVE  FramingInv'
<1>1. input \in Seq(Cells) /\ Len(input) >= 1 /\ Len(input) >= Prefix + input[1]
  BY DEF FramingInv, ProcessFrame, WholeFrame, Prefix
<1>2. PICK d \in RequestResults : d = DecodeRequest(SubSeq(input, 1, Prefix + input[1]))
  BY <1>1, CutType, DecodeRequestSafe
<1>3. PICK r \in Responses : r = Answer(d, p)
  BY AnswerType
<1>4. /\ input' = SubSeq(input, Prefix + input[1] + 1, Len(input))
      /\ handled' = Append(handled, d) /\ replied' = Append(replied, r)
      /\ back' = back \o EncodeResponse(r)
      /\ UNCHANGED <<wire, server, client, sent, results, stranger>>
  BY <1>2, <1>3 DEF ProcessFrame
<1>5. input' \in Seq(Cells)
  BY <1>1, <1>4, CutType
<1>6. back' \in Seq(Cells)
  BY <1>4, EncodeResponseType DEF FramingInv
<1>7. handled' \in Seq(RequestResults) /\ replied' \in Seq(Responses) /\ Len(replied') = Len(handled')
  BY <1>4 DEF FramingInv
<1> QED BY <1>4, <1>5, <1>6, <1>7 DEF FramingInv

\* The client reads a response, or refuses its length.
LEMMA ReceiveFrameStep ==
    ASSUME FramingInv, ReceiveFrame
    PROVE  FramingInv'
<1>1. back \in Seq(Cells) /\ Len(back) >= 1
  BY DEF FramingInv, ReceiveFrame, Prefix
<1>2. CASE BadLength(back[1])
  <2>1. results' \in Seq(ResponseResults)
    <3>1. results' = Append(results, Invalid)
      BY <1>2 DEF ReceiveFrame
    <3>2. Invalid \in ResponseResults /\ results \in Seq(ResponseResults)
      BY DEF FramingInv, ResponseResults
    <3> QED BY <3>1, <3>2
  <2> QED BY <1>2, <2>1 DEF FramingInv, ReceiveFrame
<1>3. CASE ~BadLength(back[1])
  <2>1. Len(back) >= Prefix + back[1]
    BY <1>3 DEF ReceiveFrame
  <2>2. PICK d \in ResponseResults : d = DecodeResponse(SubSeq(back, 1, Prefix + back[1]))
    BY <1>1, <2>1, CutType, DecodeResponseSafe
  <2>3. results' = Append(results, d) /\ back' = SubSeq(back, Prefix + back[1] + 1, Len(back))
        /\ UNCHANGED client
    BY <1>3, <2>2 DEF ReceiveFrame
  <2>4. results' \in Seq(ResponseResults)
    BY <2>3 DEF FramingInv
  <2>5. back' \in Seq(Cells)
    BY <1>1, <2>1, <2>3, CutType
  <2> QED BY <2>3, <2>4, <2>5 DEF FramingInv, ReceiveFrame
<1> QED BY <1>2, <1>3

\* Every step keeps the types.
LEMMA FramingStep == FramingInv /\ [Next]_vars => FramingInv'
<1> SUFFICES ASSUME FramingInv, [Next]_vars PROVE FramingInv'
  OBVIOUS
<1>1. CASE UNCHANGED vars
  BY <1>1 DEF FramingInv, vars
<1>2. CASE ProcessBadLength
  BY <1>2 DEF FramingInv, ProcessBadLength
<1>3. CASE ProcessWaits
  BY <1>3 DEF FramingInv, ProcessWaits
<1>4. CASE ClientCloses
  BY <1>4 DEF FramingInv, ClientCloses
<1>5. CASE RecvEof
  BY <1>5 DEF FramingInv, RecvEof
<1>6. CASE Over
  BY <1>1, <1>6 DEF Over
<1> QED BY <1>1, <1>2, <1>3, <1>4, <1>5, <1>6, SendStep, StrangerStep, RecvStep,
           ProcessFrameStep, ReceiveFrameStep DEF Next

\* FramingInv, the types of all that is on the wire and of all that was decoded, holds
\* in every reachable state.
THEOREM Invariance == Spec => []FramingInv
<1> QED BY FramingInit, FramingStep, PTL DEF Spec

\* Every variable stays in its type (RpcCodec, ProcessInput and ReceiveFrame on one
\* connection).
THEOREM TypeCorrect == Spec => []TypeOK
<1>1. FramingInv => TypeOK
  <2> SUFFICES ASSUME FramingInv PROVE TypeOK
    OBVIOUS
  <2>1. \A i \in DOMAIN sent : sent[i] \in Requests
    BY DEF FramingInv
  <2>2. \A i \in DOMAIN replied : replied[i] \in Responses
    BY DEF FramingInv
  <2> QED BY <2>1, <2>2 DEF FramingInv, TypeOK, Responses
<1> QED BY <1>1, Invariance, PTL

\* Whatever cells a peer writes, no slice taken by SplitFrame, DecodeRequest or
\* DecodeResponse lies outside its frame, so substr throws on neither side.
THEOREM NoSliceLeavesTheFrame == Spec => []NoSliceOutside
<1>1. FramingInv => NoSliceOutside
  <2> SUFFICES ASSUME FramingInv PROVE NoSliceOutside
    OBVIOUS
  <2>1. OutOfRange \notin RequestResults /\ OutOfRange \notin ResponseResults
    BY DEF RequestResults, ResponseResults, OutOfRange, Invalid
  <2>2. \A i \in DOMAIN handled : handled[i] \in RequestResults
    BY DEF FramingInv
  <2>3. \A i \in DOMAIN results : results[i] \in ResponseResults
    BY DEF FramingInv
  <2> QED BY <2>1, <2>2, <2>3 DEF NoSliceOutside
<1> QED BY <1>1, Invariance, PTL

-----------------------------------------------------------------------------
(* Encoding and decoding are inverse while no length is cut to 32 bits *)

\* Of two sequences joined, the first can be cut off the front and the second off the end.
LEMMA Joined ==
    ASSUME NEW S, NEW a \in Seq(S), NEW b \in Seq(S)
    PROVE  /\ a \o b \in Seq(S) /\ Len(a \o b) = Len(a) + Len(b)
           /\ \A i \in 1..Len(a) : (a \o b)[i] = a[i]
           /\ \A i \in 1..Len(b) : (a \o b)[Len(a) + i] = b[i]
           /\ SubSeq(a \o b, 1, Len(a)) = a
           /\ SubSeq(a \o b, Len(a) + 1, Len(a) + Len(b)) = b
<1>1. Len(a) \in Nat /\ Len(b) \in Nat
  OBVIOUS
<1>2. a \o b \in Seq(S) /\ Len(a \o b) = Len(a) + Len(b)
  OBVIOUS
<1>3. \A i \in 1..Len(a) : (a \o b)[i] = a[i]
  OBVIOUS
<1>4. \A i \in 1..Len(b) : (a \o b)[Len(a) + i] = b[i]
  OBVIOUS
<1>5. SubSeq(a \o b, 1, Len(a)) = a
  <2>1. PICK z \in Nat : z = 0
    OBVIOUS
  <2>2. z <= Len(a) /\ Len(a) <= Len(a \o b)
    BY <1>1, <1>2, <2>1
  <2>3. PICK c : c = SubSeq(a \o b, z + 1, Len(a))
    OBVIOUS
  <2>4. c \in Seq(S) /\ Len(c) = Len(a) - z /\ \A i \in 1..(Len(a) - z) : c[i] = (a \o b)[z + i]
    BY <1>1, <1>2, <2>2, <2>3, Slice
  <2>5. Len(c) = Len(a) /\ \A i \in 1..Len(a) : c[i] = a[i]
    BY <1>1, <1>3, <2>1, <2>4
  <2>6. c = a
    BY <2>4, <2>5, SeqEqual
  <2> QED BY <2>1, <2>3, <2>6
<1>6. SubSeq(a \o b, Len(a) + 1, Len(a) + Len(b)) = b
  <2>1. PICK n \in Nat : n = Len(a) + Len(b)
    BY <1>1
  <2>2. Len(a) <= n /\ n <= Len(a \o b) /\ n - Len(a) = Len(b)
    BY <1>1, <1>2, <2>1
  <2>3. PICK c : c = SubSeq(a \o b, Len(a) + 1, n)
    OBVIOUS
  <2>4. c \in Seq(S) /\ Len(c) = Len(b) /\ \A i \in 1..Len(b) : c[i] = (a \o b)[Len(a) + i]
    BY <1>1, <1>2, <2>2, <2>3, Slice
  <2>5. c = b
    BY <1>4, <2>4, SeqEqual
  <2> QED BY <2>1, <2>3, <2>5
<1> QED BY <1>2, <1>3, <1>4, <1>5, <1>6

\* The frame of a header and a payload, as SplitFrame sees it.
LEMMA SplitOfEncode ==
    ASSUME NEW header \in Seq(Cells), NEW payload \in Seq(Cells),
           Prefix + Len(header) + Len(payload) < Word
    PROVE  /\ Len(EncodeFrame(header, payload)) = 2 + Len(header) + Len(payload)
           /\ EncodeFrame(header, payload)[1] = Prefix + Len(header) + Len(payload)
           /\ SplitFrame(EncodeFrame(header, payload)) =
                  [kind |-> "parts", header |-> header, payload |-> payload]
<1>1. PICK m \in Nat, n \in Nat : m = Len(header) /\ n = Len(payload)
  OBVIOUS
<1>2. Prefix + m + n = 1 + m + n /\ 1 + m + n < Word /\ Word \in Nat
  BY <1>1, WordAssumption DEF Prefix
<1>3. (1 + m + n) % Word = 1 + m + n /\ m % Word = m
  BY <1>2
<1>4. 1 + m + n \in Cells /\ m \in Cells
  BY <1>2 DEF Cells
<1>5. PICK x \in Cells, y \in Cells : x = 1 + m + n /\ y = m
  BY <1>4
<1>6. PICK p \in Seq(Cells) : p = <<x, y>>
  <2>1. <<x, y>> \in Seq(Cells)
    OBVIOUS
  <2> QED BY <2>1
<1>7. Len(p) = 2 /\ p[1] = x /\ p[2] = y
  BY <1>6
<1>8. PICK f \in Seq(Cells) : f = EncodeFrame(header, payload)
  BY EncodeFrameType
<1>9. PICK q \in Seq(Cells) : q = p \o header
  <2>1. p \o header \in Seq(Cells)
    BY Joined
  <2> QED BY <2>1
<1>10. f = q \o payload
  BY <1>1, <1>2, <1>3, <1>5, <1>6, <1>8, <1>9 DEF EncodeFrame
<1>11. Len(q) = 2 + m /\ q[1] = x /\ q[2] = y /\ \A i \in 1..m : q[2 + i] = header[i]
  <2>1. Len(q) = Len(p) + m /\ \A i \in 1..Len(p) : q[i] = p[i]
    BY <1>1, <1>9, Joined
  <2>2. \A i \in 1..m : q[Len(p) + i] = header[i]
    BY <1>1, <1>9, Joined
  <2> QED BY <1>7, <2>1, <2>2
<1>12. Len(f) = 2 + m + n /\ f[1] = x /\ f[2] = y
  <2>1. Len(f) = Len(q) + n /\ \A i \in 1..Len(q) : f[i] = q[i]
    BY <1>1, <1>10, Joined
  <2>2. 1 \in 1..Len(q) /\ 2 \in 1..Len(q)
    BY <1>11
  <2> QED BY <1>11, <2>1, <2>2
<1>13. SubSeq(f, 2 + m + 1, Len(f)) = payload
  <2>1. SubSeq(q \o payload, Len(q) + 1, Len(q) + Len(payload)) = payload
    BY Joined
  <2> QED BY <1>1, <1>10, <1>11, <1>12, <2>1
<1>14. SubSeq(f, 2 + 1, 2 + m) = header
  <2>1. PICK a \in Nat, b \in Nat : a = 2 /\ b = 2 + m
    OBVIOUS
  <2>2. a <= b /\ b <= Len(f) /\ b - a = m
    BY <1>12, <2>1
  <2>3. PICK c : c = SubSeq(f, a + 1, b)
    OBVIOUS
  <2>4. c \in Seq(Cells) /\ Len(c) = m /\ \A i \in 1..m : c[i] = f[a + i]
    BY <2>2, <2>3, Slice
  <2>5. \A i \in 1..m : f[a + i] = header[i]
    <3>1. \A i \in 1..Len(q) : f[i] = q[i]
      BY <1>10, Joined
    <3>2. \A i \in 1..m : 2 + i \in 1..Len(q)
      BY <1>11
    <3> QED BY <1>11, <2>1, <3>1, <3>2
  <2>6. c = header
    BY <1>1, <2>4, <2>5, SeqEqual
  <2> QED BY <2>1, <2>3, <2>6
<1>15. SplitFrame(f) = [kind |-> "parts", header |-> SubSeq(f, 2 + 1, 2 + m),
                        payload |-> SubSeq(f, 2 + m + 1, Len(f))]
  <2>1. f[2] = m /\ f[1] = 1 + m + n
    BY <1>5, <1>12
  <2>2. ~(Len(f) < 2) /\ Len(f) = 1 + f[1] /\ ~(Len(f) < 2 + m) /\ ~(2 + m > Len(f))
    BY <1>12, <2>1
  <2> QED BY <2>1, <2>2 DEF SplitFrame, Slices, Substr, Prefix
<1> QED BY <1>1, <1>2, <1>5, <1>8, <1>12, <1>13, <1>14, <1>15

\* protobuf reads back the header it wrote.
LEMMA ParseOfSerialize ==
    ASSUME NEW a \in Cells, NEW b \in Cells, NEW c \in Cells
    PROVE  /\ ParseFromArray(SerializeToString(<<a, b, c>>)) = <<a, b, c>>
           /\ <<a, b, c>> # Invalid
           /\ Len(SerializeToString(<<a, b, c>>)) <= HeaderSize
<1>1. <<a, b, c>> # Invalid
  <2>1. 1 \in DOMAIN <<a, b, c>> /\ 2 \in DOMAIN <<a, b, c>>
    OBVIOUS
  <2>2. DOMAIN Invalid = {"kind"}
    BY DEF Invalid
  <2>3. SUFFICES ASSUME <<a, b, c>> = Invalid PROVE FALSE
    OBVIOUS
  <2>4. 1 = "kind" /\ 2 = "kind"
    BY <2>1, <2>2, <2>3
  <2> QED BY <2>4
<1>2. ParseFromArray(<<>>) = <<0, 0, 0>>
  BY DEF ParseFromArray, HeaderSize
<1>3. ParseFromArray(<<a, b, c>>) = <<a, b, c>>
  BY DEF ParseFromArray, HeaderSize
<1>4. CASE <<a, b, c>> = <<0, 0, 0>>
  <2>1. SerializeToString(<<a, b, c>>) = <<>>
    BY <1>4 DEF SerializeToString
  <2>2. ParseFromArray(SerializeToString(<<a, b, c>>)) = <<a, b, c>>
    BY <1>2, <1>4, <2>1, Zenon
  <2>3. Len(<<>>) <= 3
    OBVIOUS
  <2>4. Len(SerializeToString(<<a, b, c>>)) <= 3
    BY <2>1, <2>3, Zenon
  <2> QED BY <1>1, <2>2, <2>4, Zenon DEF HeaderSize
<1>5. CASE <<a, b, c>> # <<0, 0, 0>>
  <2>1. SerializeToString(<<a, b, c>>) = <<a, b, c>>
    BY <1>5 DEF SerializeToString
  <2>2. Len(<<a, b, c>>) = 3
    OBVIOUS
  <2> QED BY <1>1, <1>3, <2>1, <2>2 DEF HeaderSize
<1> QED BY <1>4, <1>5

\* A request whose lengths fit in 32 bits.
LEMMA RequestRoundTrip ==
    ASSUME NEW r \in Requests, Fits(r)
    PROVE  /\ Len(EncodeRequest(r)) >= 2 /\ EncodeRequest(r)[1] = Len(EncodeRequest(r)) - Prefix
           /\ DecodeRequest(EncodeRequest(r)) = Decoded(r)
<1>1. r.request_id \in Cells /\ r.metadata \in Seq(Cells) /\ r.payload \in Seq(Cells)
  BY RequestsAssumption
<1>2. PICK m \in Nat, n \in Nat : m = Len(r.metadata) /\ n = Len(r.payload)
  BY <1>1
<1>3. 4 + m + n < Word /\ Word \in Nat
  <2>1. Prefix + HeaderSize + m + n < Word
    BY <1>2, Zenon DEF Fits
  <2> QED BY <2>1, WordAssumption DEF Prefix, HeaderSize
<1>4. m % Word = m /\ n % Word = n /\ m \in Cells /\ n \in Cells
  BY <1>3 DEF Cells
<1>5. PICK id \in Cells : id = r.request_id
  BY <1>1
<1>6. PICK h \in Seq(Cells) : h = SerializeToString(<<id, m, n>>)
  BY <1>4, SerializeType
<1>7. PICK b \in Seq(Cells) : b = r.metadata \o r.payload
  <2>1. r.metadata \o r.payload \in Seq(Cells)
    BY <1>1
  <2> QED BY <2>1
<1>8. EncodeRequest(r) = EncodeFrame(h, b)
  BY <1>2, <1>4, <1>5, <1>6, <1>7 DEF EncodeRequest
<1>9. Len(b) = m + n /\ SubSeq(b, 1, m) = r.metadata /\ SubSeq(b, m + 1, Len(b)) = r.payload
  <2>1. PICK x \in Seq(Cells), y \in Seq(Cells) : x = r.metadata /\ y = r.payload
    BY <1>1
  <2>2. b = x \o y /\ m = Len(x) /\ n = Len(y)
    BY <1>2, <1>7, <2>1
  <2>3. Len(x \o y) = Len(x) + Len(y) /\ SubSeq(x \o y, 1, Len(x)) = x
        /\ SubSeq(x \o y, Len(x) + 1, Len(x) + Len(y)) = y
    BY Joined
  <2>4. Len(b) = m + n /\ SubSeq(b, 1, m) = x /\ SubSeq(b, m + 1, m + n) = y
    BY <2>2, <2>3
  <2> QED BY <2>1, <2>4
<1>10. ParseFromArray(h) = <<id, m, n>> /\ <<id, m, n>> # Invalid /\ Len(h) <= 3
  BY <1>4, <1>6, ParseOfSerialize DEF HeaderSize
<1>11. Prefix + Len(h) + Len(b) < Word /\ Len(h) \in Nat
  BY <1>3, <1>9, <1>10 DEF Prefix
<1>12. /\ Len(EncodeFrame(h, b)) = 2 + Len(h) + Len(b)
       /\ EncodeFrame(h, b)[1] = Prefix + Len(h) + Len(b)
       /\ SplitFrame(EncodeFrame(h, b)) = [kind |-> "parts", header |-> h, payload |-> b]
  BY <1>11, SplitOfEncode
<1>13. DecodeRequest(EncodeFrame(h, b)) = RequestOf(<<id, m, n>>, b, m)
  <2>1. PICK q : q = <<id, m, n>>
    OBVIOUS
  <2>2. q[2] = m /\ q[3] = n /\ q # Invalid /\ ParseFromArray(h) = q
    BY <1>10, <2>1
  <2>3. Len(b) = q[2] + q[3]
    BY <1>9, <2>2
  <2>4. DecodeRequest(EncodeFrame(h, b)) = RequestOf(q, b, q[2])
    BY <1>12, <2>2, <2>3 DEF DecodeRequest
  <2> QED BY <2>1, <2>2, <2>4
<1>14. RequestOf(<<id, m, n>>, b, m) = Decoded(r)
  <2>1. ~(m > Len(b))
    BY <1>9
  <2>2. <<id, m, n>>[1] = r.request_id
    BY <1>5
  <2> QED BY <1>9, <2>1, <2>2 DEF RequestOf, Substr, Decoded
<1>15. Len(EncodeFrame(h, b)) >= 2 /\ EncodeFrame(h, b)[1] = Len(EncodeFrame(h, b)) - Prefix
  BY <1>9, <1>11, <1>12 DEF Prefix
<1> QED BY <1>8, <1>13, <1>14, <1>15

\* A response whose lengths fit in 32 bits.
LEMMA ResponseRoundTrip ==
    ASSUME NEW r \in Responses, Prefix + HeaderSize + Len(r.payload) < Word
    PROVE  /\ Len(EncodeResponse(r)) >= 2 /\ EncodeResponse(r)[1] = Len(EncodeResponse(r)) - Prefix
           /\ DecodeResponse(EncodeResponse(r)) = DecodedResponse(r)
<1>1. r.request_id \in Cells /\ r.status \in Cells /\ r.payload \in Seq(Cells)
  BY ResponseParts
<1>2. PICK n \in Nat : n = Len(r.payload)
  BY <1>1
<1>3. 4 + n < Word /\ Word \in Nat
  BY <1>2, WordAssumption DEF Prefix, HeaderSize
<1>4. n % Word = n /\ n \in Cells
  BY <1>3 DEF Cells
<1>5. PICK id \in Cells, z \in Cells, b \in Seq(Cells) : id = r.request_id /\ z = r.status /\ b = r.payload
  BY <1>1
<1>6. PICK h \in Seq(Cells) : h = SerializeToString(<<id, z, n>>)
  BY <1>4, SerializeType
<1>7. EncodeResponse(r) = EncodeFrame(h, b)
  BY <1>2, <1>4, <1>5, <1>6 DEF EncodeResponse
<1>8. Len(b) = n
  BY <1>2, <1>5
<1>9. ParseFromArray(h) = <<id, z, n>> /\ <<id, z, n>> # Invalid /\ Len(h) <= 3
  BY <1>4, <1>6, ParseOfSerialize DEF HeaderSize
<1>10. Prefix + Len(h) + Len(b) < Word /\ Len(h) \in Nat
  BY <1>3, <1>8, <1>9 DEF Prefix
<1>11. /\ Len(EncodeFrame(h, b)) = 2 + Len(h) + Len(b)
       /\ EncodeFrame(h, b)[1] = Prefix + Len(h) + Len(b)
       /\ SplitFrame(EncodeFrame(h, b)) = [kind |-> "parts", header |-> h, payload |-> b]
  BY <1>10, SplitOfEncode
<1>12. DecodeResponse(EncodeFrame(h, b)) = DecodedResponse(r)
  <2>1. PICK q : q = <<id, z, n>>
    OBVIOUS
  <2>2. q[1] = id /\ q[2] = z /\ q[3] = n /\ q # Invalid /\ ParseFromArray(h) = q
    BY <1>9, <2>1
  <2>3. DecodeResponse(EncodeFrame(h, b)) =
          [kind |-> "kOk", request_id |-> q[1], status |-> q[2], payload |-> b]
    BY <1>8, <1>11, <2>2 DEF DecodeResponse
  <2> QED BY <1>5, <2>2, <2>3 DEF DecodedResponse
<1>13. Len(EncodeFrame(h, b)) >= 2 /\ EncodeFrame(h, b)[1] = Len(EncodeFrame(h, b)) - Prefix
  BY <1>8, <1>10, <1>11 DEF Prefix
<1> QED BY <1>7, <1>12, <1>13

-----------------------------------------------------------------------------
(* A stream is the frames that have not been read, one after the other *)

\* off[i] is where frame i of F ends, counted from the first cell ever written; the
\* first k frames have been read.
Laid(stream, F, k, off) ==
    /\ k \in 0..Len(F) /\ off \in [0..Len(F) -> Nat]
    /\ \A i, j \in 0..Len(F) : i <= j => off[i] <= off[j]
    /\ off[Len(F)] = off[k] + Len(stream)
    /\ \A i \in 1..Len(F) : off[i] = off[i - 1] + Len(F[i])
    /\ \A i \in (k + 1)..Len(F) : \A j \in 1..Len(F[i]) : stream[(off[i - 1] - off[k]) + j] = F[i][j]
IsLaid(stream, F, k) == \E off : Laid(stream, F, k, off)

\* Nothing is on a connection on which nothing was written.
LEMMA LaidEmpty == IsLaid(<<>>, <<>>, 0)
<1>1. PICK off : off = [i \in 0..0 |-> 0]
  OBVIOUS
<1>2. Laid(<<>>, <<>>, 0, off)
  BY <1>1 DEF Laid
<1> QED BY <1>2 DEF IsLaid

\* Another frame is written.
LEMMA LaidAppend ==
    ASSUME NEW stream \in Seq(Cells), NEW F \in Seq(Seq(Cells)), NEW k, NEW f \in Seq(Cells),
           IsLaid(stream, F, k)
    PROVE  IsLaid(stream \o f, Append(F, f), k)
<1>1. PICK off : Laid(stream, F, k, off)
  BY DEF IsLaid
<1>2. PICK n \in Nat, m \in Nat, l \in Nat : n = Len(F) /\ m = Len(f) /\ l = Len(stream)
  OBVIOUS
<1>0. PICK G : G = Append(F, f)
  OBVIOUS
<1>3. Len(G) = n + 1 /\ G[n + 1] = f /\ \A i \in 1..n : G[i] = F[i]
  BY <1>0, <1>2
<1>4. k \in 0..n /\ off \in [0..n -> Nat] /\ \A i, j \in 0..n : i <= j => off[i] <= off[j]
  BY <1>1, <1>2 DEF Laid
<1>5. off[n] = off[k] + l /\ off[n] \in Nat /\ off[k] \in Nat
  <2>1. off[n] = off[k] + l
    BY <1>1, <1>2 DEF Laid
  <2>2. k \in 0..n /\ n \in 0..n
    BY <1>4
  <2> QED BY <1>4, <2>1, <2>2
<1>6. PICK new : new = [i \in 0..(n + 1) |-> IF i = n + 1 THEN off[n] + m ELSE off[i]]
  OBVIOUS
<1>7. new[n + 1] = off[n] + m /\ \A i \in 0..n : new[i] = off[i]
  BY <1>6
<1>8. new \in [0..(n + 1) -> Nat]
  BY <1>4, <1>5, <1>6
<1>9. \A i, j \in 0..(n + 1) : i <= j => new[i] <= new[j]
  <2> SUFFICES ASSUME NEW i \in 0..(n + 1), NEW j \in 0..(n + 1), i <= j
               PROVE  new[i] <= new[j]
    OBVIOUS
  <2>1. CASE j = n + 1 /\ i = n + 1
    BY <2>1, <1>5, <1>7
  <2>2. CASE j = n + 1 /\ i \in 0..n
    <3>1. off[i] <= off[n] /\ off[i] \in Nat
      BY <2>2, <1>4
    <3> QED BY <2>2, <3>1, <1>5, <1>7
  <2>3. CASE j \in 0..n
    <3>1. i \in 0..n
      BY <2>3, <1>2
    <3>2. off[i] <= off[j]
      BY <2>3, <3>1, <1>4
    <3> QED BY <2>3, <3>1, <3>2, <1>7
  <2> QED BY <2>1, <2>2, <2>3, <1>2
<1>10. Len(stream \o f) = l + m /\ \A i \in 1..l : (stream \o f)[i] = stream[i]
  BY <1>2
<1>11. \A j \in 1..m : (stream \o f)[l + j] = f[j]
  BY <1>2, Joined
<1>12. new[n + 1] = new[k] + Len(stream \o f)
  BY <1>4, <1>5, <1>7, <1>10
<1>13. \A i \in 1..(n + 1) : new[i] = new[i - 1] + Len(G[i])
  <2> SUFFICES ASSUME NEW i \in 1..(n + 1) PROVE new[i] = new[i - 1] + Len(G[i])
    OBVIOUS
  <2>1. CASE i = n + 1
    BY <2>1, <1>2, <1>3, <1>7
  <2>2. CASE i \in 1..n
    <3>1. off[i] = off[i - 1] + Len(F[i])
      BY <1>1, <1>2, <2>2 DEF Laid
    <3>2. i \in 0..n /\ i - 1 \in 0..n
      BY <2>2
    <3> QED BY <1>3, <1>7, <2>2, <3>1, <3>2
  <2> QED BY <2>1, <2>2
<1>14. ASSUME NEW i \in (k + 1)..(n + 1), NEW j \in 1..Len(G[i])
       PROVE  (stream \o f)[(new[i - 1] - new[k]) + j] = G[i][j]
  <2>1. CASE i = n + 1
    <3>1. G[i] = f /\ j \in 1..m
      BY <2>1, <1>2, <1>3
    <3>2. i - 1 = n /\ n \in 0..n /\ k \in 0..n
      BY <2>1, <1>4
    <3>3. new[i - 1] = off[n] /\ new[k] = off[k]
      BY <1>7, <3>2
    <3>4. (new[i - 1] - new[k]) + j = l + j
      BY <1>5, <3>1, <3>3
    <3> QED BY <3>1, <3>4, <1>11
  <2>2. CASE i \in (k + 1)..n
    <3>1. i \in 1..n /\ i \in 0..n /\ i - 1 \in 0..n /\ k <= i - 1
      BY <2>2, <1>4
    <3>2. PICK a \in Nat, b \in Nat, c \in Nat : a = off[i - 1] /\ b = off[k] /\ c = off[i]
      BY <3>1, <1>4
    <3>3. b <= a /\ c = a + Len(F[i]) /\ c <= off[n]
      <4>1. b <= a
        BY <1>4, <3>1, <3>2
      <4>2. n \in 0..n /\ i <= n
        BY <3>1
      <4>3. c <= off[n]
        BY <1>4, <3>1, <3>2, <4>2
      <4>4. c = a + Len(F[i])
        BY <1>1, <1>2, <3>1, <3>2 DEF Laid
      <4> QED BY <4>1, <4>3, <4>4
    <3>4. G[i] = F[i] /\ j \in 1..Len(F[i]) /\ Len(F[i]) \in Nat
      BY <1>2, <1>3, <3>1
    <3>5. (a - b) + j \in 1..l
      <4>1. a + Len(F[i]) <= b + l /\ b <= a
        BY <1>5, <3>2, <3>3
      <4> QED BY <3>4, <4>1
    <3>6. stream[(a - b) + j] = F[i][j]
      BY <1>1, <1>2, <2>2, <3>2, <3>4 DEF Laid
    <3>7. new[i - 1] = a /\ new[k] = b
      BY <1>4, <1>7, <3>1, <3>2
    <3> QED BY <1>10, <3>4, <3>5, <3>6, <3>7
  <2>3. k \in Nat
    BY <1>4
  <2>4. i = n + 1 \/ i \in (k + 1)..n
    BY <2>3
  <2> QED BY <2>1, <2>2, <2>4
<1>15. Laid(stream \o f, G, k, new)
  <2>1. k \in 0..(n + 1)
    BY <1>4
  <2> QED BY <1>3, <1>8, <1>9, <1>12, <1>13, <1>14, <2>1 DEF Laid
<1> QED BY <1>0, <1>15 DEF IsLaid

\* Where there is something to read there is a frame that begins it.
LEMMA LaidFront ==
    ASSUME NEW stream \in Seq(Cells), NEW F \in Seq(Seq(Cells)), NEW k, IsLaid(stream, F, k),
           Len(stream) >= 1
    PROVE  /\ k \in Nat /\ k + 1 \in 1..Len(F)
           /\ Len(F[k + 1]) >= 1 => stream[1] = F[k + 1][1]
<1>1. PICK off : Laid(stream, F, k, off)
  BY DEF IsLaid
<1>2. PICK n \in Nat : n = Len(F)
  OBVIOUS
<1>3. k \in 0..n /\ off \in [0..n -> Nat] /\ off[n] = off[k] + Len(stream)
  BY <1>1, <1>2 DEF Laid
<1>4. k # n
  BY <1>3
<1>5. k \in Nat /\ k + 1 \in 1..n /\ k + 1 \in (k + 1)..n /\ (k + 1) - 1 = k
  BY <1>3, <1>4
<1>6. ASSUME Len(F[k + 1]) >= 1 PROVE stream[1] = F[k + 1][1]
  <2>1. Len(F[k + 1]) \in Nat
    BY <1>2, <1>5
  <2>2. stream[(off[(k + 1) - 1] - off[k]) + 1] = F[k + 1][1]
    BY <1>1, <1>2, <1>5, <1>6, <2>1 DEF Laid
  <2>3. (off[(k + 1) - 1] - off[k]) + 1 = 1
    BY <1>3, <1>5
  <2> QED BY <2>2, <2>3
<1> QED BY <1>2, <1>5, <1>6

\* The frame that begins the stream is read.
LEMMA LaidCut ==
    ASSUME NEW stream \in Seq(Cells), NEW F \in Seq(Seq(Cells)), NEW k, IsLaid(stream, F, k),
           NEW f \in Seq(Cells), k + 1 \in 1..Len(F), f = F[k + 1], Len(f) <= Len(stream)
    PROVE  /\ SubSeq(stream, 1, Len(f)) = f
           /\ IsLaid(SubSeq(stream, Len(f) + 1, Len(stream)), F, k + 1)
<1>1. PICK off : Laid(stream, F, k, off)
  BY DEF IsLaid
<1>2. PICK n \in Nat, m \in Nat, l \in Nat : n = Len(F) /\ m = Len(f) /\ l = Len(stream)
  OBVIOUS
<1>3. k \in 0..n /\ off \in [0..n -> Nat] /\ off[n] = off[k] + l
  BY <1>1, <1>2 DEF Laid
<1>4. k \in Nat /\ k + 1 \in 0..n /\ k + 1 \in 1..n /\ k + 1 \in (k + 1)..n /\ (k + 1) - 1 = k /\ m <= l
  BY <1>2, <1>3
<1>5. off[k + 1] = off[k] + m /\ off[k] \in Nat /\ off[k + 1] \in Nat
  <2>1. off[k + 1] = off[(k + 1) - 1] + Len(F[k + 1])
    BY <1>1, <1>2, <1>4 DEF Laid
  <2> QED BY <1>2, <1>3, <1>4, <2>1
<1>6. SubSeq(stream, 1, m) = f
  <2>1. PICK c : c = SubSeq(stream, 1, m)
    OBVIOUS
  <2>2. c \in Seq(Cells) /\ Len(c) = m /\ \A j \in 1..m : c[j] = stream[j]
    BY <1>2, <1>4, <2>1
  <2>3. \A j \in 1..m : stream[j] = f[j]
    <3> SUFFICES ASSUME NEW j \in 1..m PROVE stream[j] = f[j]
      OBVIOUS
    <3>1. stream[(off[(k + 1) - 1] - off[k]) + j] = F[k + 1][j]
      BY <1>1, <1>2, <1>4 DEF Laid
    <3>2. (off[(k + 1) - 1] - off[k]) + j = j
      BY <1>4, <1>5
    <3> QED BY <3>1, <3>2
  <2> QED BY <1>2, <2>1, <2>2, <2>3, SeqEqual
<1>7. PICK rest : rest = SubSeq(stream, m + 1, l)
  OBVIOUS
<1>8. Len(rest) = l - m /\ \A i \in 1..(l - m) : rest[i] = stream[m + i]
  <2>1. l <= Len(stream)
    BY <1>2
  <2> QED BY <1>4, <1>7, <2>1, Slice
<1>9. off[n] = off[k + 1] + Len(rest)
  BY <1>3, <1>4, <1>5, <1>8
<1>10. ASSUME NEW i \in ((k + 1) + 1)..n, NEW j \in 1..Len(F[i])
       PROVE  rest[(off[i - 1] - off[k + 1]) + j] = F[i][j]
  <2>1. i \in (k + 1)..n /\ i \in 1..n /\ i \in 0..n /\ i - 1 \in 0..n /\ k + 1 <= i - 1
    BY <1>4
  <2>2. PICK a \in Nat, b \in Nat, c \in Nat : a = off[i - 1] /\ b = off[k] /\ c = off[i]
    BY <1>3, <1>4, <2>1
  <2>3. b + m <= a
    <3>1. off[k + 1] <= off[i - 1]
      BY <1>1, <1>2, <1>4, <2>1 DEF Laid
    <3> QED BY <1>5, <2>2, <3>1
  <2>4. c <= off[n]
    <3>1. n \in 0..n /\ i <= n
      BY <2>1
    <3> QED BY <1>1, <1>2, <2>1, <2>2, <3>1 DEF Laid
  <2>5. c = a + Len(F[i]) /\ Len(F[i]) \in Nat
    <3>1. F[i] \in Seq(Cells)
      BY <1>2, <2>1
    <3>2. off[i] = off[i - 1] + Len(F[i])
      BY <1>1, <1>2, <2>1 DEF Laid
    <3> QED BY <2>2, <3>1, <3>2
  <2>6. stream[(a - b) + j] = F[i][j]
    BY <1>1, <1>2, <2>1, <2>2 DEF Laid
  <2>7. PICK d \in 1..(l - m) : d = (a - (b + m)) + j
    <3>1. a + Len(F[i]) <= b + l /\ b + m <= a
      BY <1>3, <2>2, <2>3, <2>4, <2>5
    <3>2. (a - (b + m)) + j \in 1..(l - m)
      BY <1>4, <2>5, <3>1
    <3> QED BY <3>2
  <2>8. rest[d] = stream[m + d] /\ m + d = (a - b) + j
    <3>1. rest[d] = stream[m + d]
      BY <1>8
    <3>2. m + d = (a - b) + j
      BY <2>5, <2>7
    <3> QED BY <3>1, <3>2
  <2>9. (off[i - 1] - off[k + 1]) + j = d
    BY <1>5, <2>2, <2>7
  <2> QED BY <2>6, <2>8, <2>9
<1>11. Laid(rest, F, k + 1, off)
  <2>1. \A i \in ((k + 1) + 1)..n : \A j \in 1..Len(F[i]) : rest[(off[i - 1] - off[k + 1]) + j] = F[i][j]
    BY <1>10
  <2>2. /\ \A i, j \in 0..Len(F) : i <= j => off[i] <= off[j]
        /\ \A i \in 1..Len(F) : off[i] = off[i - 1] + Len(F[i])
    BY <1>1 DEF Laid
  <2> QED BY <1>2, <1>3, <1>4, <1>9, <2>1, <2>2 DEF Laid
<1> QED BY <1>2, <1>6, <1>7, <1>11 DEF IsLaid

-----------------------------------------------------------------------------
(* What was written is what is read *)

RequestFrames == [i \in 1..Len(sent) |-> EncodeRequest(sent[i])]
ResponseFrames == [i \in 1..Len(replied) |-> EncodeResponse(replied[i])]

\* The server's buffer and what is on its way to it are the requests not yet handled.
ServerStream ==
    Own => /\ Len(handled) <= Len(sent)
           /\ \A i \in DOMAIN handled : handled[i] = Decoded(sent[i])
           /\ server # "closed" => IsLaid(input \o wire, RequestFrames, Len(handled))

\* What is on its way to the client are the responses it has not decoded.
Received(result, response) ==
    IF Len(EncodeResponse(response)) - Prefix > MaxFrame
    THEN result = Invalid
    ELSE result = DecodedResponse(response)
ClientStream ==
    OwnReplies => /\ Len(results) <= Len(replied)
                  /\ \A i \in DOMAIN results : Received(results[i], replied[i])
                  /\ client = "open" => IsLaid(back, ResponseFrames, Len(results))

\* The frames of all requests sent and of all responses sent.
LEMMA FramesType ==
    ASSUME FramingInv
    PROVE  /\ RequestFrames \in Seq(Seq(Cells)) /\ Len(RequestFrames) = Len(sent)
           /\ ResponseFrames \in Seq(Seq(Cells)) /\ Len(ResponseFrames) = Len(replied)
<1>1. Len(sent) \in Nat /\ \A i \in 1..Len(sent) : EncodeRequest(sent[i]) \in Seq(Cells)
  BY EncodeRequestType DEF FramingInv
<1>2. Len(replied) \in Nat /\ \A i \in 1..Len(replied) : EncodeResponse(replied[i]) \in Seq(Cells)
  BY EncodeResponseType DEF FramingInv
<1>3. RequestFrames \in Seq(Seq(Cells)) /\ Len(RequestFrames) = Len(sent)
  BY <1>1 DEF RequestFrames
<1>4. ResponseFrames \in Seq(Seq(Cells)) /\ Len(ResponseFrames) = Len(replied)
  BY <1>2 DEF ResponseFrames
<1> QED BY <1>3, <1>4

\* The same after a step.
LEMMA FramesTypeNext ==
    ASSUME FramingInv'
    PROVE  RequestFrames' \in Seq(Seq(Cells)) /\ ResponseFrames' \in Seq(Seq(Cells))
<1>1. Len(sent') \in Nat /\ \A i \in 1..Len(sent') : EncodeRequest(sent'[i]) \in Seq(Cells)
  BY EncodeRequestType DEF FramingInv
<1>2. Len(replied') \in Nat /\ \A i \in 1..Len(replied') : EncodeResponse(replied'[i]) \in Seq(Cells)
  BY EncodeResponseType DEF FramingInv
<1>3. RequestFrames' \in Seq(Seq(Cells))
  BY <1>1 DEF RequestFrames
<1>4. ResponseFrames' \in Seq(Seq(Cells))
  BY <1>2 DEF ResponseFrames
<1> QED BY <1>3, <1>4

\* A sequence that is longer by one element.
LEMMA GrownByOne ==
    ASSUME NEW S, NEW F \in Seq(S), NEW G \in Seq(S), NEW e \in S,
           Len(G) = Len(F) + 1, G[Len(F) + 1] = e, \A i \in 1..Len(F) : G[i] = F[i]
    PROVE  G = Append(F, e)
<1>1. PICK H \in Seq(S) : H = Append(F, e)
  <2>1. Append(F, e) \in Seq(S)
    OBVIOUS
  <2> QED BY <2>1
<1>2. Len(H) = Len(F) + 1 /\ H[Len(F) + 1] = e /\ \A i \in 1..Len(F) : H[i] = F[i]
  BY <1>1
<1>3. \A i \in 1..Len(G) : i \in 1..Len(F) \/ i = Len(F) + 1
  OBVIOUS
<1>4. Len(G) = Len(H) /\ \A i \in 1..Len(G) : G[i] = H[i]
  BY <1>2, <1>3
<1> QED BY <1>1, <1>4, SeqEqual

\* A step that leaves requests, buffer and results alone keeps the server's stream.
LEMMA ServerKept ==
    ASSUME FramingInv, ServerStream, UNCHANGED <<wire, input, sent, handled, stranger>>,
           server' # "closed" => server # "closed"
    PROVE  ServerStream'
<1>1. Own' = Own /\ RequestFrames' = RequestFrames
  BY DEF Own, RequestFrames
<1> QED BY <1>1 DEF ServerStream

\* A step that leaves responses and their results alone keeps the client's stream.
LEMMA ClientKept ==
    ASSUME FramingInv, ClientStream, UNCHANGED <<back, replied, results, stranger>>,
           client' = "open" => client = "open"
    PROVE  ClientStream'
<1>1. OwnReplies' = OwnReplies /\ ResponseFrames' = ResponseFrames
  BY DEF OwnReplies, ResponseFrames
<1> QED BY <1>1 DEF ClientStream

\* A request is put at the end of the stream.
LEMMA SendServer ==
    ASSUME FramingInv, ServerStream, NEW r \in Requests, Send(r)
    PROVE  ServerStream'
<1> SUFFICES ASSUME Own'
             PROVE  /\ Len(handled') <= Len(sent')
                    /\ \A i \in DOMAIN handled' : handled'[i] = Decoded(sent'[i])
                    /\ server' # "closed" => IsLaid(input' \o wire', RequestFrames', Len(handled'))
  BY DEF ServerStream
<1>1. sent \in Seq(Requests) /\ sent' = Append(sent, r) /\ handled' = handled
      /\ server' = server /\ handled \in Seq(RequestResults)
  BY DEF Send, FramingInv
<1>2. Len(sent) \in Nat /\ Len(sent') = Len(sent) + 1 /\ sent'[Len(sent) + 1] = r
      /\ \A i \in 1..Len(sent) : sent'[i] = sent[i]
  BY <1>1
<1>3. Own
  <2>1. \A i \in 1..Len(sent) : i \in DOMAIN sent' /\ DOMAIN sent = 1..Len(sent)
    BY <1>1, <1>2
  <2>2. \A i \in 1..Len(sent) : Fits(sent[i])
    <3> SUFFICES ASSUME NEW i \in 1..Len(sent) PROVE Fits(sent[i])
      OBVIOUS
    <3>1. Fits(sent'[i])
      BY <2>1 DEF Own
    <3>2. sent'[i] = sent[i]
      BY <1>2
    <3> QED BY <3>1, <3>2
  <2>3. ~stranger
    BY DEF Send
  <2> QED BY <1>1, <2>2, <2>3 DEF Own
<1>4. Len(handled) <= Len(sent) /\ Len(handled) \in Nat /\ DOMAIN handled = 1..Len(handled)
      /\ \A i \in DOMAIN handled : handled[i] = Decoded(sent[i])
  BY <1>1, <1>3 DEF ServerStream
<1>5. \A i \in DOMAIN handled : sent'[i] = sent[i]
  BY <1>2, <1>4
<1>6. RequestFrames' = Append(RequestFrames, EncodeRequest(r))
  <2>1. PICK F \in Seq(Seq(Cells)), G \in Seq(Seq(Cells)), e \in Seq(Cells) :
          F = RequestFrames /\ G = RequestFrames' /\ e = EncodeRequest(r)
    BY SendStep, FramesType, FramesTypeNext, EncodeRequestType
  <2>2. Len(F) = Len(sent) /\ \A i \in 1..Len(sent) : F[i] = EncodeRequest(sent[i])
    BY <2>1, FramesType DEF RequestFrames
  <2>3. G = [i \in 1..(Len(sent) + 1) |-> EncodeRequest(sent'[i])]
    BY <1>2, <2>1 DEF RequestFrames
  <2>4. Len(G) = Len(F) + 1 /\ G[Len(F) + 1] = e /\ \A i \in 1..Len(F) : G[i] = F[i]
    BY <1>2, <2>1, <2>2, <2>3
  <2> QED BY <2>1, <2>4, GrownByOne
<1>7. ASSUME server # "closed" PROVE IsLaid(input' \o wire', RequestFrames', Len(handled))
  <2>1. IsLaid(input \o wire, RequestFrames, Len(handled))
    BY <1>3, <1>7 DEF ServerStream
  <2>2. PICK z \in Seq(Cells), e \in Seq(Cells), F \in Seq(Seq(Cells)), k \in Nat :
           z = input \o wire /\ e = EncodeRequest(r) /\ F = RequestFrames /\ k = Len(handled)
    <3>1. input \o wire \in Seq(Cells)
      BY DEF FramingInv
    <3>2. Len(handled) \in Nat
      BY DEF FramingInv
    <3> QED BY <3>1, <3>2, EncodeRequestType, FramesType
  <2>3. IsLaid(z \o e, Append(F, e), k)
    BY <2>1, <2>2, LaidAppend
  <2>4. input' \o wire' = z \o e
    <3>1. PICK x \in Seq(Cells), y \in Seq(Cells) : x = input /\ y = wire
      BY DEF FramingInv
    <3>2. x \o (y \o e) = (x \o y) \o e
      OBVIOUS
    <3> QED BY <2>2, <3>1, <3>2 DEF Send
  <2> QED BY <1>6, <2>2, <2>3, <2>4
<1> QED BY <1>1, <1>2, <1>4, <1>5, <1>7

\* A frame that is whole in the buffer can be cut there or from the whole stream.
LEMMA CutOfJoined ==
    ASSUME NEW x \in Seq(Cells), NEW y \in Seq(Cells), NEW n \in Nat, n <= Len(x)
    PROVE  /\ SubSeq(x, 1, n) = SubSeq(x \o y, 1, n)
           /\ SubSeq(x, n + 1, Len(x)) \o y = SubSeq(x \o y, n + 1, Len(x \o y))
<1> DEFINE z == x \o y
<1>1. z \in Seq(Cells) /\ Len(z) = Len(x) + Len(y) /\ \A i \in 1..Len(x) : z[i] = x[i]
  BY Joined
<1>0. z = x \o y
  OBVIOUS
<1> HIDE DEF z
<1>2. Len(x) \in Nat /\ Len(y) \in Nat /\ Len(z) \in Nat /\ n <= Len(z) /\ Len(x) <= Len(x) /\ Len(z) <= Len(z)
  BY <1>1
<1>3. SubSeq(x, 1, n) = SubSeq(z, 1, n)
  <2>1. PICK a, b : a = SubSeq(x, 1, n) /\ b = SubSeq(z, 1, n)
    OBVIOUS
  <2>2. a \in Seq(Cells) /\ Len(a) = n /\ \A i \in 1..n : a[i] = x[i]
    BY <1>2, <2>1
  <2>3. b \in Seq(Cells) /\ Len(b) = n /\ \A i \in 1..n : b[i] = z[i]
    BY <1>1, <1>2, <2>1
  <2>4. \A i \in 1..n : a[i] = b[i]
    BY <1>1, <1>2, <2>2, <2>3
  <2> QED BY <2>1, <2>2, <2>3, <2>4, SeqEqual
<1>4. SubSeq(x, n + 1, Len(x)) \o y = SubSeq(z, n + 1, Len(z))
  <2>1. PICK a, b : a = SubSeq(x, n + 1, Len(x)) /\ b = SubSeq(z, n + 1, Len(z))
    OBVIOUS
  <2>2. PICK l \in Nat, m \in Nat : l = Len(x) - n /\ m = Len(y)
    <3>1. Len(x) - n \in Nat
      BY <1>2
    <3> QED BY <1>2, <3>1
  <2>3. a \in Seq(Cells) /\ Len(a) = l /\ \A i \in 1..l : a[i] = x[n + i]
    BY <1>2, <2>1, <2>2, Slice
  <2>4. b \in Seq(Cells) /\ Len(b) = l + m /\ \A i \in 1..(l + m) : b[i] = z[n + i]
    <3>1. Len(z) - n = l + m
      BY <1>1, <1>2, <2>2
    <3>2. b \in Seq(Cells) /\ Len(b) = Len(z) - n /\ \A i \in 1..(Len(z) - n) : b[i] = z[n + i]
      BY <1>1, <1>2, <2>1, Slice
    <3> QED BY <3>1, <3>2
  <2>5. PICK c : c = a \o y
    OBVIOUS
  <2>6. c \in Seq(Cells) /\ Len(c) = l + m /\ (\A i \in 1..l : c[i] = a[i])
        /\ \A i \in 1..m : c[l + i] = y[i]
    <3>1. /\ a \o y \in Seq(Cells) /\ Len(a \o y) = Len(a) + Len(y)
          /\ \A i \in 1..Len(a) : (a \o y)[i] = a[i]
          /\ \A i \in 1..Len(y) : (a \o y)[Len(a) + i] = y[i]
      <4>1. a \in Seq(Cells)
        BY <2>3
      <4> QED BY <4>1, Joined
    <3> QED BY <2>2, <2>3, <2>5, <3>1
  <2>7. \A i \in 1..m : z[Len(x) + i] = y[i]
    BY <1>0, <2>2, Joined
  <2>8. ASSUME NEW i \in 1..(l + m) PROVE c[i] = b[i]
    <3>1. CASE i \in 1..l
      <4>1. n + i \in 1..Len(x)
        BY <1>2, <2>2, <3>1
      <4> QED BY <1>1, <2>3, <2>4, <2>6, <3>1, <4>1
    <3>2. CASE i \in (l + 1)..(l + m)
      <4>1. PICK j \in 1..m : i = l + j
        <5>1. i - l \in 1..m /\ i = l + (i - l)
          BY <3>2
        <5> QED BY <5>1
      <4>2. n + i = Len(x) + j
        BY <1>2, <2>2, <4>1
      <4>3. b[i] = z[Len(x) + j]
        BY <2>4, <4>2
      <4>4. c[i] = y[j]
        BY <2>6, <4>1
      <4> QED BY <2>7, <4>3, <4>4
    <3> QED BY <3>1, <3>2
  <2>9. c = b
    BY <2>4, <2>6, <2>8, SeqEqual
  <2> QED BY <2>1, <2>5, <2>9
<1> QED BY <1>0, <1>3, <1>4

\* What arrives moves from the wire into the buffer, and the stream stays the same.
LEMMA RecvServer ==
    ASSUME FramingInv, ServerStream, NEW n \in Arrivals, Recv(n)
    PROVE  ServerStream'
<1>1. Own' = Own /\ RequestFrames' = RequestFrames
  BY DEF Recv, Own, RequestFrames
<1>2. input' \o wire' = input \o wire
  <2>1. PICK x \in Seq(Cells), y \in Seq(Cells) : x = input /\ y = wire
    BY DEF FramingInv
  <2>2. n \in Nat /\ n <= Len(y) /\ Len(y) \in Nat
    BY <2>1, CellsAssumption DEF Recv
  <2>3. SubSeq(y, 1, n) \o SubSeq(y, n + 1, Len(y)) = y
    <3>1. 1 \in 1..(Len(y) + 1) /\ n \in (1 - 1)..Len(y) /\ Len(y) \in n..Len(y)
      BY <2>2
    <3>2. SubSeq(y, 1, n) \o SubSeq(y, n + 1, Len(y)) = SubSeq(y, 1, Len(y))
      BY <3>1, ConcatAdjacentSubSeq
    <3> QED BY <3>2, SubSeqFull
  <2>4. PICK a \in Seq(Cells), b \in Seq(Cells) : a = SubSeq(y, 1, n) /\ b = SubSeq(y, n + 1, Len(y))
    <3>1. SubSeq(y, 1, n) \in Seq(Cells)
      BY <2>2
    <3>2. SubSeq(y, n + 1, Len(y)) \in Seq(Cells)
      <4>1. Len(y) <= Len(y)
        BY <2>2
      <4> QED BY <2>2, <4>1, Slice
    <3> QED BY <3>1, <3>2
  <2>5. (x \o a) \o b = x \o (a \o b)
    OBVIOUS
  <2> QED BY <2>1, <2>3, <2>4, <2>5 DEF Recv
<1>3. server # "closed" /\ UNCHANGED <<sent, handled>>
  BY DEF Recv
<1> QED BY <1>1, <1>2, <1>3 DEF ServerStream

\* The frame cut off the buffer is the next request, whole.
LEMMA ProcessFrameServer ==
    ASSUME FramingInv, ServerStream, NEW p \in Payloads, ProcessFrame(p)
    PROVE  ServerStream'
<1>1. Own' = Own /\ RequestFrames' = RequestFrames /\ sent' = sent /\ wire' = wire /\ server # "closed"
  BY DEF ProcessFrame, Own, RequestFrames
<1> SUFFICES ASSUME Own
             PROVE  /\ Len(handled') <= Len(sent)
                    /\ \A i \in DOMAIN handled' : handled'[i] = Decoded(sent[i])
                    /\ IsLaid(input' \o wire, RequestFrames, Len(handled'))
  BY <1>1 DEF ServerStream
<1>2. PICK x \in Seq(Cells), y \in Seq(Cells), F \in Seq(Seq(Cells)) : x = input /\ y = wire /\ F = RequestFrames
  BY FramesType DEF FramingInv
<1>3. PICK k \in Nat : k = Len(handled)
  BY DEF FramingInv
<1>4. PICK z \in Seq(Cells) : z = x \o y
  <2>1. x \o y \in Seq(Cells)
    OBVIOUS
  <2> QED BY <2>1
<1>5. /\ IsLaid(z, F, k) /\ k <= Len(sent)
      /\ \A i \in DOMAIN handled : handled[i] = Decoded(sent[i])
  BY <1>1, <1>2, <1>3, <1>4 DEF ServerStream
<1>6. Len(x) >= 1 /\ Len(x) >= Prefix + x[1] /\ Len(x) \in Nat
  BY <1>2 DEF ProcessFrame, WholeFrame, Prefix
<1>7. Len(z) >= 1 /\ z[1] = x[1] /\ Len(z) = Len(x) + Len(y) /\ Len(y) \in Nat
  BY <1>4, <1>6, Joined
<1>8. k + 1 \in 1..Len(F) /\ (Len(F[k + 1]) >= 1 => z[1] = F[k + 1][1])
  BY <1>5, <1>7, LaidFront
<1>9. Len(F) = Len(sent) /\ F[k + 1] = EncodeRequest(sent[k + 1])
      /\ sent[k + 1] \in Requests /\ Fits(sent[k + 1])
  <2>1. Len(F) = Len(sent)
    BY <1>2, FramesType
  <2>2. k + 1 \in DOMAIN sent /\ k + 1 \in 1..Len(sent) /\ sent[k + 1] \in Requests
    BY <1>8, <2>1 DEF FramingInv
  <2> QED BY <1>2, <2>1, <2>2 DEF Own, RequestFrames
<1>10. PICK f \in Seq(Cells) : f = F[k + 1]
  BY <1>8
<1>11. Len(f) >= 2 /\ f[1] = Len(f) - Prefix /\ DecodeRequest(f) = Decoded(sent[k + 1])
  BY <1>9, <1>10, RequestRoundTrip
<1>12. Prefix + x[1] = Len(f) /\ Len(f) \in Nat /\ Len(f) <= Len(x) /\ Len(f) <= Len(z)
  <2>1. Len(f) \in Nat
    OBVIOUS
  <2>2. x[1] = Len(f) - 1
    BY <1>7, <1>8, <1>10, <1>11, <2>1 DEF Prefix
  <2>3. Prefix + x[1] = Len(f)
    BY <2>1, <2>2 DEF Prefix
  <2> QED BY <1>6, <1>7, <2>1, <2>3
<1>13. /\ SubSeq(z, 1, Len(f)) = f
       /\ IsLaid(SubSeq(z, Len(f) + 1, Len(z)), F, k + 1)
  BY <1>5, <1>8, <1>10, <1>12, LaidCut
<1>14. SubSeq(x, 1, Len(f)) = SubSeq(z, 1, Len(f))
       /\ SubSeq(x, Len(f) + 1, Len(x)) \o y = SubSeq(z, Len(f) + 1, Len(z))
  <2>1. PICK t \in Nat : t = Len(f)
    BY <1>12
  <2>2. t <= Len(x)
    BY <1>12, <2>1
  <2>3. SubSeq(x, 1, t) = SubSeq(z, 1, t) /\ SubSeq(x, t + 1, Len(x)) \o y = SubSeq(z, t + 1, Len(z))
    <3>1. /\ SubSeq(x, 1, t) = SubSeq(x \o y, 1, t)
          /\ SubSeq(x, t + 1, Len(x)) \o y = SubSeq(x \o y, t + 1, Len(x \o y))
      BY <2>2, CutOfJoined
    <3> QED BY <1>4, <3>1
  <2> QED BY <2>1, <2>3
<1>15. handled' = Append(handled, DecodeRequest(SubSeq(x, 1, Len(f))))
       /\ input' = SubSeq(x, Len(f) + 1, Len(x))
  BY <1>2, <1>12 DEF ProcessFrame
<1>16. PICK d : d = Decoded(sent[k + 1]) /\ handled' = Append(handled, d)
  BY <1>11, <1>13, <1>14, <1>15
<1>17. Len(handled') = k + 1 /\ DOMAIN handled' = 1..(k + 1) /\ handled'[k + 1] = d
       /\ DOMAIN handled = 1..k /\ \A i \in 1..k : handled'[i] = handled[i]
  BY <1>3, <1>16 DEF FramingInv
<1>18. \A i \in 1..(k + 1) : handled'[i] = Decoded(sent[i])
  <2> SUFFICES ASSUME NEW i \in 1..(k + 1) PROVE handled'[i] = Decoded(sent[i])
    OBVIOUS
  <2>1. CASE i = k + 1
    BY <2>1, <1>16, <1>17
  <2>2. CASE i \in 1..k
    BY <2>2, <1>5, <1>17
  <2> QED BY <2>1, <2>2
<1>19. k + 1 <= Len(sent)
  BY <1>8, <1>9
<1>20. IsLaid(input' \o wire, RequestFrames, Len(handled'))
  BY <1>2, <1>13, <1>14, <1>15, <1>17
<1> QED BY <1>17, <1>18, <1>19, <1>20

\* Replies that fit now fitted before.
LEMMA OwnRepliesBefore ==
    ASSUME FramingInv, NEW r \in Responses, replied' = Append(replied, r), UNCHANGED stranger, OwnReplies'
    PROVE  OwnReplies
<1>1. replied \in Seq(Responses) /\ Len(replied) \in Nat /\ DOMAIN replied = 1..Len(replied)
  BY DEF FramingInv
<1>2. \A i \in 1..Len(replied) : i \in DOMAIN replied' /\ replied'[i] = replied[i]
  BY <1>1
<1>3. \A i \in 1..Len(replied) : Prefix + HeaderSize + Len(replied[i].payload) < Word
  <2> SUFFICES ASSUME NEW i \in 1..Len(replied) PROVE Prefix + HeaderSize + Len(replied[i].payload) < Word
    OBVIOUS
  <2>1. Prefix + HeaderSize + Len(replied'[i].payload) < Word
    BY <1>2 DEF OwnReplies
  <2>2. replied'[i] = replied[i]
    BY <1>2
  <2> QED BY <2>1, <2>2
<1> QED BY <1>1, <1>3 DEF OwnReplies

\* The response is put at the end of the client's stream.
LEMMA ProcessFrameClient ==
    ASSUME FramingInv, ClientStream, NEW p \in Payloads, ProcessFrame(p), FramingInv'
    PROVE  ClientStream'
<1> SUFFICES ASSUME OwnReplies'
             PROVE  /\ Len(results') <= Len(replied')
                    /\ \A i \in DOMAIN results' : Received(results'[i], replied'[i])
                    /\ client' = "open" => IsLaid(back', ResponseFrames', Len(results'))
  BY DEF ClientStream
<1>1. PICK r \in Responses : replied' = Append(replied, r) /\ back' = back \o EncodeResponse(r)
  <2>1. input \in Seq(Cells) /\ Len(input) >= 1 /\ Len(input) >= Prefix + input[1]
    BY DEF FramingInv, ProcessFrame, WholeFrame, Prefix
  <2>2. DecodeRequest(SubSeq(input, 1, Prefix + input[1])) \in RequestResults
    BY <2>1, CutType, DecodeRequestSafe
  <2>3. Answer(DecodeRequest(SubSeq(input, 1, Prefix + input[1])), p) \in Responses
    BY <2>2, AnswerType
  <2> QED BY <2>3 DEF ProcessFrame
<1>2. results' = results /\ client' = client /\ stranger' = stranger
  BY DEF ProcessFrame
<1>3. OwnReplies
  BY <1>1, <1>2, OwnRepliesBefore
<1>4. PICK n \in Nat : n = Len(replied)
  BY DEF FramingInv
<1>5. Len(replied') = n + 1 /\ replied'[n + 1] = r /\ \A i \in 1..n : replied'[i] = replied[i]
  BY <1>1, <1>4 DEF FramingInv
<1>6. Len(results) <= n /\ Len(results) \in Nat /\ DOMAIN results = 1..Len(results)
      /\ \A i \in DOMAIN results : Received(results[i], replied[i])
  BY <1>3, <1>4 DEF ClientStream, FramingInv
<1>7. \A i \in DOMAIN results : replied'[i] = replied[i]
  BY <1>5, <1>6
<1>8. ResponseFrames' = Append(ResponseFrames, EncodeResponse(r))
  <2>1. PICK F \in Seq(Seq(Cells)), G \in Seq(Seq(Cells)), e \in Seq(Cells) :
          F = ResponseFrames /\ G = ResponseFrames' /\ e = EncodeResponse(r)
    BY FramesType, FramesTypeNext, EncodeResponseType
  <2>2. Len(F) = n /\ \A i \in 1..n : F[i] = EncodeResponse(replied[i])
    BY <1>4, <2>1, FramesType DEF ResponseFrames
  <2>3. G = [i \in 1..(n + 1) |-> EncodeResponse(replied'[i])]
    BY <1>5, <2>1 DEF ResponseFrames
  <2>4. Len(G) = Len(F) + 1 /\ G[Len(F) + 1] = e /\ \A i \in 1..Len(F) : G[i] = F[i]
    BY <1>5, <2>1, <2>2, <2>3
  <2> QED BY <2>1, <2>4, GrownByOne
<1>9. ASSUME client = "open" PROVE IsLaid(back', ResponseFrames', Len(results))
  <2>1. IsLaid(back, ResponseFrames, Len(results))
    BY <1>3, <1>9 DEF ClientStream
  <2>2. PICK z \in Seq(Cells), e \in Seq(Cells), F \in Seq(Seq(Cells)), k \in Nat :
           z = back /\ e = EncodeResponse(r) /\ F = ResponseFrames /\ k = Len(results)
    <3>1. back \in Seq(Cells)
      BY DEF FramingInv
    <3>2. Len(results) \in Nat
      BY DEF FramingInv
    <3> QED BY <3>1, <3>2, EncodeResponseType, FramesType
  <2>3. IsLaid(z \o e, Append(F, e), k)
    BY <2>1, <2>2, LaidAppend
  <2> QED BY <1>1, <1>8, <2>2, <2>3
<1>10. Len(results) <= n + 1
  BY <1>4, <1>6
<1> QED BY <1>2, <1>5, <1>6, <1>7, <1>9, <1>10

\* The frame the client reads is the next response, whole, or it is too large and the
\* client closes.
LEMMA ReceiveFrameClient ==
    ASSUME FramingInv, ClientStream, ReceiveFrame
    PROVE  ClientStream'
<1>1. OwnReplies' = OwnReplies /\ ResponseFrames' = ResponseFrames /\ replied' = replied /\ client = "open"
  BY DEF ReceiveFrame, OwnReplies, ResponseFrames
<1> SUFFICES ASSUME OwnReplies
             PROVE  /\ Len(results') <= Len(replied)
                    /\ \A i \in DOMAIN results' : Received(results'[i], replied[i])
                    /\ client' = "open" => IsLaid(back', ResponseFrames, Len(results'))
  BY <1>1 DEF ClientStream
<1>2. PICK z \in Seq(Cells), F \in Seq(Seq(Cells)) : z = back /\ F = ResponseFrames
  BY FramesType DEF FramingInv
<1>3. PICK k \in Nat : k = Len(results)
  BY DEF FramingInv
<1>4. /\ IsLaid(z, F, k) /\ k <= Len(replied)
      /\ \A i \in DOMAIN results : Received(results[i], replied[i])
  BY <1>1, <1>2, <1>3 DEF ClientStream
<1>5. Len(z) >= 1 /\ Len(z) \in Nat
  BY <1>2 DEF ReceiveFrame, Prefix
<1>6. k + 1 \in 1..Len(F) /\ (Len(F[k + 1]) >= 1 => z[1] = F[k + 1][1])
  BY <1>4, <1>5, LaidFront
<1>7. Len(F) = Len(replied) /\ F[k + 1] = EncodeResponse(replied[k + 1]) /\ replied[k + 1] \in Responses
      /\ Prefix + HeaderSize + Len(replied[k + 1].payload) < Word
  <2>1. Len(F) = Len(replied)
    BY <1>2, FramesType
  <2>2. k + 1 \in DOMAIN replied /\ k + 1 \in 1..Len(replied) /\ replied[k + 1] \in Responses
    BY <1>6, <2>1 DEF FramingInv
  <2>3. Prefix + HeaderSize + Len(replied[k + 1].payload) < Word
    BY <2>2 DEF OwnReplies
  <2> QED BY <1>2, <2>1, <2>2, <2>3 DEF ResponseFrames
<1>8. PICK f \in Seq(Cells) : f = F[k + 1]
  BY <1>6
<1>9. Len(f) >= 2 /\ f[1] = Len(f) - Prefix /\ DecodeResponse(f) = DecodedResponse(replied[k + 1])
  BY <1>7, <1>8, ResponseRoundTrip
<1>10. Len(f) \in Nat /\ z[1] = Len(f) - 1 /\ Prefix + z[1] = Len(f)
  <2>1. Len(f) \in Nat
    OBVIOUS
  <2>2. z[1] = Len(f) - 1
    BY <1>6, <1>8, <1>9, <2>1 DEF Prefix
  <2> QED BY <2>1, <2>2 DEF Prefix
<1>11. f = EncodeResponse(replied[k + 1])
  BY <1>7, <1>8
<1>12. PICK d : results' = Append(results, d) /\ Received(d, replied[k + 1])
  <2>1. CASE BadLength(z[1])
    <3>1. Len(f) - Prefix > MaxFrame
      BY <1>9, <1>10, <2>1, WordAssumption DEF BadLength, Prefix
    <3>2. results' = Append(results, Invalid)
      BY <1>2, <2>1 DEF ReceiveFrame
    <3> QED BY <1>11, <3>1, <3>2 DEF Received
  <2>2. CASE ~BadLength(z[1])
    <3>1. ~(Len(f) - Prefix > MaxFrame)
      BY <1>9, <1>10, <2>2, WordAssumption DEF BadLength, Prefix
    <3>2. results' = Append(results, DecodeResponse(SubSeq(z, 1, Len(f)))) /\ Len(z) >= Len(f)
      BY <1>2, <1>10, <2>2 DEF ReceiveFrame
    <3>3. SubSeq(z, 1, Len(f)) = f
      <4>1. Len(f) <= Len(z)
        BY <1>5, <1>10, <3>2
      <4> QED BY <1>4, <1>6, <1>8, <4>1, LaidCut
    <3> QED BY <1>9, <1>11, <3>1, <3>2, <3>3 DEF Received
  <2> QED BY <2>1, <2>2
<1>13. Len(results') = k + 1 /\ DOMAIN results' = 1..(k + 1) /\ results'[k + 1] = d
       /\ DOMAIN results = 1..k /\ \A i \in 1..k : results'[i] = results[i]
  BY <1>3, <1>12 DEF FramingInv
<1>14. \A i \in 1..(k + 1) : Received(results'[i], replied[i])
  <2> SUFFICES ASSUME NEW i \in 1..(k + 1) PROVE Received(results'[i], replied[i])
    OBVIOUS
  <2>1. CASE i = k + 1
    BY <2>1, <1>12, <1>13
  <2>2. CASE i \in 1..k
    BY <2>2, <1>4, <1>13
  <2> QED BY <2>1, <2>2
<1>15. ASSUME client' = "open" PROVE IsLaid(back', ResponseFrames, k + 1)
  <2>1. ~BadLength(z[1])
    BY <1>2, <1>15 DEF ReceiveFrame
  <2>2. back' = SubSeq(z, Len(f) + 1, Len(z)) /\ Len(z) >= Len(f)
    BY <1>2, <1>10, <2>1 DEF ReceiveFrame
  <2>3. Len(f) <= Len(z)
    BY <1>5, <1>10, <2>2
  <2>4. IsLaid(SubSeq(z, Len(f) + 1, Len(z)), F, k + 1)
    BY <1>4, <1>6, <1>8, <2>3, LaidCut
  <2> QED BY <1>2, <2>2, <2>4
<1>16. k + 1 <= Len(replied)
  BY <1>6, <1>7
<1> QED BY <1>13, <1>14, <1>15, <1>16

\* Nothing was sent and nothing is on its way.
LEMMA StreamsInit == Init => ServerStream /\ ClientStream
<1> SUFFICES ASSUME Init PROVE ServerStream /\ ClientStream
  OBVIOUS
<1>1. RequestFrames = <<>> /\ ResponseFrames = <<>> /\ input \o wire = <<>>
  BY DEF Init, RequestFrames, ResponseFrames
<1>2. Len(handled) = 0 /\ Len(results) = 0 /\ Len(sent) = 0 /\ Len(replied) = 0 /\ back = <<>>
      /\ DOMAIN handled = {} /\ DOMAIN results = {}
  BY DEF Init
<1>3. ServerStream
  BY <1>1, <1>2, LaidEmpty DEF ServerStream
<1>4. ClientStream
  BY <1>1, <1>2, LaidEmpty DEF ClientStream
<1> QED BY <1>3, <1>4

\* Every step keeps both streams.
LEMMA StreamsStep ==
    FramingInv /\ FramingInv' /\ ServerStream /\ ClientStream /\ [Next]_vars => ServerStream' /\ ClientStream'
<1> SUFFICES ASSUME FramingInv, FramingInv', ServerStream, ClientStream, [Next]_vars
             PROVE  ServerStream' /\ ClientStream'
  OBVIOUS
<1>1. CASE UNCHANGED vars
  BY <1>1, ServerKept, ClientKept DEF vars
<1>2. ASSUME NEW r \in Requests, Send(r) PROVE ServerStream' /\ ClientStream'
  BY <1>2, SendServer, ClientKept DEF Send
<1>3. ASSUME NEW s \in Strange, StrangerSends(s) PROVE ServerStream' /\ ClientStream'
  BY <1>3 DEF StrangerSends, ServerStream, ClientStream, Own, OwnReplies
<1>4. ASSUME NEW n \in Arrivals, Recv(n) PROVE ServerStream' /\ ClientStream'
  BY <1>4, RecvServer, ClientKept DEF Recv
<1>5. ASSUME NEW p \in Payloads, ProcessFrame(p) PROVE ServerStream' /\ ClientStream'
  BY <1>5, ProcessFrameServer, ProcessFrameClient
<1>6. CASE ProcessBadLength
  <2>1. ClientStream'
    BY <1>6, ClientKept DEF ProcessBadLength
  <2>2. Own' = Own /\ UNCHANGED <<sent, handled>> /\ server' = "closed"
    BY <1>6 DEF ProcessBadLength, Own
  <2> QED BY <2>1, <2>2 DEF ServerStream
<1>7. CASE ProcessWaits
  BY <1>7, ServerKept, ClientKept DEF ProcessWaits
<1>8. CASE ReceiveFrame
  BY <1>8, ServerKept, ReceiveFrameClient DEF ReceiveFrame
<1>9. CASE ClientCloses
  BY <1>9, ServerKept, ClientKept DEF ClientCloses
<1>10. CASE RecvEof
  <2>1. ClientStream'
    BY <1>10, ClientKept DEF RecvEof
  <2>2. Own' = Own /\ UNCHANGED <<sent, handled>> /\ server' = "closed"
    BY <1>10 DEF RecvEof, Own
  <2> QED BY <2>1, <2>2 DEF ServerStream
<1>11. CASE Over
  BY <1>1, <1>11 DEF Over
<1> QED BY <1>1, <1>2, <1>3, <1>4, <1>5, <1>6, <1>7, <1>8, <1>9, <1>10, <1>11 DEF Next

\* However the bytes are cut into reads, the server decodes the requests that were sent,
\* whole, in order and each once, and the client the responses (or kInvalidPacket for one
\* too large), as long as nobody else writes and no length is cut to 32 bits.
THEOREM MessagesArriveIntact == Spec => []MessagesIntact
<1>1. ServerStream /\ ClientStream => MessagesIntact
  BY DEF ServerStream, ClientStream, MessagesIntact, Received
<1> QED BY <1>1, FramingInit, FramingStep, StreamsInit, StreamsStep, PTL DEF Spec

=============================================================================
