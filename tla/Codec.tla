-------------------------------- MODULE Codec --------------------------------
(***************************************************************************)
(* A packet on its way: packed by one host, received by another into a     *)
(* packet of its pool that still holds the bytes of earlier datagrams, and *)
(* unpacked by the callback of that socket.  Both hosts have the same byte *)
(* order.                                                                  *)
(*                                                                         *)
(* Three callbacks read packets: the transaction agent's, the stream       *)
(* session's, and, while the STUN client has the socket, the receive block *)
(* of a test, which forwards what is not a binding response to the         *)
(* transaction agent's.                                                    *)
(*                                                                         *)
(* A message is what a packet was packed from: a request with its object,  *)
(* a response, a stream's update, a binding request with or without the    *)
(* change attribute, or numbers the application packs itself.              *)
(***************************************************************************)
EXTENDS TransactionProtocol, StreamProtocol, StunProtocol

CONSTANTS
  Message,     \* messages the hosts send
  Attributes,  \* sequences of attributes the STUN server may answer with
  Past,        \* bytes that may lie behind a packet in memory
  MaxRounds    \* bound on the packets received

VARIABLES
  little,   \* the hosts are little-endian
  wire,     \* the datagram on its way, or Unset
  sent,     \* the message it was packed from
  memory,   \* the receiving packet's bytes
  got,      \* what the last unpack made of it
  rounds

vars == <<little, wire, sent, memory, got, rounds>>

Zeros(n) == [i \in 1..n |-> 0]
Word(n) == [1..n -> Byte]
Uint16 == {n \in Nat : n < 65536}

-----------------------------------------------------------------------------
(* What the hosts and the server may send *)

IsText(value, max) == value \in Seq(Byte) /\ Len(value) < max

\* A field holds what the member of its struct can: a string is shorter than
\* its array.
IsField(kind, value) ==
  CASE kind = "uint64" -> value \in Word(8)
    [] kind = "data" -> IsText(value, kUniversalResourceDataMaxLength + 1)
    [] kind = "name" -> IsText(value, kUniversalUserNameMaxLength)
    [] kind = "email" -> IsText(value, kUniversalUserEmailMaxLength)
    [] kind = "peerId" -> IsText(value, kUniversalPeerIdMaxLength)
    [] kind = "address" -> value \in Address
    [] kind = "seconds" -> value \in Word(4)
    [] kind = "count" -> value \in Uint16

\* The fields of an object, as they are unpacked.  Objects of a type that has
\* no pack function have none.
Kinds(object) ==
  LET known == {f \in FixedObject : f.type = object.type}
  IN  IF object.type = TransactionPeerList
      THEN <<"count">> \o Repeat(<<"peerId", "address", "address">>, object.fields[1])
      ELSE IF known = {} THEN << >>
      ELSE (CHOOSE f \in known : TRUE).unpack

IsObject(object) ==
  /\ object.type \in Byte
  /\ object.type = TransactionPeerList => object.fields[1] \in Uint16
  /\ object.fields = [i \in 1..Len(Kinds(object)) |-> object.fields[i]]
  /\ \A i \in 1..Len(Kinds(object)) : IsField(Kinds(object)[i], object.fields[i])

IsMessage(m) ==
  \/ m.kind = "request" /\ m.id \in Byte /\ IsObject(m.object)
  \/ m.kind = "response" /\ m.id \in Byte /\ m.type \in Byte
  \/ /\ m.kind = "stream" /\ {m.sequence, m.ack, m.ackBits} \subseteq Word(4)
     /\ m.tag \in Word(8) /\ m.parts \in Seq(Seq(Byte))
  \/ /\ m.kind \in {"binding", "change"} /\ m.transactionId \in Word(kStunTransactionIdLen)
     /\ m.host \in BOOLEAN /\ m.port \in BOOLEAN
  \/ /\ m.kind = "numbers" /\ m.word \in Word(4)
     /\ m.float \in [negative : BOOLEAN, whole : Byte, fraction : Uint16]
     /\ m.float.fraction < 65408

\* An error has no reason phrase, and the bits that are reserved are zero.
IsAttribute(a) ==
  /\ a.type \in Uint16
  /\ CASE ResponseField(a.type) = "none" -> IsText(a.value, 65536)
       [] ResponseField(a.type) = "error" ->
            a.value \in Word(4) /\ a.value[1] = 0 /\ a.value[2] = 0
       [] OTHER -> a.value \in Address

\* Bytes packed so far
Packed(s) == SubSeq(s.data, 1, s.offset)

-----------------------------------------------------------------------------
(* Packing *)

\* A number is filled in before a float that was written first.
PackNumbers(s, m) ==
  LET snapshot == bitstream_snapshot(s)
      float == bitstream_write_float32(bitstream_skip_bytes(s, 4), m.float)
      back == bitstream_rollback(float, snapshot)
      word == bitstream_write_uint32(back.stream, m.word)
  IN  bitstream_rollover(word, back.snapshot).stream

\* An update: the data is copied into the object part by part.
UpdateObject(m) ==
  LET after[k \in 0..Len(m.parts)] ==
        IF k = 0 THEN [streamObjectSetup EXCEPT !.tag = m.tag]
        ELSE streamObjectCopyData(after[k - 1], m.parts[k])
  IN  after[Len(m.parts)]

PackStream(s, m) ==
  streamProtocolPackData(
    streamProtocolPackHeader(s, m.sequence, m.ack, m.ackBits), UpdateObject(m))

\* transactionRequest, transactionResponse, streamSend and the STUN tests
Pack(s, m) ==
  CASE m.kind = "request" ->
         transactionProtocolPackRequest(
           transactionProtocolPackHeader(s, m.id, TransactionTypeRequest), m.object)
    [] m.kind = "response" ->
         transactionProtocolPackResponse(
           transactionProtocolPackHeader(s, m.id, TransactionTypeResponse), m.type)
    [] m.kind = "stream" -> PackStream(s, m)
    [] m.kind = "binding" -> stunProtocolPackBindingRequest(s, m.transactionId)
    [] m.kind = "change" ->
         stunProtocolPackBindingChangeRequest(s, m.transactionId, m.host, m.port)
    [] m.kind = "numbers" -> PackNumbers(s, m)

\* The same in a memory that is large enough
PackedWhole(m) ==
  Packed(Pack(bitstream_create(Zeros(4 * kNetPacketMaxLen), 4 * kNetPacketMaxLen, little, 0), m))

-----------------------------------------------------------------------------
(* The STUN server reads requests and writes answers in network byte order. *)

\* What the server reads in a request: the type, the length of the body, the
\* cookie and the flags of the change attribute
ServerReads(bytes) ==
  [type |-> Number16(SubSeq(bytes, 1, 2)), length |-> Number16(SubSeq(bytes, 3, 4)),
   cookie |-> SubSeq(bytes, 5, 8), body |-> Len(bytes) - 20,
   flags |-> IF Len(bytes) > 20 THEN SubSeq(bytes, 21, Len(bytes)) ELSE << >>]

AttributeBytes(a) ==
  LET Family == Bytes16(StunAddrFamilyIPv4)
      value == CASE a.type = StunAttributeErrorCode -> a.value
                 [] a.type = StunAttributeXorMappedAddress ->
                      Family \o XorBytes(a.value.port, kStunProtocolMagicCookie)
                        \o XorBytes(a.value.host, kStunProtocolMagicCookie)
                 [] ResponseField(a.type) = "none" -> a.value
                 [] OTHER -> Family \o a.value.port \o a.value.host
  IN  Bytes16(a.type) \o Bytes16(Len(value)) \o value

\* The body up to each of the attributes
AnswerBody(attributes) ==
  LET upTo[k \in 0..Len(attributes)] ==
        IF k = 0 THEN << >> ELSE upTo[k - 1] \o AttributeBytes(attributes[k])
  IN  upTo[Len(attributes)]

AnswerBytes(id, attributes) ==
  LET body == AnswerBody(attributes)
      class == IF \E i \in DOMAIN attributes : attributes[i].type = StunAttributeErrorCode
               THEN \h0111 ELSE \h0101
  IN  Bytes16(class) \o Bytes16(Len(body)) \o kStunProtocolMagicCookie \o id \o body

-----------------------------------------------------------------------------
\* The longest object of a fixed length is that of a resource: with the
\* headers it takes 151 bytes.
ASSUME RoomAssumption == kNetPacketMaxLen \in Nat /\ 151 <= kNetPacketMaxLen /\ kNetPacketMaxLen < 65536

ASSUME MessageAssumption == \A m \in Message : IsMessage(m)

\* A server's answer fits in a packet.
ASSUME AttributesAssumption ==
  \A attributes \in Attributes :
    /\ attributes = [i \in 1..Len(attributes) |-> attributes[i]]
    /\ Len(attributes) \in Nat
    /\ \A i \in 1..Len(attributes) : IsAttribute(attributes[i])
    /\ 20 + Len(AnswerBody(attributes)) <= kNetPacketMaxLen

ASSUME PastAssumption == Past \subseteq Byte

-----------------------------------------------------------------------------
(* Unpacking: which protocol took the packet, its result and its values *)

Got(by, stream, result, out) ==
  [by |-> by, result |-> result, out |-> out, offset |-> stream.offset]
Refused(r) == Got("none", r.stream, r.result, << >>)

\* The blocks of transactionDidReceiveResponse and ...Request unpack the rest.
GotResponse(header, r) ==
  Got("transaction", r.stream, r.result, Append(header.out, r.stream.val))
GotRequest(header, r) == Got("transaction", r.stream, r.result, header.out \o r.out)

\* transactionSocketReceiveCallback
TransactionReceive(s) ==
  LET header == transactionProtocolUnpackHeader(s)
  IN  IF header.result # "Valid" THEN Refused(header)
      ELSE IF header.out[2] = TransactionTypeResponse
      THEN GotResponse(header, transactionProtocolUnpackResponse(header.stream))
      ELSE IF header.out[2] = TransactionTypeRequest
      THEN GotRequest(header, transactionProtocolUnpackRequest(header.stream))
      ELSE Refused(header)

\* streamSocketReceiveCallback
StreamReceive(s) ==
  LET header == streamProtocolUnpackHeader(s)
      data == streamProtocolUnpackData(header.stream)
  IN  IF header.result # "Valid" THEN Refused(header)
      ELSE Got("stream", data.stream, data.result, header.out \o data.out)

\* Mutant: the stream is not reset for the other protocol.
StunReceive_slip(s) ==
  LET response == stunProtocolUnpackBindingResponse(s)
  IN  IF response.result = "Valid" THEN Got("stun", response.stream, "Valid", response.out)
      ELSE TransactionReceive(response.stream)

\* The receive block of a test, and stunTestForward
StunReceive(s) ==
  LET response == stunProtocolUnpackBindingResponse(s)
  IN  IF response.result = "Valid" THEN Got("stun", response.stream, "Valid", response.out)
      ELSE TransactionReceive(bitstream_reset(response.stream))

ApplicationReceive(s) ==
  LET word == bitstream_read_uint32(s)
      float == bitstream_read_float32(word)
  IN  Got("application", float, "Valid", <<word.val, float.val>>)

Unpack(s, callback) ==
  CASE callback = "transaction" -> TransactionReceive(s)
    [] callback = "stream" -> StreamReceive(s)
    [] callback = "stun" -> StunReceive(s)
    [] callback = "application" -> ApplicationReceive(s)

-----------------------------------------------------------------------------
NoMessage == [kind |-> "none"]
NotYet == [by |-> "nobody"]

Init ==
  /\ little \in BOOLEAN
  /\ wire = Unset /\ sent = NoMessage
  /\ memory = Zeros(kNetPacketMaxLen)
  /\ got = NotYet
  /\ rounds = 0

\* net_socket_send: the packet is as long as the stream's offset.  A STUN
\* server is talked to in network byte order only.
Send(m) ==
  /\ wire = Unset /\ rounds < MaxRounds
  /\ m.kind \in {"binding", "change"} => little
  /\ wire' = Packed(Pack(net_packet_init(Zeros(kNetPacketMaxLen), little, 0), m))
  /\ sent' = m
  /\ got' = NotYet
  /\ UNCHANGED <<little, memory, rounds>>

\* The server answers with the id of the request.
ServerAnswers(attributes) ==
  /\ wire # Unset /\ sent.kind \in {"binding", "change"}
  /\ wire' = AnswerBytes(SubSeq(wire, 9, 20), attributes)
  /\ sent' = [kind |-> "answer", transactionId |-> sent.transactionId,
              attributes |-> attributes]
  /\ UNCHANGED <<little, memory, got, rounds>>

\* What a callback made of a datagram
Taken(callback, length, read) ==
  [callback |-> callback, length |-> length, by |-> read.by, result |-> read.result,
   out |-> read.out, offset |-> read.offset]

\* recvfrom into the packet, which takes no more than fits, then the socket's
\* callback
Receive(callback, past) ==
  /\ wire # Unset /\ sent.kind \notin {"binding", "change"}
  /\ memory' = [i \in 1..kNetPacketMaxLen |-> IF i <= Len(wire) THEN wire[i] ELSE memory[i]]
  /\ got' = Taken(callback, Len(wire), Unpack(net_packet_init(memory', little, past), callback))
  /\ wire' = Unset
  /\ rounds' = rounds + 1
  /\ UNCHANGED <<little, sent>>

Next ==
  \/ \E m \in Message : Send(m)
  \/ \E attributes \in Attributes : ServerAnswers(attributes)
  \/ \E callback \in {"transaction", "stream", "stun"}, past \in Past :
       sent.kind # "numbers" /\ Receive(callback, past)
  \/ sent.kind = "numbers" /\ Receive("application", 0)

Spec == Init /\ [][Next]_vars

-----------------------------------------------------------------------------
IsPeerList(m) == m.kind = "request" /\ m.object.type = TransactionPeerList

\* A message is packed whole: a field that does not fit is left out without
\* a word, and of all the objects only a list of peers can be too long for a
\* packet.  An update's data in particular, which is cut off at
\* kStreamObjectDataMaxLength, fits to the last byte.
PackedOrPeerList ==
  wire # Unset /\ sent.kind # "answer" =>
    /\ IsPeerList(sent) \/ wire = PackedWhole(sent)
    /\ Len(wire) <= kNetPacketMaxLen

\* The value of a field: of its last attribute.  The code of an error comes
\* out as 0 (see the README); that there is one is what the tests look at.
Stands(attributes, field) ==
  LET at == {i \in DOMAIN attributes : ResponseField(attributes[i].type) = field}
  IN  IF at = {} THEN Unset
      ELSE IF field = "error" THEN 0
      ELSE attributes[Max(at)].value

\* What the receiver is to make of a message
Expected(m) ==
  CASE m.kind = "request" ->
         [by |-> "transaction",
          result |-> IF m.object.type \in {f.type : f \in FixedObject}
                                            \cup {TransactionPeerList, TransactionEmpty}
                     THEN "Valid" ELSE "Unexpected",
          out |-> <<m.id, TransactionTypeRequest, m.object.type>> \o m.object.fields]
    [] m.kind = "response" ->
         [by |-> "transaction", result |-> "Valid",
          out |-> <<m.id, TransactionTypeResponse, m.type>>]
    [] m.kind = "stream" ->
         [by |-> "stream", result |-> "Valid",
          out |-> <<m.sequence, m.ack, m.ackBits, m.tag, UpdateObject(m).data>>]
    [] m.kind = "answer" ->
         [by |-> "stun", result |-> "Valid",
          out |-> <<m.transactionId,
                    [f \in DOMAIN NoBindingResponse |-> Stands(m.attributes, f)]>>]
    [] m.kind = "numbers" ->
         [by |-> "application", result |-> "Valid", out |-> <<m.word, m.float>>]

\* The callbacks that are to understand a message
Readers(m) ==
  CASE m.kind \in {"request", "response"} -> {"transaction", "stun"}
    [] m.kind = "stream" -> {"stream"}
    [] m.kind = "answer" -> IF m.attributes = << >> THEN {} ELSE {"stun"}
    [] m.kind = "numbers" -> {"application"}

\* A message that fits in a packet comes out as it went in: every field has
\* its value, whatever the packet of the receiver held before, and exactly
\* the bytes of the datagram were read.  This also holds for transactions
\* that a STUN test finds on its socket and forwards.
RoundTrip ==
  /\ got # NotYet
  /\ got.callback \in Readers(sent)
  /\ IsPeerList(sent) => Len(PackedWhole(sent)) <= kNetPacketMaxLen
  => /\ \A f \in {"by", "result", "out"} : got[f] = Expected(sent)[f]
     /\ got.offset = got.length

\* No callback takes a packet of another protocol for one of its own.
OwnProtocolOnly ==
  got # NotYet /\ got.callback \notin Readers(sent) => got.by = "none"

\* The STUN server finds what RFC 5389 and RFC 5780 ask for in a request.
ServerUnderstands ==
  wire # Unset /\ sent.kind \in {"binding", "change"} =>
    LET request == ServerReads(wire)
        flags == (IF sent.host THEN 4 ELSE 0) + (IF sent.port THEN 2 ELSE 0)
    IN  /\ request.type = StunMsgTypeBinding
        /\ request.cookie = kStunProtocolMagicCookie
        /\ request.length = request.body
        /\ sent.kind = "change" =>
             request.flags = Bytes16(StunAttributeChangeRequest) \o <<0, 4, 0, 0, 0, flags>>
=============================================================================
