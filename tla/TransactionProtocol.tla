------------------------ MODULE TransactionProtocol ------------------------
(***************************************************************************)
(* The packets of transactions, transaction_protocol.c: a header, and the  *)
(* type of a response or the object of a request.                          *)
(*                                                                         *)
(* An object is its type and the values of its fields, in the order in     *)
(* which they are packed.  Each of the functions that pack and unpack an   *)
(* object handles one field after the other: it is given by the kinds of   *)
(* the fields, for packing and for unpacking apart.                        *)
(***************************************************************************)
EXTENDS Protocol

TransactionTypeRequest == 1
TransactionTypeResponse == 2
TransactionResponseTypeSuccess == 2

transactionProtocolPackHeader(s, id, type) ==
  bitstream_write_uint8(
    bitstream_write_uint8(protocolPackHeader(s, ProtocolTypeTransaction), id), type)

\* What the stream's reads stored is listed in out.
transactionProtocolUnpackHeader(s) ==
  LET header == protocolUnpackHeader(s, ProtocolTypeTransaction)
      id == bitstream_read_uint8(header.stream)
      type == bitstream_read_uint8(id)
  IN  IF header.result = "Valid"
      THEN [stream |-> type, result |-> "Valid", out |-> <<id.val, type.val>>]
      ELSE [stream |-> header.stream, result |-> "Invalid", out |-> << >>]

transactionProtocolPackResponse(s, type) == bitstream_write_uint8(s, type)
transactionProtocolUnpackResponse(s) == Valid(bitstream_read_uint8(s))

-----------------------------------------------------------------------------
(* Attributes: type, length, value *)

TransactionAttributeTypeString == 1
TransactionAttributeTypeAddress == 2
TransactionAttributeTypeSeconds == 3
TransactionAttributeTypeCount == 4
kTransactionAttributeLengthAddress == 8
kTransactionAttributeLengthSeconds == 4
kTransactionAttributeLengthCount == 2

PackTypeLength(s, type, length) ==
  bitstream_write_uint8(bitstream_write_uint8(s, type), length)

\* An attribute of a fixed length, which must be the one announced
UnpackFixed(s, type, length, Read(_)) ==
  LET t == bitstream_read_uint8(s)
      l == bitstream_read_uint8(t)
  IN  IF t.val # type THEN Invalid(t)
      ELSE IF l.val # length THEN Invalid(l)
      ELSE Valid(Read(l))

transactionProtocolPackAttributeString(s, string) ==
  bitstream_write_str(
    PackTypeLength(s, TransactionAttributeTypeString, 2 + Len(string)), string)

\* The length is not looked at, and neither is the result of the read.
transactionProtocolUnpackAttributeString(s, max) ==
  LET type == bitstream_read_uint8(s)
  IN  IF type.val # TransactionAttributeTypeString THEN Invalid(type)
      ELSE Valid(bitstream_read_str(bitstream_read_uint8(type), max))

transactionProtocolPackAttributeAddress(s, addr) ==
  bitstream_write_uint32_endian(
    bitstream_write_uint16_endian(
      PackTypeLength(s, TransactionAttributeTypeAddress,
                     kTransactionAttributeLengthAddress),
      Number(s, addr.port)),
    Number(s, addr.host))

ReadAddress(s) ==
  LET port == bitstream_read_uint16_endian(s)
      host == bitstream_read_uint32_endian(port)
  IN  [host EXCEPT !.val = net_addr_set(s, host.val, port.val, FALSE)]

transactionProtocolUnpackAttributeAddress(s) ==
  UnpackFixed(s, TransactionAttributeTypeAddress, kTransactionAttributeLengthAddress,
              ReadAddress)

transactionProtocolPackAttributeSeconds(s, seconds) ==
  bitstream_write_uint32(
    PackTypeLength(s, TransactionAttributeTypeSeconds,
                   kTransactionAttributeLengthSeconds), seconds)

transactionProtocolUnpackAttributeSeconds(s) ==
  UnpackFixed(s, TransactionAttributeTypeSeconds, kTransactionAttributeLengthSeconds,
              bitstream_read_uint32)

transactionProtocolPackAttributeCount(s, count) ==
  bitstream_write_uint16(
    PackTypeLength(s, TransactionAttributeTypeCount, kTransactionAttributeLengthCount),
    count)

transactionProtocolUnpackAttributeCount(s) ==
  UnpackFixed(s, TransactionAttributeTypeCount, kTransactionAttributeLengthCount,
              bitstream_read_uint16)

-----------------------------------------------------------------------------
(* Fields of objects *)

kUniversalUserNameMaxLength == 40
kUniversalUserEmailMaxLength == 40
kUniversalPeerIdMaxLength == 32
kUniversalResourceDataMaxLength == 128

\* A resource's data: its length and its bytes
PackData(s, data) == bitstream_write_bytes(bitstream_write_uint8(s, Len(data)), data)

UnpackData(s) ==
  LET length == bitstream_read_uint8(s)
      data == bitstream_read_bytes(length, length.val)
  IN  IF data.val = Unset THEN Invalid(data) ELSE Valid(data)

PackField(s, kind, value) ==
  CASE kind = "uint64" -> bitstream_write_uint64(s, value)
    [] kind = "data" -> PackData(s, value)
    [] kind = "string" -> transactionProtocolPackAttributeString(s, value)
    [] kind = "address" -> transactionProtocolPackAttributeAddress(s, value)
    [] kind = "seconds" -> transactionProtocolPackAttributeSeconds(s, value)
    [] kind = "count" -> transactionProtocolPackAttributeCount(s, value)

UnpackField(s, kind) ==
  CASE kind = "uint64" -> Valid(bitstream_read_uint64(s))
    [] kind = "data" -> UnpackData(s)
    [] kind = "name" ->
         transactionProtocolUnpackAttributeString(s, kUniversalUserNameMaxLength)
    [] kind = "email" ->
         transactionProtocolUnpackAttributeString(s, kUniversalUserEmailMaxLength)
    [] kind = "peerId" ->
         transactionProtocolUnpackAttributeString(s, kUniversalPeerIdMaxLength)
    [] kind = "address" -> transactionProtocolUnpackAttributeAddress(s)
    [] kind = "seconds" -> transactionProtocolUnpackAttributeSeconds(s)
    [] kind = "count" -> transactionProtocolUnpackAttributeCount(s)

\* The fields one after the other; a field that does not fit is left out.
PackFields(s, kinds, values) ==
  LET after[k \in 0..Len(kinds)] ==
        IF k = 0 THEN s ELSE PackField(after[k - 1], kinds[k], values[k])
  IN  after[Len(kinds)]

\* The result of each field replaces the one of the field before.
UnpackFields(reader, kinds) ==
  LET after[k \in 0..Len(kinds)] ==
        IF k = 0 THEN reader
        ELSE LET r == after[k - 1]
                 field == UnpackField(r.stream, kinds[k])
             IN  [stream |-> field.stream, result |-> field.result,
                  out |-> Append(r.out, field.stream.val)]
  IN  after[Len(kinds)]

-----------------------------------------------------------------------------
(* Objects: TransactionProtocolPackObject... and ...UnpackObject... *)

UserCreate ==
  [type |-> \h50,
   pack |-> <<"uint64", "string", "string">>, unpack |-> <<"uint64", "name", "email">>]

ResourceCreate ==
  [type |-> \h70,
   pack |-> <<"uint64", "uint64", "data">>, unpack |-> <<"uint64", "uint64", "data">>]

Online ==
  [type |-> \h91,
   pack |-> <<"uint64", "address", "address", "seconds">>,
   unpack |-> <<"uint64", "address", "address", "seconds">>]

Offline == [type |-> \h92, pack |-> <<"string">>, unpack |-> <<"peerId">>]

Connect ==
  [type |-> \hC0, pack |-> <<"string", "address">>, unpack |-> <<"peerId", "address">>]

ConnectAccept ==
  [type |-> \hC1, pack |-> <<"string", "address">>, unpack |-> <<"peerId", "address">>]

ConnectRefuse == [type |-> \hC2, pack |-> <<"string">>, unpack |-> <<"peerId">>]

Disconnect == [type |-> \hC3, pack |-> <<"string">>, unpack |-> <<"peerId">>]

FixedObject ==
  {UserCreate, ResourceCreate, Online, Offline, Connect, ConnectAccept, ConnectRefuse,
   Disconnect}

TransactionPeerList == \h93
TransactionEmpty == 1

\* A peer list is built peer by peer: its fields are the count, then the id
\* and the two addresses of each peer.
transactionProtocolInitializeObjectPeerList == [type |-> TransactionPeerList, fields |-> <<0>>]

transactionProtocolAddPeerToObjectPeerList(object, peer) ==
  [object EXCEPT !.fields = [@ EXCEPT ![1] = @ + 1]
                              \o <<peer.peerId, peer.localAddress, peer.mappedAddress>>]

Repeat(kinds, n) == [i \in 1..(n * Len(kinds)) |-> kinds[((i - 1) % Len(kinds)) + 1]]

transactionProtocolPackObjectPeerList(s, object) ==
  PackFields(s, <<"count">> \o Repeat(<<"string", "address", "address">>, object.fields[1]),
             object.fields)

\* The loop runs as often as the count says; the object was zero before
\* (transactionDidReceiveRequest).
transactionProtocolUnpackObjectPeerList(reader) ==
  LET count == UnpackFields(reader, <<"count">>)
      n == IF count.result = "Valid" THEN Last(count.out) ELSE 0
  IN  UnpackFields(count, Repeat(<<"peerId", "address", "address">>, n))

-----------------------------------------------------------------------------
transactionProtocolPackRequest(s, object) ==
  LET t == bitstream_write_uint8(s, object.type)
      known == {f \in FixedObject : f.type = object.type}
  IN  IF object.type = TransactionPeerList
      THEN transactionProtocolPackObjectPeerList(t, object)
      ELSE IF known = {} THEN t
      ELSE PackFields(t, (CHOOSE f \in known : TRUE).pack, object.fields)

transactionProtocolUnpackRequest(s) ==
  LET t == bitstream_read_uint8(s)
      reader == [stream |-> t, result |-> "Valid", out |-> <<t.val>>]
      known == {f \in FixedObject : f.type = t.val}
  IN  IF t.val = TransactionPeerList THEN transactionProtocolUnpackObjectPeerList(reader)
      ELSE IF t.val = TransactionEmpty THEN reader
      ELSE IF known = {} THEN [reader EXCEPT !.result = "Unexpected"]
      ELSE UnpackFields(reader, (CHOOSE f \in known : TRUE).unpack)
=============================================================================
