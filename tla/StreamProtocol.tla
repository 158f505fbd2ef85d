--------------------------- MODULE StreamProtocol ---------------------------
(***************************************************************************)
(* The packets of streams, stream_protocol.c: a header with the sequence   *)
(* and the acknowledgements, and the data of one update.                   *)
(***************************************************************************)
EXTENDS Protocol

\* Mutant: the bytes of the protocol header are not counted.
kStreamObjectDataMaxLength_slip == kNetPacketMaxLen - 22

kStreamObjectDataMaxLength == kProtocolMaxLength - 22

streamObjectSetup == [data |-> << >>, tag |-> [i \in 1..8 |-> 0]]

\* Data that would make the object too long is ignored.
streamObjectCopyData(object, data) ==
  IF Len(object.data) + Len(data) <= kStreamObjectDataMaxLength
  THEN [object EXCEPT !.data = @ \o data]
  ELSE object

streamProtocolPackHeader(s, sequence, ack, ackBitField) ==
  bitstream_write_uint32(
    bitstream_write_uint32(
      bitstream_write_uint32(protocolPackHeader(s, ProtocolTypeStream), sequence), ack),
    ackBitField)

streamProtocolUnpackHeader(s) ==
  LET header == protocolUnpackHeader(s, ProtocolTypeStream)
      sequence == bitstream_read_uint32(header.stream)
      ack == bitstream_read_uint32(sequence)
      ackBitField == bitstream_read_uint32(ack)
  IN  IF header.result = "Valid"
      THEN [stream |-> ackBitField, result |-> "Valid",
            out |-> <<sequence.val, ack.val, ackBitField.val>>]
      ELSE [stream |-> header.stream, result |-> "Invalid", out |-> << >>]

streamProtocolPackData(s, object) ==
  bitstream_write_bytes(
    bitstream_write_uint16(bitstream_write_uint64(s, object.tag), Len(object.data)),
    object.data)

\* The result does not tell whether all of the data was there.
streamProtocolUnpackData(s) ==
  LET tag == bitstream_read_uint64(s)
      length == bitstream_read_uint16(tag)
      data == bitstream_read_bytes(length, length.val)
  IN  [stream |-> data, result |-> "Valid", out |-> <<tag.val, data.val>>]
=============================================================================
