------------------------------ MODULE Protocol ------------------------------
(***************************************************************************)
(* What the protocols of transactions and streams share: the header of     *)
(* protocol.c and the addresses of net_addr.c.                             *)
(***************************************************************************)
EXTENDS Bitstream

CONSTANT kNetPacketMaxLen  \* bytes in a packet

ASSUME PacketAssumption == kNetPacketMaxLen \in Nat

kProtocolMaxLength == kNetPacketMaxLen - 3

\* net_packet_init: the stream covers the packet's memory, whatever the
\* length of the datagram received in it.
net_packet_init(data, little, past) ==
  bitstream_create(data, kNetPacketMaxLen, little, past)

kProtocolDefaultId == \hA2
kProtocolDefaultVersion == 1
ProtocolTypeTransaction == 1
ProtocolTypeStream == 5

\* The result of an unpack function and the stream it leaves.  What an
\* invalid packet was to set is left as it was.
Invalid(s) == [stream |-> [s EXCEPT !.val = Unset], result |-> "Invalid"]
Valid(s) == [stream |-> s, result |-> "Valid"]

protocolPackHeader(s, type) ==
  bitstream_write_uint8(
    bitstream_write_uint8(
      bitstream_write_uint8(s, kProtocolDefaultId), kProtocolDefaultVersion), type)

\* Mutant: the type of the protocol is not compared.
protocolUnpackHeader_slip(s, type) ==
  LET id == bitstream_read_uint8(s)
      version == bitstream_read_uint8(id)
  IN  IF id.val # kProtocolDefaultId THEN Invalid(id)
      ELSE IF version.val # kProtocolDefaultVersion THEN Invalid(version)
      ELSE Valid(bitstream_read_uint8(version))

protocolUnpackHeader(s, type) ==
  LET id == bitstream_read_uint8(s)
      version == bitstream_read_uint8(id)
      read == bitstream_read_uint8(version)
  IN  IF id.val # kProtocolDefaultId THEN Invalid(id)
      ELSE IF version.val # kProtocolDefaultVersion THEN Invalid(version)
      ELSE IF read.val # type THEN Invalid(read)
      ELSE Valid(read)

-----------------------------------------------------------------------------
(* An address keeps port and host in network byte order: their bytes in    *)
(* memory order, the most significant first.  The number a host sees in    *)
(* them is a word.                                                         *)

Address == [port : [1..2 -> Byte], host : [1..4 -> Byte]]

\* The number in memory on the host of stream s, and the memory of a number
Number(s, memory) == ArrayOrder(s, memory)
Memory(s, word) == ArrayOrder(s, word)

net_addr_set(s, host, port, doHostToNetwork) ==
  IF doHostToNetwork THEN [host |-> host, port |-> port]
  ELSE [host |-> Memory(s, host), port |-> Memory(s, port)]

\* ntohl and ntohs
net_addr_get_host(addr) == addr.host
net_addr_get_port(addr) == Number16(addr.port)
=============================================================================
