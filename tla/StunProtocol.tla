---------------------------- MODULE StunProtocol ----------------------------
(***************************************************************************)
(* The packets of the STUN client, stun_protocol.c: binding requests, and  *)
(* the binding responses of a server (RFC 5389).                           *)
(***************************************************************************)
EXTENDS Protocol

kStunProtocolMagicCookie == <<\h21, \h12, \hA4, \h42>>
kStunTransactionIdLen == 12

StunMsgTypeBinding == 1
StunMsgClassRequest == 0
StunMsgClassSuccessResponse == 2
StunMsgClassFailureResponse == 3

StunAttributeMappedAddress == \h0001
StunAttributeXorMappedAddress == \h0020
StunAttributeAlternateServer == \h8023
StunAttributeOtherAddress == \h802C
StunAttributeOriginServer == \h802B
StunAttributeErrorCode == \h0009
StunAttributeChangeRequest == \h0003

StunAddrFamilyIPv4 == 1

-----------------------------------------------------------------------------
(* Header *)

\* A bit field of n: low is the value of its lowest bit, size the number of
\* values it has
Bits(n, low, size) == (n \div low) % size

\* Message type and class in one field: the bits of the class are the bits 8
\* and 4, those of the message type the others.
MergedType(msgType, msgClass) ==
  Bits(msgType, 128, 32) * 512 + Bits(msgClass, 2, 2) * 256 + Bits(msgType, 16, 8) * 32
    + Bits(msgClass, 1, 2) * 16 + Bits(msgType, 1, 16)

SplitType(type) == Bits(type, 512, 32) * 128 + Bits(type, 32, 8) * 16 + Bits(type, 1, 16)
SplitClass(type) == Bits(type, 256, 2) * 2 + Bits(type, 16, 2)

stunProtocolPackHeader(s, msgType, msgClass, transactionId, length) ==
  bitstream_write_bytes(
    bitstream_write_uint32(
      bitstream_write_uint16(
        bitstream_write_uint16(s, MergedType(msgType, msgClass)), length),
      kStunProtocolMagicCookie),
    transactionId)

\* The header's fields: message type, class, length and transaction id
stunProtocolUnpackHeader(s) ==
  LET type == bitstream_read_uint16(s)
      length == bitstream_read_uint16(type)
      cookie == bitstream_read_uint32(length)
      id == bitstream_read_bytes(cookie, kStunTransactionIdLen)
  IN  IF cookie.val # kStunProtocolMagicCookie
      THEN [stream |-> cookie, result |-> "Invalid"]
      ELSE [stream |-> id, result |-> "Valid", msgType |-> SplitType(type.val),
            msgClass |-> SplitClass(type.val), length |-> length.val,
            transactionId |-> id.val]

-----------------------------------------------------------------------------
(* Requests *)

stunProtocolPackAttributeChangeAddr(s, doChangeHost, doChangePort) ==
  bitstream_write_uint32(
    bitstream_write_uint16(bitstream_write_uint16(s, StunAttributeChangeRequest), 4),
    <<0, 0, 0, (IF doChangeHost THEN 4 ELSE 0) + (IF doChangePort THEN 2 ELSE 0)>>)

stunProtocolPackBindingRequest(s, transactionId) ==
  stunProtocolPackHeader(s, StunMsgTypeBinding, StunMsgClassRequest, transactionId, 0)

\* Mutant: the header of the attribute is not counted in the length.
stunProtocolPackBindingChangeRequest_slip(s, transactionId, doChangeHost, doChangePort) ==
  stunProtocolPackAttributeChangeAddr(
    stunProtocolPackHeader(s, StunMsgTypeBinding, StunMsgClassRequest, transactionId, 4),
    doChangeHost, doChangePort)

stunProtocolPackBindingChangeRequest(s, transactionId, doChangeHost, doChangePort) ==
  stunProtocolPackAttributeChangeAddr(
    stunProtocolPackHeader(s, StunMsgTypeBinding, StunMsgClassRequest, transactionId, 8),
    doChangeHost, doChangePort)

-----------------------------------------------------------------------------
(* Responses *)

\* Exclusive or of two bytes, bit by bit
Xor(a, b) ==
  LET Bit(low) == low * ((Bits(a, low, 2) + Bits(b, low, 2)) % 2)
  IN  Bit(1) + Bit(2) + Bit(4) + Bit(8) + Bit(16) + Bit(32) + Bit(64) + Bit(128)

XorBytes(a, b) == [i \in DOMAIN a |-> Xor(a[i], b[i])]

\* Family, port and host; mask is what port and host are xored with
UnpackAddr(s, mask) ==
  LET family == bitstream_read_uint16(s)
      port == ReadWord(family, 2)
      host == bitstream_read_uint32(port)
  IN  IF family.val # StunAddrFamilyIPv4
      THEN [stream |-> [family EXCEPT !.val = Unset], result |-> "Unsupported"]
      ELSE Valid([host EXCEPT !.val = net_addr_set(s, XorBytes(host.val, mask),
                                                   XorBytes(port.val, SubSeq(mask, 1, 2)), TRUE)])

stunProtocolUnpackAttributeAddr(s) == UnpackAddr(s, <<0, 0, 0, 0>>)

stunProtocolUnpackAttributeXorAddr(s) == UnpackAddr(s, kStunProtocolMagicCookie)

\* The upper eleven bits of the word: three of them are taken for the class
\* and eight for the number.
stunProtocolUnpackAttributeError(s) ==
  LET n == bitstream_read_uint32(s)
  IN  Valid([n EXCEPT !.val = (n.val[2] \div 32) * 100 + n.val[1]])

NoBindingResponse ==
  [mapped |-> Unset, xorMapped |-> Unset, alternate |-> Unset, origin |-> Unset,
   error |-> Unset]

\* The field of the response an attribute fills in
ResponseField(type) ==
  CASE type = StunAttributeMappedAddress -> "mapped"
    [] type = StunAttributeXorMappedAddress -> "xorMapped"
    [] type \in {StunAttributeAlternateServer, StunAttributeOtherAddress} -> "alternate"
    [] type = StunAttributeOriginServer -> "origin"
    [] type = StunAttributeErrorCode -> "error"
    [] OTHER -> "none"

\* The value of an attribute; any other than these is skipped.
UnpackAttribute(s, field, length) ==
  CASE field = "xorMapped" -> stunProtocolUnpackAttributeXorAddr(s)
    [] field = "error" -> stunProtocolUnpackAttributeError(s)
    [] field = "none" -> Valid(bitstream_skip_bytes(s, length))
    [] OTHER -> stunProtocolUnpackAttributeAddr(s)

\* One turn of the loop: the next attribute.  Nothing is read any more once
\* there are no remaining bytes, or after an attribute that is not valid.
UnpackNext(r) ==
  LET type == bitstream_read_uint16(r.stream)
      length == bitstream_read_uint16(type)
      field == ResponseField(type.val)
      attribute == UnpackAttribute(length, field, length.val)
  IN  IF r.result # "Valid" \/ r.remainingBytes <= 0 THEN r
      ELSE IF attribute.result # "Valid"
      THEN [r EXCEPT !.stream = attribute.stream, !.result = "Invalid"]
      ELSE [stream |-> attribute.stream, result |-> "Valid",
            remainingBytes |-> r.remainingBytes - length.val - 4,
            response |-> IF field = "none" THEN r.response
                         ELSE [r.response EXCEPT ![field] = attribute.stream.val]]

\* Every turn takes at least one byte, so that length of them are enough.
stunProtocolUnpackBindingResponseBody(s, length) ==
  LET after[k \in 0..length] ==
        IF k = 0 THEN [stream |-> s, result |-> "Valid", remainingBytes |-> length,
                       response |-> NoBindingResponse]
        ELSE UnpackNext(after[k - 1])
  IN  after[length]

stunProtocolUnpackBindingResponse(s) ==
  LET header == stunProtocolUnpackHeader(s)
      body == stunProtocolUnpackBindingResponseBody(header.stream, header.length)
      Ends(result) == [stream |-> header.stream, result |-> result, out |-> << >>]
  IN  IF header.result = "Invalid" THEN Ends("Invalid")
      ELSE IF header.msgType # StunMsgTypeBinding \/ header.msgClass = StunMsgClassRequest
      THEN Ends("Unexpected")
      ELSE IF header.length = 0 \/ body.result = "Invalid" THEN Ends("Invalid")
      ELSE [stream |-> body.stream, result |-> "Valid",
            out |-> <<header.transactionId, body.response>>]
=============================================================================
