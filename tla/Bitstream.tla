------------------------------ MODULE Bitstream ------------------------------
(***************************************************************************)
(* The bounded byte stream of bitstream.c.  A stream is a block of memory  *)
(* with an offset and a bound.  The operators return the stream after the  *)
(* call; what a read stores at its destination is the field val.           *)
(*                                                                         *)
(* Integers of one and two bytes are numbers.  Wider ones, which are only  *)
(* copied and compared, are words: sequences of bytes, the most            *)
(* significant first.  Arrays of bytes are sequences in memory order.      *)
(*                                                                         *)
(* little is the byte order of the host: on a little-endian one the        *)
(* functions put the most significant byte first and reverse arrays, on a  *)
(* big-endian one they put the least significant byte first and copy       *)
(* arrays as they are.  A read past the end of the memory finds past.      *)
(***************************************************************************)
EXTENDS Integers, Sequences, SequencesExt

Byte == 0..255

\* A destination that a read has left as it was
Unset == <<-1>>

bitstream_create(data, bound, little, past) ==
  [data |-> data, offset |-> 0, bound |-> bound, little |-> little, past |-> past,
   val |-> Unset]

bitstream_reset(s) == [s EXCEPT !.offset = 0]

\* bound - offset is unsigned: beyond the bound everything seems to fit.
Fits(s, n) == s.offset > s.bound \/ n <= s.bound - s.offset

bitstream_skip_bytes(s, n) ==
  IF Fits(s, n)
  THEN [s EXCEPT !.offset = IF @ + n > s.bound THEN s.bound ELSE @ + n]
  ELSE s

bitstream_snapshot(s) == [rollover |-> s.offset, rollback |-> s.offset]

bitstream_rollback(s, snapshot) ==
  [stream |-> [s EXCEPT !.offset = snapshot.rollback],
   snapshot |-> [snapshot EXCEPT !.rollover = s.offset]]

bitstream_rollover(s, snapshot) ==
  [stream |-> [s EXCEPT !.offset = snapshot.rollover],
   snapshot |-> [snapshot EXCEPT !.rollback = s.offset]]

-----------------------------------------------------------------------------
\* The n bytes at the offset
Peek(s, n) ==
  [i \in 1..n |-> IF s.offset + i <= Len(s.data) THEN s.data[s.offset + i] ELSE s.past]

\* All the bytes are written, or none if they do not fit.
Put(s, bytes) ==
  IF Fits(s, Len(bytes))
  THEN [s EXCEPT !.data = SubSeq(@, 1, s.offset) \o bytes
                            \o SubSeq(@, s.offset + Len(bytes) + 1, Len(@)),
                 !.offset = @ + Len(bytes)]
  ELSE s

\* The bytes are stored at the destination, after they were read.
Take(s, n, value) == [s EXCEPT !.offset = @ + n, !.val = value]

\* Bytes of an array, or of a word, in the order in which this host writes
\* and reads them
ArrayOrder(s, bytes) == IF s.little THEN Reverse(bytes) ELSE bytes
WordOrder(s, word) == IF s.little THEN word ELSE Reverse(word)

bitstream_write_bytes(s, bytes) == Put(s, ArrayOrder(s, bytes))
bitstream_read_bytes(s, n) ==
  IF Fits(s, n) THEN Take(s, n, ArrayOrder(s, Peek(s, n))) ELSE [s EXCEPT !.val = Unset]

\* A word of one to eight bytes; a read does not look at the bound.
WriteWord(s, word) == Put(s, WordOrder(s, word))
ReadWord(s, n) == Take(s, n, WordOrder(s, Peek(s, n)))

Bytes16(n) == <<(n \div 256) % 256, n % 256>>
Number16(word) == 256 * word[1] + word[2]

bitstream_write_uint8(s, n) == Put(s, <<n % 256>>)
bitstream_read_uint8(s) == Take(s, 1, Peek(s, 1)[1])

bitstream_write_uint16(s, n) == WriteWord(s, Bytes16(n))
bitstream_read_uint16(s) == LET r == ReadWord(s, 2) IN [r EXCEPT !.val = Number16(@)]

bitstream_write_uint32(s, word) == WriteWord(s, word)
bitstream_read_uint32(s) == ReadWord(s, 4)

bitstream_write_uint64(s, word) == WriteWord(s, word)
bitstream_read_uint64(s) == ReadWord(s, 8)

\* Without conversion: the least significant byte first on every host
bitstream_write_uint16_endian(s, word) == Put(s, Reverse(word))
bitstream_read_uint16_endian(s) == Take(s, 2, Reverse(Peek(s, 2)))

bitstream_write_uint32_endian(s, word) == Put(s, Reverse(word))

bitstream_read_uint32_endian(s) == Take(s, 4, Reverse(Peek(s, 4)))

-----------------------------------------------------------------------------
bitstream_write_str(s, string) ==
  IF Fits(s, Len(string) + 1)
  THEN bitstream_write_bytes(bitstream_write_uint8(s, Len(string)), string)
  ELSE s

\* A string that is too long for its destination, null character included,
\* is left in the stream.
bitstream_read_str(s, max) ==
  LET length == bitstream_read_uint8(s)
  IN  IF length.val + 1 > max THEN [length EXCEPT !.val = Unset]
      ELSE bitstream_read_bytes(length, length.val)

-----------------------------------------------------------------------------
(* Floats as fixed point: a float is [negative, whole, fraction] with the  *)
(* fraction in units of 2^-16, and below 256 so that it has no finer       *)
(* digits than these.                                                      *)

\* (src - (int)src) * 65537.0f, truncated.  The product k + k/65536 of a
\* fraction k/65536 is rounded to 24 digits, which makes it k + 1 from
\* 65408 on.
FractionBits(k) == (IF k >= 65408 THEN k + 1 ELSE k) % 65536

bitstream_write_float32(s, f) ==
  bitstream_write_uint32(s,
    Bytes16((f.whole % 32768) + (IF f.negative THEN 32768 ELSE 0))
      \o Bytes16(FractionBits(f.fraction)))

bitstream_read_float32(s) ==
  LET r == bitstream_read_uint32(s)
      high == Number16(SubSeq(r.val, 1, 2))
  IN  [r EXCEPT !.val = [negative |-> high >= 32768, whole |-> high % 32768,
                         fraction |-> Number16(SubSeq(r.val, 3, 4))]]
=============================================================================
