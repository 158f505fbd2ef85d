-------------------------- MODULE StreamReliability --------------------------
(***************************************************************************)
(* The acknowledgement bookkeeping of one end of a stream                  *)
(* (stream_reliability.c), as operators on a record with the fields of     *)
(* StreamReliability:                                                      *)
(*   packets     ring buffer of the metadata of sent packets               *)
(*   frontSent, frontAcked, back    its indices                            *)
(*   sequence    sequence number of the next packet                        *)
(*   ack, ackBits   newest remote sequence received, and which of the      *)
(*                  sequences ack, ack-1, ... were received: the set of    *)
(*                  the positions of the bits that are 1, LSB = 0          *)
(*   totalSent, totalAcked, totalLost, sentBytes, ackedPackets             *)
(*                                                                         *)
(* Time is counted in ticks of the update timer (1/15 s); a packet's time  *)
(* stops at 2 * MaxRtt, past every comparison the code makes.  All packets *)
(* have size 1, so that sentBytes counts packets.  The rtt estimate and    *)
(* the rates, computed from the counters, are left out.  num is the number *)
(* of the packet since the start: sequence before it wraps around.         *)
(***************************************************************************)
EXTENDS Integers, FiniteSets

CONSTANTS
  BufferCapacity,  \* kStreamReliabilityBufferCapacity (35)
  MaxSequence,     \* kStreamReliabilityMaxSequence (0xFFFF)
  AckWidth,        \* bits of an AckBitField (32)
  MaxRtt           \* kStreamReliabilityMaxRtt in ticks (15)

ASSUME BufferAssumption == BufferCapacity \in Nat /\ BufferCapacity > 1
ASSUME SequenceAssumption == MaxSequence \in Nat /\ MaxSequence > 1
ASSUME AckWidthAssumption == AckWidth \in Nat /\ AckWidth > 1
ASSUME MaxRttAssumption == MaxRtt \in Nat \ {0}

Slot == 0..(BufferCapacity - 1)
BitPosition == 0..(AckWidth - 1)

PacketMetadata ==
  [num : Nat, sequence : 0..(MaxSequence - 1), time : 0..(2 * MaxRtt), acked : BOOLEAN]

ReliabilityType ==
  [packets : [Slot -> PacketMetadata],
   frontSent : Slot, frontAcked : Slot, back : Slot,
   sequence : 0..(MaxSequence - 1),
   ack : 0..(MaxSequence - 1),
   ackBits : SUBSET BitPosition,
   totalSent : Nat, totalAcked : Nat, totalLost : Nat,
   sentBytes : Int, ackedPackets : Nat]

\* Mutant: an index is not wrapped around.
increase_slip(value, max) == value + 1

increase(value, max) == (value + 1) % max

decrease(value, count, max) ==
  IF value >= count THEN value - count ELSE (value + max) - count

isSequenceMoreRecent(sequence, other, max) ==
  \/ sequence > other /\ sequence - other <= max \div 2
  \/ other > sequence /\ other - sequence > max \div 2

\* streamReliabilityClear, on the zero-filled memory of streamCreate
streamReliabilityClear ==
  [packets |-> [i \in Slot |-> [num |-> 0, sequence |-> 0, time |-> 0, acked |-> FALSE]],
   frontSent |-> 0, frontAcked |-> 0, back |-> 0,
   sequence |-> 0, ack |-> 0, ackBits |-> {},
   totalSent |-> 0, totalAcked |-> 0, totalLost |-> 0,
   sentBytes |-> 0, ackedPackets |-> 0]

-----------------------------------------------------------------------------
\* streamReliabilityPacketSent: a full ring discards its oldest entries.
PacketSent(r) ==
  LET back == increase(r.back, BufferCapacity)
      front(f) == IF back = f THEN increase(f, BufferCapacity) ELSE f
  IN  [r EXCEPT
         !.packets[r.back] = [num |-> r.totalSent, sequence |-> r.sequence,
                              time |-> 0, acked |-> FALSE],
         !.back = back,
         !.sequence = increase(r.sequence, MaxSequence),
         !.totalSent = r.totalSent + 1,
         !.sentBytes = r.sentBytes + 1,
         !.frontAcked = front(r.frontAcked),
         !.frontSent = front(r.frontSent)]

-----------------------------------------------------------------------------
ShiftLeft(bits, shifts) == {b + shifts : b \in bits} \cap BitPosition

\* How far s is ahead of t, as the code computes it when s has wrapped around.
Ahead(s, t) == IF s > t THEN s - t ELSE s - t + MaxSequence + 1

\* Mutant: the bit of the newest packet replaces the field.
ProcessSequence_slip(r, sequence) ==
  IF isSequenceMoreRecent(sequence, r.ack, MaxSequence)
  THEN [r EXCEPT !.ack = sequence,
                 !.ackBits = r.ackBits \cup {0}]
  ELSE LET shifts == IF r.ack = sequence THEN 0 ELSE Ahead(r.ack, sequence)
       IN  [r EXCEPT !.ackBits = r.ackBits \cup ({shifts} \cap BitPosition)]

\* streamReliabilityProcessSequence: a newer sequence shifts the bit field
\* and becomes its bit 0, unless it is too far ahead, which clears the field;
\* an older one sets its bit if the field still reaches it.
ProcessSequence(r, sequence) ==
  IF isSequenceMoreRecent(sequence, r.ack, MaxSequence)
  THEN LET shifts == Ahead(sequence, r.ack)
       IN  [r EXCEPT !.ack = sequence,
                     !.ackBits = IF shifts < AckWidth
                                 THEN ShiftLeft(r.ackBits, shifts) \cup {0} ELSE {}]
  ELSE LET shifts == IF r.ack = sequence THEN 0 ELSE Ahead(r.ack, sequence)
       IN  [r EXCEPT !.ackBits = r.ackBits \cup ({shifts} \cap BitPosition)]

\* The ring index the loop of streamReliabilityProcessAck tests bit p at.
AckSlot(r, count, p) == (decrease(r.back, count, BufferCapacity) - p) % BufferCapacity

\* streamReliabilityProcessAck: walks back from the acknowledged packet and
\* marks the packets whose bit is set; the loop covers AckWidth - 1 bits.
ProcessAck(r, ack, ackBits) ==
  LET count == Ahead(r.sequence, ack)
      hit == {AckSlot(r, count, p) : p \in ackBits \cap 0..(AckWidth - 2)}
      new == {i \in hit : ~r.packets[i].acked}
  IN  IF r.frontSent = r.back \/ count >= BufferCapacity THEN r
      ELSE [r EXCEPT
              !.packets = [i \in Slot |-> IF i \in new THEN [r.packets[i] EXCEPT !.acked = TRUE]
                                          ELSE r.packets[i]],
              !.totalAcked = r.totalAcked + Cardinality(new)]

\* streamReliabilityPacketReceived (totalReceivedPackets is left out)
PacketReceived(r, sequence, ack, ackBits) ==
  ProcessAck(ProcessSequence(r, sequence), ack, ackBits)

-----------------------------------------------------------------------------
\* The number of entries from a front index up to back, and the index k
\* entries after the front.
Distance(r, front) == (r.back - front) % BufferCapacity
After(front, k) == (front + k) % BufferCapacity

\* How many entries at the front are older than allowed: where the loops
\* that move a front index stop.
Expired(r, front, age) ==
  CHOOSE k \in 0..Distance(r, front) :
    /\ \A j \in 0..(k - 1) : r.packets[After(front, j)].time >= age
    /\ k = Distance(r, front) \/ r.packets[After(front, k)].time < age

\* One tick passes for every entry of the buffer.
Aged(r) ==
  [r EXCEPT !.packets = [i \in Slot |->
     [r.packets[i] EXCEPT
        !.time = IF r.packets[i].time < 2 * MaxRtt THEN r.packets[i].time + 1 ELSE 2 * MaxRtt]]]

\* Mutant: the packets that leave the sent list are not subtracted.
LeaveSent_slip(r) ==
  LET gone == Expired(r, r.frontSent, MaxRtt + 1)
      lost == {k \in 0..(gone - 1) : ~r.packets[After(r.frontSent, k)].acked}
  IN  [r EXCEPT !.frontSent = After(r.frontSent, gone),
                !.totalLost = r.totalLost + Cardinality(lost)]

\* The first loop of streamReliabilityUpdate: packets older than MaxRtt leave
\* the sent list; those that were not acknowledged are counted as lost.
LeaveSent(r) ==
  LET gone == Expired(r, r.frontSent, MaxRtt + 1)
      lost == {k \in 0..(gone - 1) : ~r.packets[After(r.frontSent, k)].acked}
  IN  [r EXCEPT !.frontSent = After(r.frontSent, gone),
                !.sentBytes = r.sentBytes - gone,
                !.totalLost = r.totalLost + Cardinality(lost)]

\* Mutant: packets never leave the acked list.
LeaveAcked_slip(r) == r

\* The second loop: packets of 2 * MaxRtt leave the acked list.
LeaveAcked(r) ==
  [r EXCEPT !.frontAcked = After(r.frontAcked, Expired(r, r.frontAcked, 2 * MaxRtt))]

\* The third loop counts the acknowledged packets older than MaxRtt.
CountAcked(r) ==
  [r EXCEPT !.ackedPackets =
     Cardinality({k \in 0..(Distance(r, r.frontAcked) - 1) :
                    /\ r.packets[After(r.frontAcked, k)].acked
                    /\ r.packets[After(r.frontAcked, k)].time >= MaxRtt})]

\* streamReliabilityUpdate, called once per tick: nothing at all happens
\* while the sent list is empty.
Update(r) ==
  IF r.frontSent = r.back THEN r ELSE CountAcked(LeaveAcked(LeaveSent(Aged(r))))
=============================================================================
