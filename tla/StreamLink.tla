----------------------------- MODULE StreamLink -----------------------------
(***************************************************************************)
(* Two ends of a stream joined by an unreliable network: the sending and   *)
(* receiving side of stream.c (streamTimerCallback, streamSend,            *)
(* streamReceive) over the bookkeeping of StreamReliability.               *)
(*                                                                         *)
(* A datagram stays in the network for ever and may be delivered at any    *)
(* time, any number of times or never: it can be lost, duplicated, delayed *)
(* and reordered.  MaxLag bounds how old an acknowledgement may be when it *)
(* is delivered, in packets the receiving end has sent since, and MaxGap   *)
(* how far a packet is from the newest one of its stream when delivered.   *)
(***************************************************************************)
EXTENDS StreamReliability, FiniteSetsExt

CONSTANTS
  End,        \* the two ends
  MaxSends,   \* bound on the packets each end sends: a function on End
  MaxLag,     \* bound on the age of a delivered acknowledgement
  MaxGap      \* bound on the distance of a delivered packet from the newest one

ASSUME EndAssumption == \E d, e \in End : d # e /\ End = {d, e}
ASSUME LinkAssumption == MaxSends \in [End -> Nat] /\ MaxLag \in Nat /\ MaxGap \in Nat

Peer(e) == CHOOSE p \in End : p # e

VARIABLES
  ends,      \* the StreamReliability record of each end
  net,       \* datagrams addressed to each end
  received,  \* packets each end's receiveCallback was called with (their numbers)
  reported   \* those received since a jump of AckWidth or more cleared the bit field

vars == <<ends, net, received, reported>>

Datagram ==
  [num : Nat, sequence : 0..(MaxSequence - 1), ack : 0..(MaxSequence - 1),
   ackBits : SUBSET BitPosition]

Init ==
  /\ ends = [e \in End |-> streamReliabilityClear]
  /\ net = [e \in End |-> {}]
  /\ received = [e \in End |-> {}]
  /\ reported = [e \in End |-> {}]

\* Number of the newest packet an end received: 0 also at the start, as ack.
Newest(e) == IF received[e] = {} THEN 0 ELSE Max(received[e])

\* streamTimerCallback on a tick that sends nothing
TickIdle(e) ==
  /\ ends' = [ends EXCEPT ![e] = Update(ends[e])]
  /\ UNCHANGED <<net, received, reported>>

\* streamTimerCallback on a tick that sends: the header is packed from the
\* reliability state before streamReliabilityPacketSent counts the packet.
streamSend(e) ==
  LET r == Update(ends[e]) IN
  /\ r.totalSent < MaxSends[e]
  /\ net' = [net EXCEPT ![Peer(e)] = @ \cup
       {[num |-> r.totalSent, sequence |-> r.sequence, ack |-> r.ack, ackBits |-> r.ackBits]}]
  /\ ends' = [ends EXCEPT ![e] = PacketSent(r)]
  /\ UNCHANGED <<received, reported>>

\* streamReceive: a packet whose ack is beyond the local sequence is dropped.
streamReceive(e, m) ==
  /\ m.ack <= ends[e].sequence
  /\ ends[e].sequence - m.ack <= MaxLag
  /\ m.num \in (Newest(e) - MaxGap)..(Newest(e) + MaxGap)
  /\ ends' = [ends EXCEPT ![e] = PacketReceived(ends[e], m.sequence, m.ack, m.ackBits)]
  /\ received' = [received EXCEPT ![e] = @ \cup {m.num}]
  /\ reported' = [reported EXCEPT
       ![e] = IF m.num - Newest(e) >= AckWidth THEN {} ELSE @ \cup {m.num}]
  /\ UNCHANGED net

Next ==
  \E e \in End :
    \/ TickIdle(e)
    \/ streamSend(e)
    \/ \E m \in net[e] : streamReceive(e, m)

Spec == Init /\ [][Next]_vars

-----------------------------------------------------------------------------
SentWindow(r) == Distance(r, r.frontSent)
AckedWindow(r) == Distance(r, r.frontAcked)

\* Every variable has its type.
TypeOK ==
  /\ ends \in [End -> ReliabilityType]
  /\ \A e \in End : \A m \in net[e] : m \in Datagram
  /\ received \in [End -> SUBSET Nat]
  /\ reported \in [End -> SUBSET Nat]

\* A packet is marked acked only if the remote side received it ("Confirms
\* if packets has been received on the remote side", stream_reliability.h).
AckedWasReceived ==
  \A e \in End : \A i \in Slot :
    ends[e].packets[i].acked => ends[e].packets[i].num \in received[Peer(e)]

\* ack is the newest sequence received, and the bit field tells for each of
\* the AckWidth newest packets whether it was received since the field was
\* last cleared, also when the sequence has wrapped around ("Non and
\* wrap-around cases", stream_reliability.c).
AckFieldExact ==
  \A e \in End :
    /\ ends[e].ack = Newest(e) % MaxSequence
    /\ ends[e].ackBits = {b \in BitPosition : Newest(e) - b \in reported[e]}

\* sentBytes, from which sentBandwidth is computed, is what the sent list
\* holds: nothing is subtracted twice and nothing is discarded uncounted.
SentBytesExact == \A e \in End : ends[e].sentBytes = SentWindow(ends[e])

\* The sent list is the newer part of the acked list, and the packets of the
\* acked list are in the order of their age: the loops of
\* streamReliabilityUpdate may stop at the first young packet.
WindowsOrdered ==
  \A e \in End : LET r == ends[e] IN
    /\ SentWindow(r) <= AckedWindow(r)
    /\ \A k \in 1..(AckedWindow(r) - 1) :
         r.packets[After(r.frontAcked, k)].time <= r.packets[After(r.frontAcked, k - 1)].time

\* The lists and the byte count of streamReliabilityUpdate fit each other: what
\* one loop leaves is what the next one, and the next tick, start from.
RingExact == SentBytesExact /\ WindowsOrdered

\* A send never reaches the oldest entry of the acked list: the capacity
\* leaves room for every packet of two round trips.
NeverOverwrites ==
  [][\A e \in End : ends'[e].totalSent > ends[e].totalSent =>
       AckedWindow(ends'[e]) = Distance(ends[e], Update(ends[e]).frontAcked) + 1]_vars
=============================================================================
