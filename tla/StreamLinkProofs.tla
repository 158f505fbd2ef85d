-------------------------- MODULE StreamLinkProofs --------------------------
(***************************************************************************)
(* What two ends of a stream tell each other is true, and the ring of sent *)
(* packets is kept right: for every capacity, field, lag and loss, under   *)
(* the hypotheses each theorem names.                                      *)
(***************************************************************************)
EXTENDS StreamLink, FiniteSetTheorems, WellFoundedInduction, TLAPS

\* A set of natural numbers has a least element.
LEMMA LeastNumber ==
  ASSUME NEW B \in SUBSET Nat, B # {}
  PROVE  \E m \in B : \A k \in B : m <= k
  <1> DEFINE T == {0..b : b \in B}
  <1>1. T \subseteq FiniteSubsetsOf(Nat)
    <2>1. \A b \in B : IsFiniteSet(0..b) /\ 0..b \in SUBSET Nat
      BY FS_Interval
    <2>2. QED
      BY <2>1 DEF FiniteSubsetsOf
  <1>2. IsWellFoundedOn(StrictSubsetOrdering(Nat), FiniteSubsetsOf(Nat))
    BY FS_StrictSubsetOrderingWellFounded
  <1>3. T # {}
    OBVIOUS
  <1>4. PICK x \in T : \A y \in T : ~(<<y, x>> \in StrictSubsetOrdering(Nat))
    BY <1>1, <1>2, <1>3, WFMin
  <1>5. PICK m \in B : x = 0..m
    OBVIOUS
  <1>6. ASSUME NEW k \in B, k < m PROVE FALSE
    <2>1. 0..k \in T /\ 0..k \subseteq 0..m /\ 0..k # 0..m /\ 0..m \subseteq Nat
      <3>1. m \in 0..m /\ m \notin 0..k
        BY <1>6
      <3>2. QED
        BY <1>6, <3>1
    <2>2. <<0..k, 0..m>> \in StrictSubsetOrdering(Nat)
      BY <2>1 DEF StrictSubsetOrdering
    <2>3. QED
      BY <1>4, <1>5, <2>1, <2>2
  <1>7. QED
    BY <1>6

\* The remainders the code takes, one turn of the ring away at most
LEMMA Remainder ==
  ASSUME NEW B \in Nat, B > 1, NEW a \in Int
  PROVE  /\ a % B \in 0..(B - 1)
         /\ 0 <= a /\ a < B => a % B = a
         /\ B <= a /\ a < 2 * B => a % B = a - B
         /\ -B <= a /\ a < 0 => a % B = a + B
  OBVIOUS

LEMMA Positive ==
  /\ BufferCapacity \in Nat /\ BufferCapacity > 1 /\ MaxSequence \in Nat /\ MaxSequence > 1
  /\ AckWidth \in Nat /\ AckWidth > 1 /\ MaxRtt \in Nat /\ MaxRtt > 0
  BY BufferAssumption, SequenceAssumption, AckWidthAssumption, MaxRttAssumption

\* A finite number of ring entries or positions
LEMMA SomeOf ==
  ASSUME NEW a \in Int, NEW b \in Int, NEW S \in SUBSET (a..b)
  PROVE  Cardinality(S) \in Nat
  BY FS_Interval, FS_Subset, FS_CardinalityType

-----------------------------------------------------------------------------
(* One end's record, field by field *)

LEMMA Fields ==
  ASSUME NEW r \in ReliabilityType
  PROVE  /\ r.packets \in [Slot -> PacketMetadata]
         /\ r.frontSent \in Slot /\ r.frontAcked \in Slot /\ r.back \in Slot
         /\ r.sequence \in 0..(MaxSequence - 1) /\ r.ack \in 0..(MaxSequence - 1)
         /\ r.ackBits \in SUBSET BitPosition
         /\ r.totalSent \in Nat /\ r.totalAcked \in Nat /\ r.totalLost \in Nat
         /\ r.sentBytes \in Int /\ r.ackedPackets \in Nat
         /\ \A i \in Slot : /\ r.packets[i] \in PacketMetadata
                            /\ r.packets[i].num \in Nat
                            /\ r.packets[i].time \in 0..(2 * MaxRtt)
                            /\ r.packets[i].acked \in BOOLEAN
  <1>1. /\ r.packets \in [Slot -> PacketMetadata]
        /\ r.frontSent \in Slot /\ r.frontAcked \in Slot /\ r.back \in Slot
        /\ r.sequence \in 0..(MaxSequence - 1) /\ r.ack \in 0..(MaxSequence - 1)
        /\ r.ackBits \in SUBSET BitPosition
        /\ r.totalSent \in Nat /\ r.totalAcked \in Nat /\ r.totalLost \in Nat
        /\ r.sentBytes \in Int /\ r.ackedPackets \in Nat
    BY DEF ReliabilityType
  <1>2. \A i \in Slot : r.packets[i] \in PacketMetadata
    BY <1>1
  <1>3. ASSUME NEW p \in PacketMetadata
        PROVE  p.num \in Nat /\ p.time \in 0..(2 * MaxRtt) /\ p.acked \in BOOLEAN
    BY DEF PacketMetadata
  <1>4. QED
    BY <1>1, <1>2, <1>3

\* What neither a tick nor its loops change
Keeps(q, r) ==
  /\ q.back = r.back /\ q.sequence = r.sequence /\ q.ack = r.ack /\ q.ackBits = r.ackBits
  /\ q.totalSent = r.totalSent
  /\ \A i \in Slot : q.packets[i].num = r.packets[i].num /\ q.packets[i].acked = r.packets[i].acked

Older(t) == IF t < 2 * MaxRtt THEN t + 1 ELSE 2 * MaxRtt

LEMMA AgedFields ==
  ASSUME NEW r \in ReliabilityType
  PROVE  /\ Aged(r) \in ReliabilityType /\ Keeps(Aged(r), r)
         /\ Aged(r).frontSent = r.frontSent /\ Aged(r).frontAcked = r.frontAcked
         /\ Aged(r).sentBytes = r.sentBytes
         /\ \A i \in Slot : Aged(r).packets[i].time = Older(r.packets[i].time)
  <1> DEFINE Q == [i \in Slot |-> [r.packets[i] EXCEPT !.time = Older(r.packets[i].time)]]
             q == Aged(r)
  <1>1. q = [r EXCEPT !.packets = Q]
    BY DEF Aged, Older
  <1>2. ASSUME NEW i \in Slot
        PROVE  /\ Q[i] \in PacketMetadata /\ Q[i].time = Older(r.packets[i].time)
               /\ Q[i].num = r.packets[i].num /\ Q[i].acked = r.packets[i].acked
    <2> DEFINE p == r.packets[i]
               t == Older(p.time)
    <2>1. p \in PacketMetadata /\ p.time \in 0..(2 * MaxRtt)
      BY Fields
    <2> HIDE DEF p
    <2>2. t \in 0..(2 * MaxRtt)
      BY <2>1, Positive DEF Older
    <2> HIDE DEF t
    <2>3. [p EXCEPT !.time = t] \in PacketMetadata /\ [p EXCEPT !.time = t].time = t
          /\ [p EXCEPT !.time = t].num = p.num /\ [p EXCEPT !.time = t].acked = p.acked
      BY <2>1, <2>2 DEF PacketMetadata
    <2>4. Q[i] = [p EXCEPT !.time = t]
      BY DEF p, t
    <2>5. QED
      BY <2>3, <2>4 DEF p, t
  <1>3. Q \in [Slot -> PacketMetadata]
    <2>1. Q = [i \in Slot |-> Q[i]]
      OBVIOUS
    <2> HIDE DEF Q
    <2>2. QED
      BY <1>2, <2>1
  <1> HIDE DEF Q, q
  <1>4. q \in ReliabilityType /\ q.packets = Q
    BY <1>1, <1>3 DEF ReliabilityType
  <1>5. /\ q.back = r.back /\ q.sequence = r.sequence /\ q.ack = r.ack
        /\ q.ackBits = r.ackBits /\ q.totalSent = r.totalSent
        /\ q.frontSent = r.frontSent /\ q.frontAcked = r.frontAcked /\ q.sentBytes = r.sentBytes
    BY <1>1 DEF ReliabilityType
  <1>6. QED
    BY <1>2, <1>4, <1>5 DEF Keeps, q

\* The loop that moves a front index stops where the code's does.
LEMMA ExpiredStops ==
  ASSUME NEW r \in ReliabilityType, NEW front \in Slot, NEW age \in Nat
  PROVE  LET D == Distance(r, front)
             k == Expired(r, front, age)
         IN /\ D \in 0..(BufferCapacity - 1) /\ k \in 0..D
            /\ \A j \in 0..(k - 1) : r.packets[After(front, j)].time >= age
            /\ k = D \/ r.packets[After(front, k)].time < age
  <1> DEFINE D == Distance(r, front)
             t(j) == r.packets[After(front, j)].time
             K == {k \in 0..D : k = D \/ t(k) < age}
  <1>1. D \in 0..(BufferCapacity - 1)
    <2>1. r.back \in Slot /\ r.back - front \in Int
      BY Fields DEF Slot
    <2>2. QED
      BY <2>1, Positive, Remainder DEF Distance
  <1>2. \A j \in 0..D : t(j) \in Int
    <2>1. \A j \in 0..D : After(front, j) \in Slot
      BY <1>1, Positive, Remainder DEF After, Slot
    <2>2. QED
      BY <2>1, Fields
  <1> HIDE DEF D, t
  <1>3. K \in SUBSET Nat /\ K # {}
    BY <1>1
  <1>4. PICK k \in K : \A l \in K : k <= l
    BY <1>3, LeastNumber
  <1>5. k \in 0..D /\ (k = D \/ t(k) < age)
    OBVIOUS
  <1>6. ASSUME NEW j \in 0..(k - 1) PROVE t(j) >= age
    <2>1. j \in 0..D /\ j # D /\ j < k
      BY <1>1, <1>5
    <2>2. j \notin K
      BY <1>4, <1>5, <2>1
    <2>3. ~(t(j) < age)
      BY <2>1, <2>2
    <2>4. QED
      BY <1>2, <2>1, <2>3
  <1>7. \E l \in 0..D : (\A j \in 0..(l - 1) : t(j) >= age) /\ (l = D \/ t(l) < age)
    BY <1>5, <1>6
  <1>8. Expired(r, front, age) =
          CHOOSE l \in 0..D : (\A j \in 0..(l - 1) : t(j) >= age) /\ (l = D \/ t(l) < age)
    BY DEF Expired, D, t
  <1>9. /\ Expired(r, front, age) \in 0..D
        /\ \A j \in 0..(Expired(r, front, age) - 1) : t(j) >= age
        /\ Expired(r, front, age) = D \/ t(Expired(r, front, age)) < age
    BY <1>7, <1>8
  <1>10. QED
    BY <1>1, <1>9 DEF D, t

LEMMA InRing ==
  ASSUME NEW front \in Int, NEW k \in Int
  PROVE  After(front, k) \in Slot
  BY Positive, Remainder DEF After, Slot

LEMMA LeaveSentFields ==
  ASSUME NEW r \in ReliabilityType
  PROVE  LET s == LeaveSent(r)
             gone == Expired(r, r.frontSent, MaxRtt + 1)
         IN /\ s \in ReliabilityType /\ Keeps(s, r) /\ s.packets = r.packets
            /\ s.frontSent = After(r.frontSent, gone) /\ s.sentBytes = r.sentBytes - gone
            /\ s.frontAcked = r.frontAcked
  <1> DEFINE gone == Expired(r, r.frontSent, MaxRtt + 1)
             lost == {k \in 0..(gone - 1) : ~r.packets[After(r.frontSent, k)].acked}
             f == After(r.frontSent, gone)
             b == r.sentBytes - gone
             l == r.totalLost + Cardinality(lost)
             s == LeaveSent(r)
  <1>1. s = [r EXCEPT !.frontSent = f, !.sentBytes = b, !.totalLost = l]
    BY DEF LeaveSent
  <1>2. r.frontSent \in Slot /\ r.frontSent \in Int /\ r.sentBytes \in Int /\ r.totalLost \in Nat
    BY Fields DEF Slot
  <1>3. gone \in Int
    <2>1. MaxRtt + 1 \in Nat
      BY Positive
    <2>2. /\ Distance(r, r.frontSent) \in 0..(BufferCapacity - 1)
          /\ gone \in 0..Distance(r, r.frontSent)
      BY <1>2, <2>1, ExpiredStops
    <2>3. QED
      BY <2>2
  <1> HIDE DEF gone
  <1>4. f \in Slot /\ b \in Int
    BY <1>2, <1>3, InRing
  <1>5. l \in Nat
    <2>1. Cardinality(lost) \in Nat
      <3>1. 0 \in Int /\ gone - 1 \in Int /\ lost \in SUBSET (0..(gone - 1))
        BY <1>3
      <3>2. QED
        BY <3>1, SomeOf
    <2>2. QED
      BY <1>2, <2>1
  <1> HIDE DEF f, b, l, s
  <1>6. s \in ReliabilityType
    BY <1>1, <1>4, <1>5 DEF ReliabilityType
  <1>7. /\ s.packets = r.packets /\ s.back = r.back /\ s.sequence = r.sequence /\ s.ack = r.ack
        /\ s.ackBits = r.ackBits /\ s.totalSent = r.totalSent
        /\ s.frontSent = f /\ s.sentBytes = b /\ s.frontAcked = r.frontAcked
    BY <1>1 DEF ReliabilityType
  <1>8. QED
    BY <1>6, <1>7 DEF Keeps, s, f, b, gone

LEMMA LeaveAckedFields ==
  ASSUME NEW r \in ReliabilityType
  PROVE  LET s == LeaveAcked(r)
         IN /\ s \in ReliabilityType /\ Keeps(s, r) /\ s.packets = r.packets
            /\ s.frontAcked = After(r.frontAcked, Expired(r, r.frontAcked, 2 * MaxRtt))
            /\ s.frontSent = r.frontSent /\ s.sentBytes = r.sentBytes
  <1> DEFINE f == After(r.frontAcked, Expired(r, r.frontAcked, 2 * MaxRtt))
             s == LeaveAcked(r)
  <1>1. s = [r EXCEPT !.frontAcked = f]
    BY DEF LeaveAcked
  <1>2. f \in Slot
    <2>1. 2 * MaxRtt \in Nat /\ r.frontAcked \in Slot /\ r.frontAcked \in Int
      BY Positive, Fields DEF Slot
    <2>2. /\ Distance(r, r.frontAcked) \in 0..(BufferCapacity - 1)
          /\ Expired(r, r.frontAcked, 2 * MaxRtt) \in 0..Distance(r, r.frontAcked)
      BY <2>1, ExpiredStops
    <2>3. Expired(r, r.frontAcked, 2 * MaxRtt) \in Int
      BY <2>2
    <2>4. QED
      BY <2>1, <2>3, InRing
  <1> HIDE DEF f, s
  <1>3. s \in ReliabilityType
    BY <1>1, <1>2 DEF ReliabilityType
  <1>4. /\ s.packets = r.packets /\ s.back = r.back /\ s.sequence = r.sequence /\ s.ack = r.ack
        /\ s.ackBits = r.ackBits /\ s.totalSent = r.totalSent
        /\ s.frontAcked = f /\ s.frontSent = r.frontSent /\ s.sentBytes = r.sentBytes
    BY <1>1 DEF ReliabilityType
  <1>5. QED
    BY <1>3, <1>4 DEF Keeps, s, f

LEMMA CountAckedFields ==
  ASSUME NEW r \in ReliabilityType
  PROVE  LET s == CountAcked(r)
         IN /\ s \in ReliabilityType /\ Keeps(s, r) /\ s.packets = r.packets
            /\ s.frontAcked = r.frontAcked /\ s.frontSent = r.frontSent
            /\ s.sentBytes = r.sentBytes
  <1> DEFINE D == Distance(r, r.frontAcked)
             S == {k \in 0..(D - 1) : /\ r.packets[After(r.frontAcked, k)].acked
                                      /\ r.packets[After(r.frontAcked, k)].time >= MaxRtt}
             c == Cardinality(S)
             s == CountAcked(r)
  <1>1. s = [r EXCEPT !.ackedPackets = c]
    BY DEF CountAcked
  <1>2. c \in Nat
    <2>1. D \in Int
      <3>1. r.back - r.frontAcked \in Int
        BY Fields DEF Slot
      <3>2. QED
        BY <3>1, Positive, Remainder DEF Distance
    <2> HIDE DEF D
    <2>2. 0 \in Int /\ D - 1 \in Int /\ S \in SUBSET (0..(D - 1))
      BY <2>1
    <2>3. QED
      BY <2>2, SomeOf
  <1> HIDE DEF c, s
  <1>3. s \in ReliabilityType
    BY <1>1, <1>2 DEF ReliabilityType
  <1>4. /\ s.packets = r.packets /\ s.back = r.back /\ s.sequence = r.sequence /\ s.ack = r.ack
        /\ s.ackBits = r.ackBits /\ s.totalSent = r.totalSent
        /\ s.frontAcked = r.frontAcked /\ s.frontSent = r.frontSent /\ s.sentBytes = r.sentBytes
    BY <1>1 DEF ReliabilityType
  <1>5. QED
    BY <1>3, <1>4 DEF Keeps, s

\* A tick that does something: gone entries leave the sent list and out
\* entries the acked list, as long as they are old enough.
Ticked(u, r, gone, out) ==
  /\ \A i \in Slot : u.packets[i].time = Older(r.packets[i].time)
  /\ u.frontSent = After(r.frontSent, gone) /\ u.sentBytes = r.sentBytes - gone
  /\ gone \in 0..Distance(r, r.frontSent)
  /\ \A j \in 0..(gone - 1) : u.packets[After(r.frontSent, j)].time >= MaxRtt + 1
  /\ gone = Distance(r, r.frontSent) \/ u.packets[After(r.frontSent, gone)].time < MaxRtt + 1
  /\ u.frontAcked = After(r.frontAcked, out)
  /\ out \in 0..Distance(r, r.frontAcked)
  /\ \A j \in 0..(out - 1) : u.packets[After(r.frontAcked, j)].time >= 2 * MaxRtt
  /\ out = Distance(r, r.frontAcked) \/ u.packets[After(r.frontAcked, out)].time < 2 * MaxRtt

LEMMA UpdateFields ==
  ASSUME NEW r \in ReliabilityType
  PROVE  /\ Update(r) \in ReliabilityType /\ Keeps(Update(r), r)
         /\ IF r.frontSent = r.back THEN Update(r) = r
            ELSE \E gone, out : Ticked(Update(r), r, gone, out)
  <1>1. CASE r.frontSent = r.back
    BY <1>1 DEF Update, Keeps
  <1>2. CASE r.frontSent # r.back
    <2> DEFINE a == Aged(r)
               s == LeaveSent(a)
               q == LeaveAcked(s)
               u == CountAcked(q)
               gone == Expired(a, a.frontSent, MaxRtt + 1)
               out == Expired(s, s.frontAcked, 2 * MaxRtt)
    <2>1. Update(r) = u
      BY <1>2 DEF Update
    <2>2. /\ a \in ReliabilityType /\ Keeps(a, r)
          /\ a.frontSent = r.frontSent /\ a.frontAcked = r.frontAcked
          /\ a.sentBytes = r.sentBytes
          /\ \A i \in Slot : a.packets[i].time = Older(r.packets[i].time)
      BY AgedFields
    <2> HIDE DEF a
    <2>3. /\ s \in ReliabilityType /\ Keeps(s, a) /\ s.packets = a.packets
          /\ s.frontSent = After(a.frontSent, gone) /\ s.sentBytes = a.sentBytes - gone
          /\ s.frontAcked = a.frontAcked
      BY <2>2, LeaveSentFields
    <2>4. LET D == Distance(a, a.frontSent)
          IN /\ D \in 0..(BufferCapacity - 1) /\ gone \in 0..D
             /\ \A j \in 0..(gone - 1) : a.packets[After(a.frontSent, j)].time >= MaxRtt + 1
             /\ gone = D \/ a.packets[After(a.frontSent, gone)].time < MaxRtt + 1
      <3>1. MaxRtt + 1 \in Nat /\ a.frontSent \in Slot
        BY <2>2, Positive, Fields
      <3>2. QED
        BY <2>2, <3>1, ExpiredStops
    <2> HIDE DEF s, gone
    <2>5. /\ q \in ReliabilityType /\ Keeps(q, s) /\ q.packets = s.packets
          /\ q.frontAcked = After(s.frontAcked, out)
          /\ q.frontSent = s.frontSent /\ q.sentBytes = s.sentBytes
      BY <2>3, LeaveAckedFields
    <2>6. LET D == Distance(s, s.frontAcked)
          IN /\ D \in 0..(BufferCapacity - 1) /\ out \in 0..D
             /\ \A j \in 0..(out - 1) : s.packets[After(s.frontAcked, j)].time >= 2 * MaxRtt
             /\ out = D \/ s.packets[After(s.frontAcked, out)].time < 2 * MaxRtt
      <3>1. 2 * MaxRtt \in Nat /\ s.frontAcked \in Slot
        BY <2>3, Positive, Fields
      <3>2. QED
        BY <2>3, <3>1, ExpiredStops
    <2> HIDE DEF q, out
    <2>7. /\ u \in ReliabilityType /\ Keeps(u, q) /\ u.packets = q.packets
          /\ u.frontAcked = q.frontAcked /\ u.frontSent = q.frontSent
          /\ u.sentBytes = q.sentBytes
      BY <2>5, CountAckedFields
    <2> HIDE DEF u
    <2>8. Keeps(u, r)
      BY <2>2, <2>3, <2>5, <2>7 DEF Keeps
    <2>9. /\ Distance(a, a.frontSent) = Distance(r, r.frontSent)
          /\ Distance(s, s.frontAcked) = Distance(r, r.frontAcked)
      BY <2>2, <2>3 DEF Distance, Keeps
    <2>10. u.packets = a.packets /\ u.packets = s.packets
      BY <2>3, <2>5, <2>7
    <2>11. /\ u.frontSent = After(r.frontSent, gone) /\ u.sentBytes = r.sentBytes - gone
           /\ u.frontAcked = After(r.frontAcked, out)
      BY <2>2, <2>3, <2>5, <2>7
    <2>12. s.frontAcked = r.frontAcked
      BY <2>2, <2>3
    <2>13. Ticked(u, r, gone, out)
      BY <2>2, <2>4, <2>6, <2>9, <2>10, <2>11, <2>12 DEF Ticked
    <2>14. QED
      BY <1>2, <2>1, <2>7, <2>8, <2>13
  <1>3. QED
    BY <1>1, <1>2

-----------------------------------------------------------------------------
\* streamReliabilityPacketSent
Stepped(f, back) == IF back = f THEN increase(f, BufferCapacity) ELSE f

LEMMA SentFields ==
  ASSUME NEW r \in ReliabilityType
  PROVE  LET q == PacketSent(r)
             back == increase(r.back, BufferCapacity)
         IN /\ q \in ReliabilityType
            /\ q.back = back /\ q.sequence = increase(r.sequence, MaxSequence)
            /\ q.totalSent = r.totalSent + 1 /\ q.sentBytes = r.sentBytes + 1
            /\ q.ack = r.ack /\ q.ackBits = r.ackBits
            /\ q.frontAcked = Stepped(r.frontAcked, back)
            /\ q.frontSent = Stepped(r.frontSent, back)
            /\ \A i \in Slot : i # r.back => q.packets[i] = r.packets[i]
            /\ q.packets[r.back].num = r.totalSent /\ q.packets[r.back].time = 0
            /\ ~q.packets[r.back].acked
  <1> DEFINE q == PacketSent(r)
             back == increase(r.back, BufferCapacity)
             X == [num |-> r.totalSent, sequence |-> r.sequence, time |-> 0, acked |-> FALSE]
             P == [r.packets EXCEPT ![r.back] = X]
             n == increase(r.sequence, MaxSequence)
             fa == Stepped(r.frontAcked, back)
             fs == Stepped(r.frontSent, back)
             ts == r.totalSent + 1
             sb == r.sentBytes + 1
  <1>1. q = [r EXCEPT !.packets = P, !.back = back, !.sequence = n, !.totalSent = ts,
                      !.sentBytes = sb, !.frontAcked = fa, !.frontSent = fs]
    BY DEF PacketSent, Stepped
  <1>2. /\ r.packets \in [Slot -> PacketMetadata] /\ r.back \in Slot /\ r.back \in Int
        /\ r.frontSent \in Slot /\ r.frontAcked \in Slot
        /\ r.frontSent \in Int /\ r.frontAcked \in Int
        /\ r.sequence \in 0..(MaxSequence - 1) /\ r.totalSent \in Nat /\ r.sentBytes \in Int
    BY Fields DEF Slot
  <1>3. /\ X \in PacketMetadata /\ X.num = r.totalSent /\ X.time = 0 /\ X.acked = FALSE
    BY <1>2, Positive DEF PacketMetadata
  <1>4. \A f \in Int : increase(f, BufferCapacity) \in Slot
    BY Positive, Remainder DEF increase, Slot
  <1>5. /\ back \in Slot /\ fa \in Slot /\ fs \in Slot /\ ts \in Nat /\ sb \in Int
        /\ n \in 0..(MaxSequence - 1)
    <2>1. back \in Slot /\ fa \in Slot /\ fs \in Slot
      BY <1>2, <1>4 DEF Stepped
    <2>2. n \in 0..(MaxSequence - 1)
      BY <1>2, Positive, Remainder DEF increase
    <2>3. QED
      BY <1>2, <2>1, <2>2
  <1> HIDE DEF X
  <1>6. /\ P \in [Slot -> PacketMetadata] /\ P[r.back] = X
        /\ \A i \in Slot : i # r.back => P[i] = r.packets[i]
    BY <1>2, <1>3
  <1> HIDE DEF q, back, P, n, fa, fs, ts, sb
  <1>7. q \in ReliabilityType
    BY <1>1, <1>5, <1>6 DEF ReliabilityType
  <1>8. /\ q.packets = P /\ q.back = back /\ q.sequence = n /\ q.totalSent = ts
        /\ q.sentBytes = sb /\ q.frontAcked = fa /\ q.frontSent = fs
        /\ q.ack = r.ack /\ q.ackBits = r.ackBits
    BY <1>1 DEF ReliabilityType
  <1>9. /\ q.packets[r.back].num = r.totalSent /\ q.packets[r.back].time = 0
        /\ ~q.packets[r.back].acked
    BY <1>3, <1>6, <1>8
  <1>10. \A i \in Slot : i # r.back => q.packets[i] = r.packets[i]
    BY <1>6, <1>8
  <1>11. QED
    BY <1>7, <1>8, <1>9, <1>10 DEF q, back, n, ts, sb, fa, fs

\* The ack and the bit field after a packet with this sequence
AckAfter(r, sequence) ==
  IF isSequenceMoreRecent(sequence, r.ack, MaxSequence) THEN sequence ELSE r.ack

BitsAfter(r, sequence) ==
  IF isSequenceMoreRecent(sequence, r.ack, MaxSequence)
  THEN IF Ahead(sequence, r.ack) < AckWidth
       THEN ShiftLeft(r.ackBits, Ahead(sequence, r.ack)) \cup {0} ELSE {}
  ELSE r.ackBits \cup ({IF r.ack = sequence THEN 0 ELSE Ahead(r.ack, sequence)} \cap BitPosition)

\* streamReliabilityProcessSequence
LEMMA SequenceFields ==
  ASSUME NEW r \in ReliabilityType, NEW sequence \in 0..(MaxSequence - 1)
  PROVE  LET q == ProcessSequence(r, sequence)
         IN /\ q \in ReliabilityType
            /\ q.ack = AckAfter(r, sequence) /\ q.ackBits = BitsAfter(r, sequence)
            /\ q.packets = r.packets /\ q.frontSent = r.frontSent
            /\ q.frontAcked = r.frontAcked /\ q.back = r.back /\ q.sequence = r.sequence
            /\ q.totalSent = r.totalSent /\ q.sentBytes = r.sentBytes
  <1> DEFINE q == ProcessSequence(r, sequence)
             a == AckAfter(r, sequence)
             b == BitsAfter(r, sequence)
  <1>1. /\ r.ack \in 0..(MaxSequence - 1) /\ r.ackBits \in SUBSET BitPosition
        /\ 0 \in BitPosition
    BY Fields, Positive DEF BitPosition
  <1>2. q = [r EXCEPT !.ack = a, !.ackBits = b]
    <2>1. CASE isSequenceMoreRecent(sequence, r.ack, MaxSequence)
      BY <2>1 DEF ProcessSequence, AckAfter, BitsAfter
    <2>2. CASE ~isSequenceMoreRecent(sequence, r.ack, MaxSequence)
      <3>1. q = [r EXCEPT !.ackBits = b] /\ a = r.ack
        BY <2>2 DEF ProcessSequence, AckAfter, BitsAfter
      <3> HIDE DEF q, a, b
      <3>2. QED
        BY <3>1 DEF ReliabilityType
    <2>3. QED
      BY <2>1, <2>2
  <1>3. a \in 0..(MaxSequence - 1)
    BY <1>1 DEF AckAfter
  <1>4. b \in SUBSET BitPosition
    BY <1>1 DEF BitsAfter, ShiftLeft
  <1> HIDE DEF q, a, b
  <1>5. q \in ReliabilityType
    BY <1>2, <1>3, <1>4 DEF ReliabilityType
  <1>6. /\ q.ack = a /\ q.ackBits = b /\ q.packets = r.packets /\ q.frontSent = r.frontSent
        /\ q.frontAcked = r.frontAcked /\ q.back = r.back /\ q.sequence = r.sequence
        /\ q.totalSent = r.totalSent /\ q.sentBytes = r.sentBytes
    BY <1>2 DEF ReliabilityType
  <1>7. QED
    BY <1>5, <1>6 DEF q, a, b

\* The entries an acknowledgement reaches
Hit(r, ack, ackBits) ==
  {AckSlot(r, Ahead(r.sequence, ack), p) : p \in ackBits \cap 0..(AckWidth - 2)}

\* streamReliabilityProcessAck
LEMMA AckFields ==
  ASSUME NEW r \in ReliabilityType, NEW ack \in 0..(MaxSequence - 1),
         NEW ackBits \in SUBSET BitPosition
  PROVE  LET q == ProcessAck(r, ack, ackBits)
         IN /\ q \in ReliabilityType
            /\ q.ack = r.ack /\ q.ackBits = r.ackBits
            /\ q.frontSent = r.frontSent /\ q.frontAcked = r.frontAcked
            /\ q.back = r.back /\ q.sequence = r.sequence
            /\ q.totalSent = r.totalSent /\ q.sentBytes = r.sentBytes
            /\ \A i \in Slot :
                 /\ q.packets[i].num = r.packets[i].num
                 /\ q.packets[i].time = r.packets[i].time
                 /\ \/ q.packets[i].acked = r.packets[i].acked
                    \/ /\ Ahead(r.sequence, ack) < BufferCapacity
                       /\ i \in Hit(r, ack, ackBits)
  <1> DEFINE q == ProcessAck(r, ack, ackBits)
             count == Ahead(r.sequence, ack)
             hit == Hit(r, ack, ackBits)
             new == {i \in hit : ~r.packets[i].acked}
             P == [i \in Slot |-> IF i \in new THEN [r.packets[i] EXCEPT !.acked = TRUE]
                                  ELSE r.packets[i]]
             t == r.totalAcked + Cardinality(new)
  <1>1. CASE r.frontSent = r.back \/ count >= BufferCapacity
    <2>1. q = r
      BY <1>1 DEF ProcessAck
    <2>2. QED
      BY <2>1
  <1>2. CASE ~(r.frontSent = r.back \/ count >= BufferCapacity)
    <2>1. q = [r EXCEPT !.packets = P, !.totalAcked = t]
      BY <1>2 DEF ProcessAck, Hit
    <2>2. count < BufferCapacity
      <3>1. count \in Int
        BY Fields, Positive DEF Ahead
      <3>2. QED
        BY <1>2, <3>1, Positive
    <2>3. hit \subseteq Slot
      <3>1. \A p \in 0..(AckWidth - 2) : AckSlot(r, count, p) \in Slot
        <4>1. decrease(r.back, count, BufferCapacity) \in Int
          <5>1. r.back \in Int /\ count \in Int
            BY Fields, Positive DEF Ahead, Slot
          <5>2. QED
            BY <5>1, Positive DEF decrease
        <4>2. QED
          BY <4>1, Positive, Remainder DEF AckSlot, Slot
      <3>2. QED
        BY <3>1 DEF Hit
    <2>4. t \in Nat
      <3>1. new \in SUBSET (0..(BufferCapacity - 1)) /\ 0 \in Int /\ BufferCapacity - 1 \in Int
        BY <2>3, Positive DEF Slot
      <3>2. Cardinality(new) \in Nat
        BY <3>1, SomeOf
      <3>3. QED
        BY <3>2, Fields
    <2>5. ASSUME NEW i \in Slot
          PROVE  /\ P[i] \in PacketMetadata /\ P[i].num = r.packets[i].num
                 /\ P[i].time = r.packets[i].time
                 /\ P[i].acked = r.packets[i].acked \/ i \in hit
      <3> DEFINE p == r.packets[i]
                 v == [p EXCEPT !.acked = TRUE]
      <3>1. p \in PacketMetadata
        BY Fields
      <3> HIDE DEF p
      <3>2. v \in PacketMetadata /\ v.num = p.num /\ v.time = p.time
        BY <3>1 DEF PacketMetadata
      <3>3. P[i] = IF i \in new THEN v ELSE p
        BY DEF p
      <3>4. i \in new => i \in hit
        OBVIOUS
      <3> HIDE DEF P, v, new, hit
      <3>5. QED
        BY <3>1, <3>2, <3>3, <3>4 DEF p
    <2>6. P \in [Slot -> PacketMetadata]
      <3>1. P = [i \in Slot |-> P[i]]
        OBVIOUS
      <3> HIDE DEF P
      <3>2. QED
        BY <2>5, <3>1
    <2> HIDE DEF q, P, t, hit, count
    <2>7. q \in ReliabilityType
      BY <2>1, <2>4, <2>6 DEF ReliabilityType
    <2>8. /\ q.packets = P /\ q.ack = r.ack /\ q.ackBits = r.ackBits
          /\ q.frontSent = r.frontSent /\ q.frontAcked = r.frontAcked
          /\ q.back = r.back /\ q.sequence = r.sequence
          /\ q.totalSent = r.totalSent /\ q.sentBytes = r.sentBytes
      BY <2>1 DEF ReliabilityType
    <2>9. \A i \in Slot : /\ q.packets[i].num = r.packets[i].num
                          /\ q.packets[i].time = r.packets[i].time
                          /\ q.packets[i].acked = r.packets[i].acked \/ i \in hit
      BY <2>5, <2>8
    <2>10. QED
      BY <2>2, <2>7, <2>8, <2>9 DEF q, hit, count
  <1>3. QED
    BY <1>1, <1>2

\* streamReliabilityPacketReceived
LEMMA ReceivedFields ==
  ASSUME NEW r \in ReliabilityType, NEW sequence \in 0..(MaxSequence - 1),
         NEW ack \in 0..(MaxSequence - 1), NEW ackBits \in SUBSET BitPosition
  PROVE  LET q == PacketReceived(r, sequence, ack, ackBits)
         IN /\ q \in ReliabilityType
            /\ q.ack = AckAfter(r, sequence) /\ q.ackBits = BitsAfter(r, sequence)
            /\ q.frontSent = r.frontSent /\ q.frontAcked = r.frontAcked
            /\ q.back = r.back /\ q.sequence = r.sequence
            /\ q.totalSent = r.totalSent /\ q.sentBytes = r.sentBytes
            /\ \A i \in Slot :
                 /\ q.packets[i].num = r.packets[i].num
                 /\ q.packets[i].time = r.packets[i].time
                 /\ \/ q.packets[i].acked = r.packets[i].acked
                    \/ /\ Ahead(r.sequence, ack) < BufferCapacity
                       /\ i \in Hit(r, ack, ackBits)
  <1> DEFINE s == ProcessSequence(r, sequence)
             q == ProcessAck(s, ack, ackBits)
  <1>1. PacketReceived(r, sequence, ack, ackBits) = q
    BY DEF PacketReceived
  <1>2. /\ s \in ReliabilityType
        /\ s.ack = AckAfter(r, sequence) /\ s.ackBits = BitsAfter(r, sequence)
        /\ s.packets = r.packets /\ s.frontSent = r.frontSent
        /\ s.frontAcked = r.frontAcked /\ s.back = r.back /\ s.sequence = r.sequence
        /\ s.totalSent = r.totalSent /\ s.sentBytes = r.sentBytes
    BY SequenceFields
  <1> HIDE DEF s
  <1>3. /\ q \in ReliabilityType
        /\ q.ack = s.ack /\ q.ackBits = s.ackBits
        /\ q.frontSent = s.frontSent /\ q.frontAcked = s.frontAcked
        /\ q.back = s.back /\ q.sequence = s.sequence
        /\ q.totalSent = s.totalSent /\ q.sentBytes = s.sentBytes
        /\ \A i \in Slot :
             /\ q.packets[i].num = s.packets[i].num
             /\ q.packets[i].time = s.packets[i].time
             /\ \/ q.packets[i].acked = s.packets[i].acked
                \/ /\ Ahead(s.sequence, ack) < BufferCapacity
                   /\ i \in Hit(s, ack, ackBits)
    BY <1>2, AckFields
  <1>4. Hit(s, ack, ackBits) = Hit(r, ack, ackBits)
    BY <1>2 DEF Hit, AckSlot
  <1> HIDE DEF q
  <1>5. QED
    BY <1>1, <1>2, <1>3, <1>4

-----------------------------------------------------------------------------
(* Types *)

LEMMA Peers ==
  ASSUME NEW e \in End
  PROVE  /\ Peer(e) \in End /\ Peer(e) # e /\ Peer(Peer(e)) = e
         /\ \A d \in End : d = e \/ d = Peer(e)
  <1>1. PICK a, b \in End : a # b /\ End = {a, b}
    BY EndAssumption
  <1>2. \E p \in End : p # e
    BY <1>1
  <1>3. Peer(e) \in End /\ Peer(e) # e
    BY <1>2 DEF Peer
  <1>4. Peer(Peer(e)) \in End /\ Peer(Peer(e)) # Peer(e)
    <2>1. \E p \in End : p # Peer(e)
      BY <1>3
    <2>2. QED
      BY <2>1 DEF Peer
  <1>5. QED
    BY <1>1, <1>3, <1>4

Types == TypeOK /\ net \in [End -> SUBSET Datagram]

LEMMA ClearType == streamReliabilityClear \in ReliabilityType
  <1> DEFINE X == [num |-> 0, sequence |-> 0, time |-> 0, acked |-> FALSE]
             P == [i \in Slot |-> X]
  <1>1. X \in PacketMetadata
    BY Positive DEF PacketMetadata
  <1> HIDE DEF X
  <1>2. P \in [Slot -> PacketMetadata]
    BY <1>1
  <1>3. 0 \in Slot /\ 0 \in 0..(MaxSequence - 1)
    BY Positive DEF Slot
  <1>4. streamReliabilityClear =
          [packets |-> P, frontSent |-> 0, frontAcked |-> 0, back |-> 0,
           sequence |-> 0, ack |-> 0, ackBits |-> {},
           totalSent |-> 0, totalAcked |-> 0, totalLost |-> 0,
           sentBytes |-> 0, ackedPackets |-> 0]
    BY DEF streamReliabilityClear, X
  <1> HIDE DEF P
  <1>5. QED
    BY <1>2, <1>3, <1>4 DEF ReliabilityType

LEMMA InitTypes == Init => Types
  BY ClearType DEF Init, Types, TypeOK

\* What the three steps do, for typed states
LEMMA TickStep ==
  ASSUME Types, NEW e \in End, TickIdle(e)
  PROVE  /\ ends' = [ends EXCEPT ![e] = Update(ends[e])] /\ Update(ends[e]) \in ReliabilityType
         /\ net' = net /\ received' = received /\ reported' = reported
         /\ Types'
  <1>1. ends[e] \in ReliabilityType
    BY DEF Types, TypeOK
  <1>2. Update(ends[e]) \in ReliabilityType
    BY <1>1, UpdateFields
  <1>3. /\ ends' = [ends EXCEPT ![e] = Update(ends[e])]
        /\ net' = net /\ received' = received /\ reported' = reported
    BY DEF TickIdle
  <1>4. Types'
    BY <1>2, <1>3 DEF Types, TypeOK
  <1>5. QED
    BY <1>2, <1>3, <1>4

Sending(r) == [num |-> r.totalSent, sequence |-> r.sequence, ack |-> r.ack, ackBits |-> r.ackBits]

LEMMA SendStep ==
  ASSUME Types, NEW e \in End, streamSend(e)
  PROVE  LET r == Update(ends[e]) IN
         /\ r \in ReliabilityType /\ Keeps(r, ends[e])
         /\ r.totalSent < MaxSends[e]
         /\ ends' = [ends EXCEPT ![e] = PacketSent(r)] /\ PacketSent(r) \in ReliabilityType
         /\ net' = [net EXCEPT ![Peer(e)] = net[Peer(e)] \cup {Sending(r)}]
         /\ Sending(r) \in Datagram
         /\ received' = received /\ reported' = reported
         /\ Types'
  <1> DEFINE r == Update(ends[e])
             m == Sending(r)
  <1>1. ends[e] \in ReliabilityType
    BY DEF Types, TypeOK
  <1>2. r \in ReliabilityType /\ Keeps(r, ends[e])
    BY <1>1, UpdateFields
  <1>3. PacketSent(r) \in ReliabilityType
    BY <1>2, SentFields
  <1>4. /\ r.totalSent < MaxSends[e]
        /\ ends' = [ends EXCEPT ![e] = PacketSent(r)]
        /\ net' = [net EXCEPT ![Peer(e)] = net[Peer(e)] \cup {m}]
        /\ received' = received /\ reported' = reported
    BY DEF streamSend, Sending
  <1> HIDE DEF r
  <1>5. m \in Datagram
    BY <1>2, Fields DEF Sending, Datagram
  <1> HIDE DEF m
  <1>6. net' \in [End -> SUBSET Datagram]
    BY <1>4, <1>5 DEF Types
  <1>7. ends' \in [End -> ReliabilityType]
    BY <1>3, <1>4 DEF Types, TypeOK
  <1>8. \A d \in End : \A n \in net'[d] : n \in Datagram
    BY <1>6
  <1>9. Types'
    BY <1>4, <1>6, <1>7, <1>8 DEF Types, TypeOK
  <1>10. QED
    BY <1>2, <1>3, <1>4, <1>5, <1>9 DEF r, m

LEMMA ReceiveStep ==
  ASSUME Types, NEW e \in End, NEW m \in net[e], streamReceive(e, m)
  PROVE  LET q == PacketReceived(ends[e], m.sequence, m.ack, m.ackBits) IN
         /\ m \in Datagram /\ m.num \in Nat /\ m.sequence \in 0..(MaxSequence - 1)
         /\ m.ack \in 0..(MaxSequence - 1) /\ m.ackBits \in SUBSET BitPosition
         /\ m.ack <= ends[e].sequence /\ ends[e].sequence - m.ack <= MaxLag
         /\ m.num \in (Newest(e) - MaxGap)..(Newest(e) + MaxGap)
         /\ ends' = [ends EXCEPT ![e] = q] /\ q \in ReliabilityType
         /\ received' = [received EXCEPT ![e] = received[e] \cup {m.num}]
         /\ reported' = [reported EXCEPT
              ![e] = IF m.num - Newest(e) >= AckWidth THEN {} ELSE reported[e] \cup {m.num}]
         /\ net' = net /\ Types'
  <1> DEFINE q == PacketReceived(ends[e], m.sequence, m.ack, m.ackBits)
             new == IF m.num - Newest(e) >= AckWidth THEN {} ELSE reported[e] \cup {m.num}
  <1>1. ends[e] \in ReliabilityType
    BY DEF Types, TypeOK
  <1>2. m \in Datagram
    BY DEF Types
  <1>3. /\ m.num \in Nat /\ m.sequence \in 0..(MaxSequence - 1)
        /\ m.ack \in 0..(MaxSequence - 1) /\ m.ackBits \in SUBSET BitPosition
    BY <1>2 DEF Datagram
  <1>4. q \in ReliabilityType
    BY <1>1, <1>3, ReceivedFields
  <1>5. /\ m.ack <= ends[e].sequence /\ ends[e].sequence - m.ack <= MaxLag
        /\ m.num \in (Newest(e) - MaxGap)..(Newest(e) + MaxGap)
        /\ ends' = [ends EXCEPT ![e] = q]
        /\ received' = [received EXCEPT ![e] = received[e] \cup {m.num}]
        /\ reported' = [reported EXCEPT ![e] = new]
        /\ net' = net
    BY DEF streamReceive
  <1>6. reported[e] \in SUBSET Nat /\ received[e] \in SUBSET Nat
    BY DEF Types, TypeOK
  <1>7. new \in SUBSET Nat
    BY <1>3, <1>6
  <1> HIDE DEF q, new
  <1>8. Types'
    <2>1. ends' \in [End -> ReliabilityType]
      BY <1>4, <1>5 DEF Types, TypeOK
    <2>2. received' \in [End -> SUBSET Nat] /\ reported' \in [End -> SUBSET Nat]
      BY <1>3, <1>5, <1>6, <1>7 DEF Types, TypeOK
    <2>3. QED
      BY <1>5, <2>1, <2>2 DEF Types, TypeOK
  <1>9. QED
    BY <1>2, <1>3, <1>4, <1>5, <1>8 DEF q, new

LEMMA NextTypes == Types /\ [Next]_vars => Types'
  <1> SUFFICES ASSUME Types, [Next]_vars PROVE Types'
    OBVIOUS
  <1>1. ASSUME NEW e \in End, TickIdle(e) PROVE Types'
    BY <1>1, TickStep
  <1>2. ASSUME NEW e \in End, streamSend(e) PROVE Types'
    BY <1>2, SendStep
  <1>3. ASSUME NEW e \in End, NEW m \in net[e], streamReceive(e, m) PROVE Types'
    BY <1>3, ReceiveStep
  <1>4. CASE UNCHANGED vars
    BY <1>4 DEF vars, Types, TypeOK
  <1>5. QED
    BY <1>1, <1>2, <1>3, <1>4 DEF Next

LEMMA AlwaysTypes == Spec => []Types
  BY InitTypes, NextTypes, PTL DEF Spec

\* The records of both ends, the datagrams and what was received keep their
\* types: no index leaves the ring and no number its range, whatever the
\* loops of streamReliabilityUpdate and streamReliabilityProcessAck do.
THEOREM LinkTypes == Spec => []TypeOK
  <1>1. Types => TypeOK
    BY DEF Types
  <1>2. QED
    BY <1>1, AlwaysTypes, PTL

-----------------------------------------------------------------------------
(* What the ends tell each other *)

\* No end sends so much that its sequence wraps around: MCStreamLinkWrap
\* shows what happens when it does.
NoWrap == \A e \in End : MaxSends[e] < MaxSequence

\* A packet is never so far from the newest one that the code takes an older
\* sequence for a newer one.
ShortGap == MaxGap <= MaxSequence \div 2

\* Number of the newest of a set of packets
Top(S) == IF S = {} THEN 0 ELSE Max(S)

HasTop(S) == S # {} => \E n \in S : \A k \in S : k <= n

LEMMA TopFacts ==
  ASSUME NEW S \in SUBSET Nat, HasTop(S)
  PROVE  /\ Top(S) \in Nat /\ (S # {} => Top(S) \in S) /\ (\A k \in S : k <= Top(S))
         /\ S = {} => Top(S) = 0
  <1>1. CASE S = {}
    BY <1>1 DEF Top
  <1>2. CASE S # {}
    <2>1. \E n \in S : \A k \in S : n >= k
      BY <1>2 DEF HasTop
    <2>2. Max(S) \in S /\ \A k \in S : Max(S) >= k
      BY <2>1 DEF Max
    <2>3. Top(S) = Max(S)
      BY <1>2 DEF Top
    <2>4. QED
      BY <1>2, <2>2, <2>3
  <1>3. QED
    BY <1>1, <1>2

LEMMA TopAdded ==
  ASSUME NEW S \in SUBSET Nat, HasTop(S), NEW n \in Nat
  PROVE  /\ HasTop(S \cup {n})
         /\ Top(S \cup {n}) = IF n > Top(S) THEN n ELSE Top(S)
  <1> DEFINE T == S \cup {n}
             t == IF n > Top(S) THEN n ELSE Top(S)
  <1>1. /\ Top(S) \in Nat /\ (S # {} => Top(S) \in S) /\ (\A k \in S : k <= Top(S))
        /\ (S = {} => Top(S) = 0)
    BY TopFacts
  <1>2. t \in T /\ (\A k \in T : k <= t) /\ t \in Nat
    <2>1. CASE n > Top(S)
      BY <1>1, <2>1
    <2>2. CASE ~(n > Top(S))
      <3>1. n <= Top(S)
        BY <1>1, <2>2
      <3>2. Top(S) \in T
        BY <1>1, <3>1
      <3>3. QED
        BY <1>1, <2>2, <3>1, <3>2
    <2>3. QED
      BY <2>1, <2>2
  <1> HIDE DEF t
  <1>3. HasTop(T)
    BY <1>2 DEF HasTop
  <1>4. Top(T) \in T /\ (\A k \in T : k <= Top(T)) /\ Top(T) \in Nat
    BY <1>2, <1>3, TopFacts
  <1>5. Top(T) = t
    BY <1>2, <1>4
  <1>6. QED
    BY <1>3, <1>5 DEF t

LEMMA NewestTop ==
  /\ \A e : Newest(e) = Top(received[e])
  /\ \A e : Newest(e)' = Top(received'[e])
  BY DEF Newest, Top

\* The entry that holds the packet sent j packets ago
BackBy(r, j) == IF r.back >= j THEN r.back - j ELSE r.back - j + BufferCapacity

RingNums(r) ==
  \A j \in 1..BufferCapacity :
    j <= r.totalSent => r.packets[BackBy(r, j)].num = r.totalSent - j

LEMMA BackBySlot ==
  ASSUME NEW r \in ReliabilityType, NEW j \in 1..BufferCapacity
  PROVE  BackBy(r, j) \in Slot
  BY Fields, Positive DEF BackBy, Slot

LEMMA KeptRing ==
  ASSUME NEW r \in ReliabilityType, NEW q, q.back = r.back, q.totalSent = r.totalSent,
         \A i \in Slot : q.packets[i].num = r.packets[i].num, RingNums(r)
  PROVE  RingNums(q)
  <1>1. \A j \in 1..BufferCapacity : BackBy(q, j) = BackBy(r, j) /\ BackBy(r, j) \in Slot
    BY BackBySlot DEF BackBy
  <1>2. QED
    BY <1>1 DEF RingNums

LEMMA SentRing ==
  ASSUME NEW r \in ReliabilityType, RingNums(r)
  PROVE  RingNums(PacketSent(r))
  <1> DEFINE q == PacketSent(r)
             B == BufferCapacity
  <1>1. /\ q \in ReliabilityType /\ q.back = increase(r.back, B)
        /\ q.totalSent = r.totalSent + 1
        /\ \A i \in Slot : i # r.back => q.packets[i] = r.packets[i]
        /\ q.packets[r.back].num = r.totalSent
    BY SentFields
  <1>2. r.back \in 0..(B - 1) /\ r.totalSent \in Nat /\ B \in Nat /\ B > 1
    BY Fields, Positive DEF Slot
  <1>3. q.back = IF r.back = B - 1 THEN 0 ELSE r.back + 1
    <2>1. r.back + 1 \in Int /\ (r.back = B - 1 => r.back + 1 = B)
          /\ (r.back # B - 1 => r.back + 1 < B)
      BY <1>2
    <2>2. QED
      BY <1>1, <1>2, <2>1, Remainder DEF increase
  <1> HIDE DEF q
  <1>4. ASSUME NEW j \in 1..B, j <= q.totalSent
        PROVE  q.packets[BackBy(q, j)].num = q.totalSent - j
    <2>1. CASE j = 1
      <3>1. BackBy(q, j) = r.back
        BY <1>2, <1>3, <2>1 DEF BackBy
      <3>2. QED
        BY <1>1, <1>2, <2>1, <3>1
    <2>2. CASE j # 1
      <3>1. /\ j - 1 \in 1..B /\ j - 1 <= r.totalSent
            /\ r.totalSent - (j - 1) = q.totalSent - j
        BY <1>1, <1>2, <1>4, <2>2
      <3>2. BackBy(q, j) = BackBy(r, j - 1) /\ BackBy(r, j - 1) # r.back
        BY <1>2, <1>3, <2>2 DEF BackBy
      <3>3. BackBy(r, j - 1) \in Slot
        BY <3>1, BackBySlot
      <3>4. r.packets[BackBy(r, j - 1)].num = r.totalSent - (j - 1)
        BY <3>1 DEF RingNums
      <3>5. QED
        BY <1>1, <3>1, <3>2, <3>3, <3>4
    <2>3. QED
      BY <2>1, <2>2
  <1>5. QED
    BY <1>4 DEF RingNums, q

\* An acknowledgement with a set bit p marks the packet p before the
\* acknowledged one, if it is still in the ring.
LEMMA AckSlotExact ==
  ASSUME NEW r \in ReliabilityType, RingNums(r), NEW count \in 1..(BufferCapacity - 1),
         NEW p \in Nat, count + p <= BufferCapacity, count + p <= r.totalSent
  PROVE  r.packets[AckSlot(r, count, p)].num = r.totalSent - (count + p)
  <1> DEFINE B == BufferCapacity
             j == count + p
             d == decrease(r.back, count, B)
  <1>1. r.back \in 0..(B - 1) /\ B \in Nat /\ B > 1
    BY Fields, Positive DEF Slot
  <1>2. d \in 0..(B - 1) /\ d = IF r.back >= count THEN r.back - count ELSE r.back + B - count
    BY <1>1 DEF decrease
  <1> HIDE DEF d
  <1>3. (d - p) % B = IF d >= p THEN d - p ELSE d - p + B
    <2>1. d - p \in Int /\ -B <= d - p /\ d - p < B
      BY <1>1, <1>2
    <2> DEFINE a == d - p
    <2>2. /\ 0 <= a /\ a < B => a % B = a
          /\ -B <= a /\ a < 0 => a % B = a + B
      BY <1>1, <2>1, Remainder
    <2>3. (d >= p <=> 0 <= a) /\ (~(d >= p) <=> a < 0)
      BY <1>2
    <2>4. a % B = IF d >= p THEN a ELSE a + B
      <3> HIDE DEF a
      <3>1. QED
        BY <2>1, <2>2, <2>3 DEF a
    <2>5. QED
      BY <2>4
  <1>4. AckSlot(r, count, p) = BackBy(r, j)
    <2>1. AckSlot(r, count, p) = (d - p) % B
      BY DEF AckSlot, d
    <2>2. BackBy(r, j) = IF r.back >= j THEN r.back - j ELSE r.back - j + B
      BY DEF BackBy
    <2>3. (IF d >= p THEN d - p ELSE d - p + B) = IF r.back >= j THEN r.back - j ELSE r.back - j + B
      BY <1>1, <1>2
    <2>4. QED
      BY <1>3, <2>1, <2>2, <2>3
  <1>5. j \in 1..B
    BY <1>1
  <1>6. QED
    BY <1>4, <1>5 DEF RingNums

\* Below the wrap-around a sequence is the number of its packet.
Counted ==
  \A e \in End : ends[e].sequence = ends[e].totalSent /\ ends[e].totalSent <= MaxSends[e]

\* An end has received only packets the other one sent.
Heard ==
  \A e \in End : /\ reported[e] \subseteq received[e] /\ HasTop(received[e])
                 /\ \A n \in received[e] : n < ends[Peer(e)].totalSent

\* What a datagram to e, which its peer sent, says of itself and of what the
\* peer has received from e
Truthful(e, m) ==
  /\ m.sequence = m.num /\ m.num < ends[Peer(e)].totalSent
  /\ m.ackBits # {} => m.ack < ends[e].totalSent
  /\ \A b \in m.ackBits : m.ack - b \in received[Peer(e)]

Flying == \A e \in End : \A m \in net[e] : Truthful(e, m)

Rings == \A e \in End : RingNums(ends[e])

LinkInv == Types /\ Counted /\ Heard /\ Flying /\ Rings /\ AckFieldExact

LEMMA InitLink == Init => LinkInv
  <1> SUFFICES ASSUME Init PROVE LinkInv
    OBVIOUS
  <1>1. /\ ends = [e \in End |-> streamReliabilityClear] /\ net = [e \in End |-> {}]
        /\ received = [e \in End |-> {}] /\ reported = [e \in End |-> {}]
    BY DEF Init
  <1>2. \A e \in End : /\ ends[e] = streamReliabilityClear /\ net[e] = {}
                       /\ received[e] = {} /\ reported[e] = {}
    BY <1>1
  <1>3. /\ streamReliabilityClear.sequence = 0 /\ streamReliabilityClear.totalSent = 0
        /\ streamReliabilityClear.ack = 0 /\ streamReliabilityClear.ackBits = {}
    BY DEF streamReliabilityClear
  <1>4. Types
    BY InitTypes
  <1>5. Counted
    BY <1>2, <1>3, LinkAssumption DEF Counted
  <1>6. Heard
    BY <1>2 DEF Heard, HasTop
  <1>7. Flying
    BY <1>2 DEF Flying
  <1>8. Rings
    <2>1. RingNums(streamReliabilityClear)
      BY <1>3 DEF RingNums
    <2>2. QED
      BY <1>2, <2>1 DEF Rings
  <1>9. AckFieldExact
    <2>1. \A e \in End : Newest(e) = 0
      BY <1>2, NewestTop DEF Top
    <2>2. 0 % MaxSequence = 0
      BY Positive, Remainder
    <2>3. QED
      BY <1>2, <1>3, <2>1, <2>2 DEF AckFieldExact
  <1>10. QED
    BY <1>4, <1>5, <1>6, <1>7, <1>8, <1>9 DEF LinkInv

\* A step that sends and receives nothing changes none of it.
LEMMA QuietLink ==
  ASSUME LinkInv, Types', \A e \in End : Keeps(ends'[e], ends[e]),
         net' = net, received' = received, reported' = reported
  PROVE  LinkInv'
  <1>1. \A e \in End : /\ ends'[e].sequence = ends[e].sequence
                       /\ ends'[e].totalSent = ends[e].totalSent
                       /\ ends'[e].ack = ends[e].ack /\ ends'[e].ackBits = ends[e].ackBits
    BY DEF Keeps
  <1>2. Counted'
    BY <1>1 DEF LinkInv, Counted
  <1>3. Heard'
    BY <1>1, Peers DEF LinkInv, Heard
  <1>4. Flying'
    <2>1. ASSUME NEW e \in End, NEW m \in net[e] PROVE Truthful(e, m)'
      <3>1. Truthful(e, m) /\ Peer(e) \in End
        BY Peers DEF LinkInv, Flying
      <3>2. QED
        BY <1>1, <3>1 DEF Truthful
    <2>2. QED
      BY <2>1 DEF Flying
  <1>5. Rings'
    <2>1. ASSUME NEW e \in End PROVE RingNums(ends'[e])
      <3>1. ends[e] \in ReliabilityType /\ RingNums(ends[e])
        BY DEF LinkInv, Types, TypeOK, Rings
      <3>2. /\ ends'[e].back = ends[e].back /\ ends'[e].totalSent = ends[e].totalSent
            /\ \A i \in Slot : ends'[e].packets[i].num = ends[e].packets[i].num
        BY DEF Keeps
      <3>3. QED
        BY <3>1, <3>2, KeptRing
    <2>2. QED
      BY <2>1 DEF Rings
  <1>6. AckFieldExact'
    <2>1. \A e \in End : Newest(e)' = Newest(e)
      BY NewestTop
    <2>2. QED
      BY <1>1, <2>1 DEF LinkInv, AckFieldExact
  <1>7. QED
    BY <1>2, <1>3, <1>4, <1>5, <1>6 DEF LinkInv

\* A packet that is sent tells what its sender has received.
LEMMA SendLink ==
  ASSUME NoWrap, LinkInv, NEW e \in End, streamSend(e)
  PROVE  LinkInv'
  <1> DEFINE r == Update(ends[e])
             q == PacketSent(r)
  <1>0. PICK m : m = Sending(r)
    OBVIOUS
  <1>1. /\ r \in ReliabilityType /\ Keeps(r, ends[e]) /\ r.totalSent < MaxSends[e]
        /\ ends' = [ends EXCEPT ![e] = q] /\ q \in ReliabilityType
        /\ net' = [net EXCEPT ![Peer(e)] = net[Peer(e)] \cup {m}] /\ m \in Datagram
        /\ received' = received /\ reported' = reported /\ Types'
    BY <1>0, SendStep DEF LinkInv
  <1> HIDE DEF r
  <1>2. /\ q.sequence = increase(r.sequence, MaxSequence) /\ q.totalSent = r.totalSent + 1
        /\ q.ack = r.ack /\ q.ackBits = r.ackBits
    BY <1>1, SentFields
  <1>3. /\ r.sequence = ends[e].sequence /\ r.totalSent = ends[e].totalSent
        /\ r.ack = ends[e].ack /\ r.ackBits = ends[e].ackBits /\ r.back = ends[e].back
        /\ \A i \in Slot : r.packets[i].num = ends[e].packets[i].num
    BY <1>1 DEF Keeps
  <1>4. ends[e] \in ReliabilityType /\ ends \in [End -> ReliabilityType]
    BY DEF LinkInv, Types, TypeOK
  <1>5. /\ ends[e].sequence = ends[e].totalSent /\ ends[e].totalSent \in Nat
        /\ MaxSends[e] \in Nat /\ MaxSends[e] < MaxSequence
    BY <1>4, Fields, LinkAssumption DEF LinkInv, Counted, NoWrap
  <1>6. /\ m.num = ends[e].totalSent /\ m.sequence = ends[e].sequence
        /\ m.ack = ends[e].ack /\ m.ackBits = ends[e].ackBits
    BY <1>0, <1>3 DEF Sending
  <1> HIDE DEF q
  <1>7. q.sequence = q.totalSent /\ q.totalSent = ends[e].totalSent + 1 /\ q.totalSent <= MaxSends[e]
    <2>1. /\ r.sequence + 1 \in Int /\ 0 <= r.sequence + 1 /\ r.sequence + 1 < MaxSequence
      BY <1>1, <1>3, <1>5, Positive
    <2>2. increase(r.sequence, MaxSequence) = r.sequence + 1
      BY <2>1, Positive, Remainder DEF increase
    <2>3. QED
      BY <1>1, <1>2, <1>3, <1>5, <2>2
  <1>8. \A d \in End : ends'[d] = IF d = e THEN q ELSE ends[d]
    BY <1>1, <1>4
  <1>9. \A d \in End : ends[d].totalSent \in Nat /\ ends'[d].totalSent \in Nat
                       /\ ends[d].totalSent <= ends'[d].totalSent
    <2>1. \A d \in End : ends[d].totalSent \in Nat
      BY <1>4, Fields
    <2>2. QED
      BY <1>5, <1>7, <1>8, <2>1
  <1>10. Counted'
    BY <1>7, <1>8 DEF LinkInv, Counted
  <1>11. Heard'
    <2>1. ASSUME NEW d \in End, NEW n \in received[d] PROVE n < ends'[Peer(d)].totalSent
      <3>1. Peer(d) \in End /\ n < ends[Peer(d)].totalSent /\ n \in Nat
        BY Peers DEF LinkInv, Heard, Types, TypeOK
      <3>2. QED
        BY <1>9, <3>1
    <2>2. QED
      BY <1>1, <2>1 DEF LinkInv, Heard
  \* what the new datagram says
  <1>12. Truthful(Peer(e), m)'
    <2>1. Peer(Peer(e)) = e /\ Peer(e) \in End /\ Peer(e) # e
      BY Peers
    <2>2. received[e] \in SUBSET Nat /\ HasTop(received[e]) /\ reported[e] \subseteq received[e]
          /\ \A n \in received[e] : n < ends[Peer(e)].totalSent
      BY DEF LinkInv, Types, TypeOK, Heard
    <2>3. /\ Newest(e) \in Nat /\ (received[e] # {} => Newest(e) \in received[e])
      BY <2>2, NewestTop, TopFacts
    <2>4. /\ m.ack = Newest(e) % MaxSequence
          /\ m.ackBits = {b \in BitPosition : Newest(e) - b \in reported[e]}
      BY <1>6 DEF LinkInv, AckFieldExact
    <2>5. ASSUME m.ackBits # {}
          PROVE  Newest(e) < ends[Peer(e)].totalSent /\ m.ack = Newest(e)
      <3>1. received[e] # {}
        BY <2>2, <2>4, <2>5
      <3>2. Newest(e) < ends[Peer(e)].totalSent
        BY <2>2, <2>3, <3>1
      <3>3. ends[Peer(e)].totalSent <= MaxSends[Peer(e)] /\ MaxSends[Peer(e)] < MaxSequence
            /\ MaxSends[Peer(e)] \in Nat /\ ends[Peer(e)].totalSent \in Nat
        BY <1>9, <2>1, LinkAssumption DEF LinkInv, Counted, NoWrap
      <3>4. 0 <= Newest(e) /\ Newest(e) < MaxSequence
        BY <2>3, <3>2, <3>3, Positive
      <3>5. Newest(e) % MaxSequence = Newest(e)
        BY <2>3, <3>4, Positive, Remainder
      <3>6. QED
        BY <2>4, <3>2, <3>5
    <2>6. \A b \in m.ackBits : m.ack - b \in received[e]
      BY <2>2, <2>4, <2>5
    <2>7. m.ackBits # {} => m.ack < ends'[Peer(e)].totalSent
      BY <1>8, <2>1, <2>5
    <2>8. m.sequence = m.num /\ m.num < ends'[e].totalSent
      BY <1>5, <1>6, <1>7, <1>8
    <2>9. QED
      BY <1>1, <2>1, <2>6, <2>7, <2>8 DEF Truthful
  <1>13. Flying'
    <2>1. ASSUME NEW d \in End, NEW n \in net[d] PROVE Truthful(d, n)'
      <3>1. Truthful(d, n) /\ Peer(d) \in End /\ n \in Datagram
        BY Peers DEF LinkInv, Flying, Types
      <3>2. n.num \in Nat /\ n.ack \in 0..(MaxSequence - 1)
        BY <3>1 DEF Datagram
      <3>3. /\ n.num < ends'[Peer(d)].totalSent
            /\ n.ackBits # {} => n.ack < ends'[d].totalSent
        BY <1>9, <3>1, <3>2 DEF Truthful
      <3>4. QED
        BY <1>1, <3>1, <3>3 DEF Truthful
    <2>2. ASSUME NEW d \in End, NEW n \in net'[d] PROVE n \in net[d] \/ (d = Peer(e) /\ n = m)
      BY <1>1, Peers DEF LinkInv, Types
    <2>3. QED
      BY <1>12, <2>1, <2>2 DEF Flying
  <1>14. Rings'
    <2>1. RingNums(ends[e])
      BY DEF LinkInv, Rings
    <2>2. RingNums(r)
      BY <1>3, <1>4, <2>1, KeptRing
    <2>3. RingNums(q)
      BY <1>1, <2>2, SentRing DEF q
    <2>4. QED
      BY <1>8, <2>3 DEF LinkInv, Rings
  <1>15. AckFieldExact'
    <2>1. \A d \in End : Newest(d)' = Newest(d)
      BY <1>1, NewestTop
    <2>2. q.ack = ends[e].ack /\ q.ackBits = ends[e].ackBits
      BY <1>2, <1>3
    <2>3. \A d \in End : ends'[d].ack = ends[d].ack /\ ends'[d].ackBits = ends[d].ackBits
      BY <1>8, <2>2
    <2>4. QED
      BY <1>1, <2>1, <2>3 DEF LinkInv, AckFieldExact
  <1>16. QED
    BY <1>1, <1>10, <1>11, <1>13, <1>14, <1>15 DEF LinkInv

\* The bit field follows the packets received: a newer one shifts it, an
\* older one sets its bit.
FieldOf(N, S) == {b \in BitPosition : N - b \in S}

LEMMA FieldFollows ==
  ASSUME NEW r \in ReliabilityType, NEW N \in Nat, NEW n \in Nat, NEW S \in SUBSET Nat,
         n < MaxSequence, N < MaxSequence, r.ack = N, \A k \in S : k <= N,
         r.ackBits = FieldOf(N, S),
         ShortGap, n \in (N - MaxGap)..(N + MaxGap)
  PROVE  /\ AckAfter(r, n) = IF n > N THEN n ELSE N
         /\ BitsAfter(r, n) = FieldOf(IF n > N THEN n ELSE N,
                                     IF n - N >= AckWidth THEN {} ELSE S \cup {n})
  <1> USE DEF FieldOf
  <1> HIDE DEF ShortGap
  <1>1. n - N <= MaxSequence \div 2 /\ N - n <= MaxSequence \div 2
    <2>1. MaxGap \in Nat /\ MaxGap <= MaxSequence \div 2 /\ MaxSequence \div 2 \in Int
      BY Positive, LinkAssumption DEF ShortGap
    <2>2. n - N <= MaxGap /\ N - n <= MaxGap
      BY <2>1
    <2>3. QED
      BY <2>1, <2>2
  <1>2. \A b \in BitPosition : b \in Nat /\ b < AckWidth
    BY Positive DEF BitPosition
  <1>3. CASE n > N
    <2> DEFINE d == n - N
               C == r.ackBits
    <2>1. isSequenceMoreRecent(n, r.ack, MaxSequence)
      BY <1>3, <1>1 DEF isSequenceMoreRecent
    <2>2. Ahead(n, r.ack) = d /\ d \in Nat /\ d > 0
      BY <1>3 DEF Ahead
    <2>3. AckAfter(r, n) = n
      BY <2>1 DEF AckAfter
    <2>4. BitsAfter(r, n) = IF d < AckWidth THEN ShiftLeft(C, d) \cup {0} ELSE {}
      BY <2>1, <2>2 DEF BitsAfter
    <2>5. CASE d < AckWidth
      <3>1. ASSUME NEW b \in BitPosition
            PROVE  b \in ShiftLeft(C, d) \cup {0} <=> n - b \in S \cup {n}
        <4>1. b \in Nat /\ b < AckWidth
          BY <1>2
        <4>2. b \in ShiftLeft(C, d) <=> \E c \in C : b = c + d
          BY DEF ShiftLeft
        <4>3. \A c \in BitPosition : c \in C <=> N - c \in S
          OBVIOUS
        <4>4. C \subseteq BitPosition
          OBVIOUS
        <4> HIDE DEF C
        <4>5. CASE b = 0
          BY <4>5
        <4>6. CASE b # 0 /\ b < d
          <5>1. n - b > N /\ n - b # n
            BY <4>1, <4>6
          <5>2. n - b \notin S \cup {n}
            <6>1. ASSUME n - b \in S PROVE FALSE
              <7>1. n - b <= N /\ n - b \in Nat
                BY <6>1
              <7>2. QED
                BY <5>1, <7>1
            <6>2. QED
              BY <5>1, <6>1
          <5>3. \A c \in C : b # c + d
            BY <1>2, <4>1, <4>4, <4>6, <2>2
          <5>4. QED
            BY <4>2, <4>6, <5>2, <5>3
        <4>7. CASE b # 0 /\ ~(b < d)
          <5>1. /\ b - d \in BitPosition /\ N - (b - d) = n - b /\ b = (b - d) + d /\ n - b # n
            BY <2>2, <4>1, <4>7, Positive DEF BitPosition
          <5>2. (\E c \in C : b = c + d) <=> b - d \in C
            <6>1. ASSUME NEW c \in C, b = c + d PROVE b - d \in C
              <7>1. c \in Nat
                BY <1>2, <4>4
              <7>2. c = b - d
                BY <2>2, <4>1, <6>1, <7>1
              <7>3. QED
                BY <7>2
            <6>2. QED
              BY <5>1, <6>1
          <5>3. b - d \in C <=> n - b \in S
            <6>1. b - d \in C <=> N - (b - d) \in S
              BY <4>3, <5>1
            <6>2. QED
              BY <5>1, <6>1
          <5>4. QED
            BY <4>2, <4>7, <5>1, <5>2, <5>3
        <4>8. QED
          BY <4>5, <4>6, <4>7
      <3>2. ShiftLeft(C, d) \cup {0} \subseteq BitPosition
        BY Positive DEF ShiftLeft, BitPosition
      <3>3. BitsAfter(r, n) = ShiftLeft(C, d) \cup {0}
        BY <2>4, <2>5
      <3>4. ~(n - N >= AckWidth)
        BY <2>5, Positive
      <3> HIDE DEF C, d
      <3>5. QED
        BY <1>3, <2>3, <3>1, <3>2, <3>3, <3>4
    <2>6. CASE ~(d < AckWidth)
      <3>1. n - N >= AckWidth /\ BitsAfter(r, n) = {}
        BY <2>2, <2>4, <2>6, Positive
      <3>2. QED
        BY <1>3, <2>3, <3>1
    <2>7. QED
      BY <2>5, <2>6
  <1>4. CASE ~(n > N)
    <2> DEFINE d == N - n
               C == r.ackBits
    <2>1. ~isSequenceMoreRecent(n, r.ack, MaxSequence)
      BY <1>4, <1>1, Positive DEF isSequenceMoreRecent
    <2>2. (IF r.ack = n THEN 0 ELSE Ahead(r.ack, n)) = d /\ d \in Nat
      BY <1>4 DEF Ahead
    <2>3. AckAfter(r, n) = N
      BY <2>1 DEF AckAfter
    <2>4. BitsAfter(r, n) = C \cup ({d} \cap BitPosition)
      BY <2>1, <2>2 DEF BitsAfter
    <2>5. ~(n - N >= AckWidth)
      BY <1>4, Positive
    <2>6. ASSUME NEW b \in BitPosition
          PROVE  b \in C \cup ({d} \cap BitPosition) <=> N - b \in S \cup {n}
      <3>1. b \in Nat /\ (b = d <=> N - b = n)
        BY <1>2
      <3>2. b \in C <=> N - b \in S
        OBVIOUS
      <3> HIDE DEF C, d
      <3>3. QED
        BY <3>1, <3>2
    <2>7. C \cup ({d} \cap BitPosition) \subseteq BitPosition
      OBVIOUS
    <2> HIDE DEF C, d
    <2>8. QED
      BY <1>4, <2>3, <2>4, <2>5, <2>6, <2>7
  <1>5. QED
    BY <1>3, <1>4

LEMMA ReceiveLink ==
  ASSUME NoWrap, ShortGap, LinkInv, NEW e \in End, NEW m \in net[e], streamReceive(e, m)
  PROVE  LinkInv'
  <1> DEFINE q == PacketReceived(ends[e], m.sequence, m.ack, m.ackBits)
             N == Newest(e)
             n == m.num
             T == IF n - N >= AckWidth THEN {} ELSE reported[e] \cup {n}
  <1>1. /\ m \in Datagram /\ n \in Nat /\ m.sequence \in 0..(MaxSequence - 1)
        /\ m.ack \in 0..(MaxSequence - 1) /\ m.ackBits \in SUBSET BitPosition
        /\ n \in (N - MaxGap)..(N + MaxGap)
        /\ ends' = [ends EXCEPT ![e] = q] /\ q \in ReliabilityType
        /\ received' = [received EXCEPT ![e] = received[e] \cup {n}]
        /\ reported' = [reported EXCEPT ![e] = T]
        /\ net' = net /\ Types'
    BY ReceiveStep DEF LinkInv
  <1>2. /\ ends[e] \in ReliabilityType /\ ends \in [End -> ReliabilityType]
        /\ received \in [End -> SUBSET Nat] /\ reported \in [End -> SUBSET Nat]
        /\ received[e] \in SUBSET Nat /\ reported[e] \in SUBSET Nat
    BY DEF LinkInv, Types, TypeOK
  <1>3. /\ q.ack = AckAfter(ends[e], m.sequence) /\ q.ackBits = BitsAfter(ends[e], m.sequence)
        /\ q.back = ends[e].back /\ q.sequence = ends[e].sequence
        /\ q.totalSent = ends[e].totalSent
        /\ \A i \in Slot : q.packets[i].num = ends[e].packets[i].num
    BY <1>1, <1>2, ReceivedFields
  <1>4. Truthful(e, m) /\ Peer(e) \in End
    BY Peers DEF LinkInv, Flying
  <1>5. /\ HasTop(received[e]) /\ reported[e] \subseteq received[e]
        /\ \A k \in received[e] : k < ends[Peer(e)].totalSent
    BY DEF LinkInv, Heard
  <1>6. m.sequence = n /\ n < ends[Peer(e)].totalSent
    BY <1>4 DEF Truthful
  <1>7. N \in Nat /\ (received[e] # {} => N \in received[e]) /\ (\A k \in received[e] : k <= N)
        /\ (received[e] = {} => N = 0)
    BY <1>2, <1>5, NewestTop, TopFacts
  <1>8. ends[Peer(e)].totalSent \in Nat /\ ends[Peer(e)].totalSent < MaxSequence
    <2>1. /\ ends[Peer(e)].totalSent \in Nat /\ ends[Peer(e)].totalSent <= MaxSends[Peer(e)]
          /\ MaxSends[Peer(e)] < MaxSequence /\ MaxSends[Peer(e)] \in Nat
      BY <1>2, <1>4, Fields, LinkAssumption DEF LinkInv, Counted, NoWrap
    <2>2. QED
      BY <2>1, Positive
  <1>9. N < MaxSequence /\ n < MaxSequence
    <2>1. n < MaxSequence
      BY <1>1, <1>6, <1>8, Positive
    <2>2. N < MaxSequence
      BY <1>5, <1>7, <1>8, Positive
    <2>3. QED
      BY <2>1, <2>2
  <1>10. Newest(e)' = IF n > N THEN n ELSE N
    <2>1. received'[e] = received[e] \cup {n}
      BY <1>1, <1>2
    <2>2. Top(received[e] \cup {n}) = IF n > Top(received[e]) THEN n ELSE Top(received[e])
      BY <1>1, <1>2, <1>5, TopAdded
    <2>3. QED
      BY <2>1, <2>2, NewestTop
  <1>11. N % MaxSequence = N /\ Newest(e)' % MaxSequence = Newest(e)'
    <2>1. \A k \in Nat : k < MaxSequence => k % MaxSequence = k
      <3>1. ASSUME NEW k \in Nat, k < MaxSequence PROVE k % MaxSequence = k
        BY <3>1, Positive, Remainder
      <3>2. QED
        BY <3>1
    <2>2. Newest(e)' \in Nat /\ Newest(e)' < MaxSequence
      BY <1>1, <1>7, <1>9, <1>10
    <2>3. QED
      BY <1>7, <1>9, <2>1, <2>2
  <1> HIDE DEF q, N, n, T
  <1>12. /\ q.ack = IF n > N THEN n ELSE N
         /\ q.ackBits = {b \in BitPosition : (IF n > N THEN n ELSE N) - b \in T}
    <2>1. /\ ends[e].ack = N /\ ends[e].ackBits = {b \in BitPosition : N - b \in reported[e]}
      BY <1>11 DEF LinkInv, AckFieldExact, N
    <2>2. \A k \in reported[e] : k <= N
      BY <1>5, <1>7
    <2>4. /\ AckAfter(ends[e], n) = IF n > N THEN n ELSE N
          /\ BitsAfter(ends[e], n) =
               {b \in BitPosition : (IF n > N THEN n ELSE N) - b
                                      \in IF n - N >= AckWidth THEN {} ELSE reported[e] \cup {n}}
      <3> DEFINE r == ends[e]
                 S == reported[e]
      <3>1. /\ r \in ReliabilityType /\ N \in Nat /\ n \in Nat /\ S \in SUBSET Nat
            /\ n < MaxSequence /\ N < MaxSequence /\ r.ack = N /\ (\A k \in S : k <= N)
            /\ r.ackBits = FieldOf(N, S)
            /\ ShortGap /\ n \in (N - MaxGap)..(N + MaxGap)
        BY <1>1, <1>2, <1>7, <1>9, <2>1, <2>2 DEF FieldOf
      <3> HIDE DEF r, S
      <3>2. /\ AckAfter(r, n) = IF n > N THEN n ELSE N
            /\ BitsAfter(r, n) = FieldOf(IF n > N THEN n ELSE N,
                                        IF n - N >= AckWidth THEN {} ELSE S \cup {n})
        BY <3>1, FieldFollows
      <3>3. QED
        BY <3>2 DEF r, S, FieldOf
    <2>5. QED
      BY <1>3, <1>6, <2>4 DEF T
  <1>13. \A d \in End : /\ ends'[d] = IF d = e THEN q ELSE ends[d]
                        /\ received'[d] = IF d = e THEN received[e] \cup {n} ELSE received[d]
                        /\ reported'[d] = IF d = e THEN T ELSE reported[d]
    BY <1>1, <1>2
  <1>14. \A d \in End : /\ ends'[d].totalSent = ends[d].totalSent
                        /\ ends'[d].sequence = ends[d].sequence
                        /\ received[d] \subseteq received'[d]
    BY <1>3, <1>13
  <1>15. Counted'
    BY <1>14 DEF LinkInv, Counted
  <1>16. Heard'
    <2>1. ASSUME NEW d \in End
          PROVE  /\ reported'[d] \subseteq received'[d] /\ HasTop(received'[d])
                 /\ \A k \in received'[d] : k < ends'[Peer(d)].totalSent
      <3>1. Peer(d) \in End /\ ends'[Peer(d)].totalSent = ends[Peer(d)].totalSent
        BY <1>14, Peers
      <3>2. CASE d = e
        <4>1. HasTop(received[e] \cup {n})
          BY <1>1, <1>2, <1>5, TopAdded
        <4>2. T \subseteq received[e] \cup {n}
          BY <1>5 DEF T
        <4>3. QED
          BY <1>5, <1>6, <1>13, <3>1, <3>2, <4>1, <4>2
      <3>3. CASE d # e
        BY <1>13, <3>1, <3>3 DEF LinkInv, Heard
      <3>4. QED
        BY <3>2, <3>3
    <2>2. QED
      BY <2>1 DEF Heard
  <1>17. Flying'
    <2>1. ASSUME NEW d \in End, NEW k \in net[d] PROVE Truthful(d, k)'
      <3>1. Truthful(d, k) /\ Peer(d) \in End
        BY Peers DEF LinkInv, Flying
      <3>2. QED
        BY <1>14, <3>1 DEF Truthful
    <2>2. QED
      BY <1>1, <2>1 DEF Flying
  <1>18. Rings'
    <2>1. RingNums(ends[e])
      BY DEF LinkInv, Rings
    <2>2. RingNums(q)
      BY <1>2, <1>3, <2>1, KeptRing
    <2>3. QED
      BY <1>13, <2>2 DEF LinkInv, Rings
  <1>19. AckFieldExact'
    <2>1. ASSUME NEW d \in End
          PROVE  /\ ends'[d].ack = Newest(d)' % MaxSequence
                 /\ ends'[d].ackBits = {b \in BitPosition : Newest(d)' - b \in reported'[d]}
      <3>1. CASE d = e
        BY <1>10, <1>11, <1>12, <1>13, <3>1
      <3>2. CASE d # e
        <4>1. Newest(d)' = Newest(d)
          BY <1>13, <3>2, NewestTop
        <4>2. QED
          BY <1>13, <3>2, <4>1 DEF LinkInv, AckFieldExact
      <3>3. QED
        BY <3>1, <3>2
    <2>2. QED
      BY <2>1 DEF AckFieldExact
  <1>20. QED
    BY <1>1, <1>15, <1>16, <1>17, <1>18, <1>19 DEF LinkInv

LEMMA NextLink ==
  ASSUME NoWrap, ShortGap, LinkInv, [Next]_vars
  PROVE  LinkInv'
  <1>1. Types /\ \A d \in End : ends[d] \in ReliabilityType
    BY DEF LinkInv, Types, TypeOK
  <1>2. ASSUME NEW e \in End, TickIdle(e) PROVE LinkInv'
    <2> DEFINE u == Update(ends[e])
    <2>1. /\ ends' = [ends EXCEPT ![e] = u]
          /\ net' = net /\ received' = received /\ reported' = reported /\ Types'
      BY <1>1, <1>2, TickStep
    <2>2. Keeps(u, ends[e])
      BY <1>1, UpdateFields
    <2>3. \A d \in End : Keeps(ends[d], ends[d])
      BY DEF Keeps
    <2> HIDE DEF u
    <2>4. \A d \in End : ends'[d] = IF d = e THEN u ELSE ends[d]
      BY <2>1 DEF LinkInv, Types, TypeOK
    <2>5. \A d \in End : Keeps(ends'[d], ends[d])
      BY <2>2, <2>3, <2>4
    <2>6. QED
      BY <2>1, <2>5, QuietLink
  <1>3. ASSUME NEW e \in End, streamSend(e) PROVE LinkInv'
    BY <1>3, SendLink
  <1>4. ASSUME NEW e \in End, NEW m \in net[e], streamReceive(e, m) PROVE LinkInv'
    BY <1>4, ReceiveLink
  <1>5. CASE UNCHANGED vars
    <2>1. ends' = ends /\ net' = net /\ received' = received /\ reported' = reported
      BY <1>5 DEF vars
    <2>2. Types'
      BY <1>1, <2>1 DEF Types, TypeOK
    <2>3. \A d \in End : Keeps(ends'[d], ends[d])
      BY <2>1 DEF Keeps
    <2>4. QED
      BY <2>1, <2>2, <2>3, QuietLink
  <1>6. QED
    BY <1>2, <1>3, <1>4, <1>5 DEF Next

\* ack and ackBits tell exactly which of the newest packets an end has
\* received (streamReliabilityProcessSequence), however datagrams are lost,
\* duplicated and reordered, as long as no sequence wraps around and no packet
\* is delivered half the sequence space away from the newest one.
THEOREM AckFieldAlwaysExact ==
  ASSUME NoWrap, ShortGap
  PROVE  Spec => []AckFieldExact
  <1>1. Init => LinkInv
    BY InitLink
  <1>2. LinkInv /\ [Next]_vars => LinkInv'
    BY NextLink
  <1>3. LinkInv => AckFieldExact
    BY DEF LinkInv
  <1>4. QED
    BY <1>1, <1>2, <1>3, PTL DEF Spec

\* The last bit the loop of streamReliabilityProcessAck reads of an
\* acknowledgement that arrives late is still about a packet in the ring.
\* (35 entries and 31 bits leave room for a lag of 5 packets.)
ShortLag == MaxLag + AckWidth - 2 <= BufferCapacity

LEMMA HitWasReceived ==
  ASSUME ShortLag, LinkInv, NEW e \in End, NEW m \in net[e], streamReceive(e, m),
         Ahead(ends[e].sequence, m.ack) < BufferCapacity,
         NEW i \in Hit(ends[e], m.ack, m.ackBits)
  PROVE  ends[e].packets[i].num \in received[Peer(e)]
  <1> DEFINE r == ends[e]
             count == Ahead(r.sequence, m.ack)
  <1>1. /\ m.ack \in 0..(MaxSequence - 1) /\ m.ackBits \in SUBSET BitPosition
        /\ m.ack <= r.sequence /\ r.sequence - m.ack <= MaxLag
    BY ReceiveStep DEF LinkInv
  <1>2. /\ r \in ReliabilityType /\ r.totalSent \in Nat /\ r.sequence = r.totalSent
        /\ RingNums(r)
    BY Fields DEF LinkInv, Types, TypeOK, Counted, Rings
  <1>3. PICK p \in m.ackBits \cap 0..(AckWidth - 2) : i = AckSlot(r, count, p)
    BY DEF Hit
  <1>4. m.ack < r.totalSent /\ m.ack - p \in received[Peer(e)]
    BY <1>3 DEF LinkInv, Flying, Truthful
  <1>5. m.ack - p \in Nat
    BY <1>4, Peers DEF LinkInv, Types, TypeOK
  <1>6. count = r.totalSent - m.ack
    BY <1>1, <1>2, <1>4 DEF Ahead
  <1>7. p \in Nat /\ p <= AckWidth - 2
    BY <1>3, Positive
  <1>8. /\ count \in 1..(BufferCapacity - 1) /\ count + p <= r.totalSent
        /\ r.totalSent - (count + p) = m.ack - p
    <2>1. count < BufferCapacity
      OBVIOUS
    <2> HIDE DEF count, r
    <2>2. QED
      BY <1>1, <1>2, <1>4, <1>5, <1>6, <1>7, <2>1, Positive
  <1>9. count + p <= BufferCapacity
    <2> HIDE DEF count, r
    <2>1. MaxLag \in Nat /\ MaxLag + AckWidth - 2 <= BufferCapacity /\ count <= MaxLag
      BY <1>1, <1>2, <1>6, LinkAssumption DEF ShortLag
    <2>2. count \in Int
      BY <1>8, Positive
    <2>3. QED
      BY <1>7, <2>1, <2>2, Positive
  <1> HIDE DEF r, count
  <1>10. r.packets[AckSlot(r, count, p)].num = r.totalSent - (count + p)
    BY <1>2, <1>7, <1>8, <1>9, AckSlotExact
  <1>11. QED
    BY <1>3, <1>4, <1>8, <1>10 DEF r

LEMMA NextAcked ==
  ASSUME ShortLag, LinkInv, AckedWasReceived, [Next]_vars
  PROVE  AckedWasReceived'
  <1>1. /\ Types /\ ends \in [End -> ReliabilityType] /\ received \in [End -> SUBSET Nat]
        /\ \A d \in End : ends[d] \in ReliabilityType /\ Peer(d) \in End
    BY Peers DEF LinkInv, Types, TypeOK
  <1>2. ASSUME NEW e \in End, NEW q, ends' = [ends EXCEPT ![e] = q],
               \A d \in End : received[d] \subseteq received'[d],
               \A i \in Slot : q.packets[i].acked => q.packets[i].num \in received[Peer(e)]
        PROVE  AckedWasReceived'
    <2>1. ASSUME NEW d \in End, NEW i \in Slot, ends'[d].packets[i].acked
          PROVE  ends'[d].packets[i].num \in received'[Peer(d)]
      <3>1. ends'[d] = IF d = e THEN q ELSE ends[d]
        BY <1>1, <1>2
      <3>2. ends'[d].packets[i].num \in received[Peer(d)]
        BY <1>2, <2>1, <3>1 DEF AckedWasReceived
      <3>3. QED
        BY <1>1, <1>2, <3>2
    <2>2. QED
      BY <2>1 DEF AckedWasReceived
  <1>3. ASSUME NEW e \in End, TickIdle(e) PROVE AckedWasReceived'
    <2> DEFINE u == Update(ends[e])
    <2>1. ends' = [ends EXCEPT ![e] = u] /\ received' = received
      BY <1>1, <1>3, TickStep
    <2>2. Keeps(u, ends[e])
      BY <1>1, UpdateFields
    <2> HIDE DEF u
    <2>3. \A i \in Slot : u.packets[i].acked => u.packets[i].num \in received[Peer(e)]
      BY <2>2 DEF Keeps, AckedWasReceived
    <2>4. QED
      BY <1>2, <2>1, <2>3
  <1>4. ASSUME NEW e \in End, streamSend(e) PROVE AckedWasReceived'
    <2> DEFINE u == Update(ends[e])
               q == PacketSent(u)
    <2>1. /\ u \in ReliabilityType /\ Keeps(u, ends[e])
          /\ ends' = [ends EXCEPT ![e] = q] /\ received' = received
      BY <1>1, <1>4, SendStep
    <2>2. /\ \A i \in Slot : i # u.back => q.packets[i] = u.packets[i]
          /\ ~q.packets[u.back].acked
      BY <2>1, SentFields
    <2> HIDE DEF u, q
    <2>3. \A i \in Slot : u.packets[i].acked => u.packets[i].num \in received[Peer(e)]
      BY <2>1 DEF Keeps, AckedWasReceived
    <2>4. \A i \in Slot : q.packets[i].acked => q.packets[i].num \in received[Peer(e)]
      BY <2>2, <2>3
    <2>5. QED
      BY <1>2, <2>1, <2>4
  <1>5. ASSUME NEW e \in End, NEW m \in net[e], streamReceive(e, m) PROVE AckedWasReceived'
    <2> DEFINE q == PacketReceived(ends[e], m.sequence, m.ack, m.ackBits)
    <2>1. /\ m.num \in Nat /\ m.sequence \in 0..(MaxSequence - 1)
          /\ m.ack \in 0..(MaxSequence - 1) /\ m.ackBits \in SUBSET BitPosition
          /\ ends' = [ends EXCEPT ![e] = q]
          /\ received' = [received EXCEPT ![e] = received[e] \cup {m.num}]
      BY <1>1, <1>5, ReceiveStep
    <2>2. \A i \in Slot :
            /\ q.packets[i].num = ends[e].packets[i].num
            /\ \/ q.packets[i].acked = ends[e].packets[i].acked
               \/ /\ Ahead(ends[e].sequence, m.ack) < BufferCapacity
                  /\ i \in Hit(ends[e], m.ack, m.ackBits)
      BY <1>1, <2>1, ReceivedFields
    <2> HIDE DEF q
    <2>3. ASSUME NEW i \in Slot, q.packets[i].acked
          PROVE  q.packets[i].num \in received[Peer(e)]
      <3>1. CASE q.packets[i].acked = ends[e].packets[i].acked
        BY <2>2, <2>3, <3>1 DEF AckedWasReceived
      <3>2. CASE /\ Ahead(ends[e].sequence, m.ack) < BufferCapacity
                 /\ i \in Hit(ends[e], m.ack, m.ackBits)
        <4>1. ends[e].packets[i].num \in received[Peer(e)]
          BY <1>5, <3>2, HitWasReceived
        <4>2. QED
          BY <2>2, <4>1
      <3>3. QED
        BY <2>2, <3>1, <3>2
    <2>4. \A d \in End : received[d] \subseteq received'[d]
      BY <1>1, <2>1
    <2>5. QED
      BY <1>2, <2>1, <2>3, <2>4
  <1>6. CASE UNCHANGED vars
    BY <1>6 DEF vars, AckedWasReceived
  <1>7. QED
    BY <1>3, <1>4, <1>5, <1>6 DEF Next

\* An entry of the ring is marked acked only if the remote side received that
\* very packet (streamReliabilityProcessAck), if besides no acknowledgement
\* arrives later than the ring reaches back.
THEOREM AckedAlwaysReceived ==
  ASSUME NoWrap, ShortGap, ShortLag
  PROVE  Spec => []AckedWasReceived
  <1>1. Init => LinkInv /\ AckedWasReceived
    <2>1. ASSUME Init PROVE AckedWasReceived
      <3>1. \A e \in End : ends[e] = streamReliabilityClear
        BY <2>1 DEF Init
      <3>2. \A i \in Slot : ~streamReliabilityClear.packets[i].acked
        BY DEF streamReliabilityClear
      <3>3. QED
        BY <3>1, <3>2 DEF AckedWasReceived
    <2>2. QED
      BY <2>1, InitLink
  <1>2. LinkInv /\ AckedWasReceived /\ [Next]_vars => LinkInv' /\ AckedWasReceived'
    BY NextLink, NextAcked
  <1>3. QED
    BY <1>1, <1>2, PTL DEF Spec

-----------------------------------------------------------------------------
(* The ring of sent packets *)

\* The ring has room for a packet of every tick of two round trips (35 > 30).
TwoRtts == BufferCapacity > 2 * MaxRtt

\* Time of the packet sent j packets ago
Age(r, j) == r.packets[BackBy(r, j)].time

\* The packets of the acked list were sent in different ticks, and what has
\* left the sent list is older than MaxRtt.  While the sent list is empty
\* time stands still for the acked list, which is why the slope is needed.
Aging(r) ==
  /\ r.sentBytes = SentWindow(r) /\ SentWindow(r) <= AckedWindow(r)
  /\ \A j \in 1..AckedWindow(r) : j - 1 <= Age(r, j) /\ Age(r, j) < 2 * MaxRtt
  /\ \A j, k \in 1..AckedWindow(r) : j <= k => Age(r, k) - Age(r, j) >= k - j
  /\ \A j \in (SentWindow(r) + 1)..AckedWindow(r) : Age(r, j) >= MaxRtt + 1

LEMMA DistanceLinear ==
  ASSUME NEW r \in ReliabilityType, NEW f \in Slot
  PROVE  Distance(r, f) = IF r.back >= f THEN r.back - f ELSE r.back - f + BufferCapacity
  <1> DEFINE B == BufferCapacity
             a == r.back - f
  <1>1. r.back \in 0..(B - 1) /\ f \in 0..(B - 1) /\ B \in Nat /\ B > 1
    BY Fields, Positive DEF Slot
  <1>2. a \in Int /\ -B <= a /\ a < B /\ (r.back >= f <=> 0 <= a)
    BY <1>1
  <1>3. /\ 0 <= a /\ a < B => a % B = a
        /\ -B <= a /\ a < 0 => a % B = a + B
    BY <1>1, <1>2, Remainder
  <1>4. a % B = IF 0 <= a THEN a ELSE a + B
    <2> HIDE DEF a
    <2>1. QED
      BY <1>2, <1>3
  <1>5. Distance(r, f) = a % B
    BY DEF Distance
  <1>6. QED
    BY <1>2, <1>4, <1>5

LEMMA RingPlaces ==
  ASSUME NEW r \in ReliabilityType, NEW f \in Slot
  PROVE  /\ Distance(r, f) \in 0..(BufferCapacity - 1)
         /\ \A k \in 0..(Distance(r, f) - 1) : After(f, k) = BackBy(r, Distance(r, f) - k)
         /\ \A k \in 0..Distance(r, f) : /\ After(f, k) \in Slot
                                         /\ Distance(r, After(f, k)) = Distance(r, f) - k
  <1> DEFINE B == BufferCapacity
             D == Distance(r, f)
  <1>1. r.back \in 0..(B - 1) /\ f \in 0..(B - 1) /\ B \in Nat /\ B > 1
    BY Fields, Positive DEF Slot
  <1>2. ASSUME NEW g \in 0..(B - 1)
        PROVE  Distance(r, g) = IF r.back >= g THEN r.back - g ELSE r.back - g + B
    <2>1. g \in Slot
      BY DEF Slot
    <2>2. QED
      BY <2>1, DistanceLinear
  <1>3. D = (IF r.back >= f THEN r.back - f ELSE r.back - f + B) /\ D \in 0..(B - 1)
    BY <1>1, <1>2
  <1> HIDE DEF D
  <1>4. ASSUME NEW k \in 0..D
        PROVE  After(f, k) = (IF f + k < B THEN f + k ELSE f + k - B) /\ After(f, k) \in 0..(B - 1)
    <2> DEFINE a == f + k
    <2>1. a \in Int /\ 0 <= a /\ a < 2 * B
      BY <1>1, <1>3
    <2>2. After(f, k) = a % B
      BY DEF After
    <2>3. a % B = (IF a < B THEN a ELSE a - B) /\ a % B \in 0..(B - 1)
      <3>1. /\ a % B \in 0..(B - 1)
            /\ 0 <= a /\ a < B => a % B = a
            /\ B <= a /\ a < 2 * B => a % B = a - B
        BY <1>1, <2>1, Remainder
      <3> HIDE DEF a
      <3>2. QED
        BY <1>1, <2>1, <3>1
    <2> HIDE DEF a
    <2>4. After(f, k) = (IF a < B THEN a ELSE a - B) /\ After(f, k) \in 0..(B - 1)
      BY <2>2, <2>3
    <2>5. a = f + k
      BY DEF a
    <2>6. f \in Int /\ k \in Int /\ B \in Int
      BY <1>1, <1>3
    <2>7. QED
      BY <2>1, <2>4, <2>5, <2>6
  <1>5. ASSUME NEW k \in 0..(D - 1) PROVE After(f, k) = BackBy(r, D - k)
    <2>1. k \in 0..D /\ BackBy(r, D - k) = IF r.back >= D - k THEN r.back - (D - k)
                                          ELSE r.back - (D - k) + B
      BY <1>3 DEF BackBy
    <2>2. QED
      BY <1>1, <1>3, <1>4, <2>1
  <1>6. ASSUME NEW k \in 0..D PROVE After(f, k) \in Slot /\ Distance(r, After(f, k)) = D - k
    <2> DEFINE g == After(f, k)
    <2>1. g = (IF f + k < B THEN f + k ELSE f + k - B) /\ g \in 0..(B - 1)
      BY <1>4
    <2>2. Distance(r, g) = IF r.back >= g THEN r.back - g ELSE r.back - g + B
      BY <1>2, <2>1
    <2> HIDE DEF g
    <2>3. Distance(r, g) = D - k
      BY <1>1, <1>3, <2>1, <2>2
    <2>4. QED
      BY <2>1, <2>3 DEF g, Slot
  <1>7. QED
    BY <1>3, <1>5, <1>6 DEF D

\* The two windows and the ages of the entries in them
LEMMA Windows ==
  ASSUME NEW r \in ReliabilityType
  PROVE  /\ SentWindow(r) \in 0..(BufferCapacity - 1)
         /\ AckedWindow(r) \in 0..(BufferCapacity - 1)
         /\ \A j \in 1..AckedWindow(r) : BackBy(r, j) \in Slot /\ Age(r, j) \in 0..(2 * MaxRtt)
  <1>1. r.frontSent \in Slot /\ r.frontAcked \in Slot
    BY Fields
  <1>2. /\ SentWindow(r) \in 0..(BufferCapacity - 1)
        /\ AckedWindow(r) \in 0..(BufferCapacity - 1)
    BY <1>1, RingPlaces DEF SentWindow, AckedWindow
  <1>3. ASSUME NEW j \in 1..AckedWindow(r)
        PROVE  BackBy(r, j) \in Slot /\ Age(r, j) \in 0..(2 * MaxRtt)
    <2>1. j \in 1..BufferCapacity
      BY <1>2, Positive
    <2>2. BackBy(r, j) \in Slot
      BY <2>1, BackBySlot
    <2>3. QED
      BY <2>2, Fields DEF Age
  <1>4. QED
    BY <1>2, <1>3

\* What a tick does to the windows, in terms of how long ago packets were sent
LEMMA TickedWindows ==
  ASSUME NEW r \in ReliabilityType, NEW u \in ReliabilityType, u.back = r.back,
         NEW gone, NEW out, Ticked(u, r, gone, out), Aging(r)
  PROVE  LET S == SentWindow(r)
             A == AckedWindow(r)
         IN /\ gone \in 0..S /\ out \in 0..A
            /\ SentWindow(u) = S - gone /\ AckedWindow(u) = A - out
            /\ u.sentBytes = r.sentBytes - gone
            /\ \A j \in 1..A : Age(u, j) = Age(r, j) + 1
            /\ \A j \in (S - gone + 1)..S : Age(u, j) >= MaxRtt + 1
            /\ gone = S \/ Age(u, S - gone) < MaxRtt + 1
            /\ \A j \in (A - out + 1)..A : Age(u, j) >= 2 * MaxRtt
            /\ out = A \/ Age(u, A - out) < 2 * MaxRtt
  <1> DEFINE S == SentWindow(r)
             A == AckedWindow(r)
  <1>1. /\ S = Distance(r, r.frontSent) /\ A = Distance(r, r.frontAcked)
        /\ S \in 0..(BufferCapacity - 1) /\ A \in 0..(BufferCapacity - 1)
        /\ r.frontSent \in Slot /\ r.frontAcked \in Slot
    BY Windows, Fields DEF SentWindow, AckedWindow
  <1>2. /\ \A k \in 0..(S - 1) : After(r.frontSent, k) = BackBy(r, S - k)
        /\ \A k \in 0..S : Distance(r, After(r.frontSent, k)) = S - k
    BY <1>1, RingPlaces
  <1>3. /\ \A k \in 0..(A - 1) : After(r.frontAcked, k) = BackBy(r, A - k)
        /\ \A k \in 0..A : Distance(r, After(r.frontAcked, k)) = A - k
    BY <1>1, RingPlaces
  <1>4. /\ \A j \in 1..A : BackBy(r, j) \in Slot /\ Age(r, j) \in 0..(2 * MaxRtt)
        /\ \A j \in 1..A : Age(r, j) < 2 * MaxRtt
    BY Windows DEF Aging
  <1>5. \A j : BackBy(u, j) = BackBy(r, j)
    BY DEF BackBy
  <1>6. /\ \A i \in Slot : u.packets[i].time = Older(r.packets[i].time)
        /\ u.frontSent = After(r.frontSent, gone) /\ u.sentBytes = r.sentBytes - gone
        /\ gone \in 0..S
        /\ \A j \in 0..(gone - 1) : u.packets[After(r.frontSent, j)].time >= MaxRtt + 1
        /\ gone = S \/ u.packets[After(r.frontSent, gone)].time < MaxRtt + 1
        /\ u.frontAcked = After(r.frontAcked, out)
        /\ out \in 0..A
        /\ \A j \in 0..(out - 1) : u.packets[After(r.frontAcked, j)].time >= 2 * MaxRtt
        /\ out = A \/ u.packets[After(r.frontAcked, out)].time < 2 * MaxRtt
    BY <1>1 DEF Ticked
  <1>7. \A f : Distance(u, f) = Distance(r, f)
    BY DEF Distance
  <1>8. SentWindow(u) = S - gone /\ AckedWindow(u) = A - out
    BY <1>2, <1>3, <1>6, <1>7 DEF SentWindow, AckedWindow
  <1> HIDE DEF S, A
  <1>9. ASSUME NEW j \in 1..A PROVE Age(u, j) = Age(r, j) + 1
    <2>1. Age(u, j) = Older(Age(r, j))
      BY <1>4, <1>5, <1>6 DEF Age
    <2>2. QED
      BY <1>4, <2>1 DEF Older
  <1>10. ASSUME NEW j \in (S - gone + 1)..S PROVE Age(u, j) >= MaxRtt + 1
    <2>1. S - j \in 0..(gone - 1) /\ S - j \in 0..(S - 1) /\ S - (S - j) = j
      BY <1>1, <1>6
    <2>2. After(r.frontSent, S - j) = BackBy(u, j)
      BY <1>2, <1>5, <2>1
    <2>3. QED
      BY <1>6, <2>1, <2>2 DEF Age
  <1>11. gone = S \/ Age(u, S - gone) < MaxRtt + 1
    <2>1. gone # S => gone \in 0..(S - 1)
      BY <1>1, <1>6
    <2>2. QED
      BY <1>2, <1>5, <1>6, <2>1 DEF Age
  <1>12. ASSUME NEW j \in (A - out + 1)..A PROVE Age(u, j) >= 2 * MaxRtt
    <2>1. A - j \in 0..(out - 1) /\ A - j \in 0..(A - 1) /\ A - (A - j) = j
      BY <1>1, <1>6
    <2>2. After(r.frontAcked, A - j) = BackBy(u, j)
      BY <1>3, <1>5, <2>1
    <2>3. QED
      BY <1>6, <2>1, <2>2 DEF Age
  <1>13. out = A \/ Age(u, A - out) < 2 * MaxRtt
    <2>1. out # A => out \in 0..(A - 1)
      BY <1>1, <1>6
    <2>2. QED
      BY <1>3, <1>5, <1>6, <2>1 DEF Age
  <1>14. QED
    BY <1>6, <1>8, <1>9, <1>10, <1>11, <1>12, <1>13 DEF S, A

\* After a tick every packet of the acked list is older than the number of
\* packets sent since.
LEMMA UpdateAging ==
  ASSUME NEW r \in ReliabilityType, Aging(r)
  PROVE  /\ Aging(Update(r))
         /\ \A j \in 1..AckedWindow(Update(r)) : Age(Update(r), j) >= j
  <1> DEFINE u == Update(r)
             S == SentWindow(r)
             A == AckedWindow(r)
  <1>1. u \in ReliabilityType /\ u.back = r.back
    BY UpdateFields DEF Keeps
  <1>2. S \in 0..(BufferCapacity - 1) /\ A \in 0..(BufferCapacity - 1) /\ BufferCapacity \in Nat
        /\ MaxRtt \in Nat /\ MaxRtt > 0 /\ \A j \in 1..A : Age(r, j) \in Int
    BY Windows, Positive
  <1>3. /\ r.sentBytes = S /\ S <= A
        /\ \A j \in 1..A : j - 1 <= Age(r, j) /\ Age(r, j) < 2 * MaxRtt
        /\ \A j, k \in 1..A : j <= k => Age(r, k) - Age(r, j) >= k - j
        /\ \A j \in (S + 1)..A : Age(r, j) >= MaxRtt + 1
    BY DEF Aging
  <1>4. CASE r.frontSent = r.back
    <2>1. u = r
      BY <1>4, UpdateFields
    <2>2. S = 0
      <3>1. r.back \in Int /\ r.back - r.frontSent = 0
        BY <1>4, Fields DEF Slot
      <3>2. 0 % BufferCapacity = 0
        BY Positive, Remainder
      <3>3. QED
        BY <3>1, <3>2 DEF SentWindow, Distance
    <2> HIDE DEF S, A, u
    <2>3. ASSUME NEW j \in 1..A PROVE Age(r, j) >= j
      <3>1. 1 \in 1..A /\ 1 \in (S + 1)..A /\ 1 <= j
        BY <1>2, <2>2
      <3>2. Age(r, 1) >= MaxRtt + 1 /\ Age(r, j) - Age(r, 1) >= j - 1
        BY <1>3, <3>1
      <3>3. QED
        BY <1>2, <3>1, <3>2
    <2>4. QED
      BY <2>1, <2>3 DEF u, A
  <1>5. CASE r.frontSent # r.back
    <2>1. PICK gone, out : Ticked(u, r, gone, out)
      BY <1>5, UpdateFields
    <2> HIDE DEF u
    <2>2. /\ gone \in 0..S /\ out \in 0..A
          /\ SentWindow(u) = S - gone /\ AckedWindow(u) = A - out
          /\ u.sentBytes = r.sentBytes - gone
          /\ \A j \in 1..A : Age(u, j) = Age(r, j) + 1
          /\ \A j \in (S - gone + 1)..S : Age(u, j) >= MaxRtt + 1
          /\ gone = S \/ Age(u, S - gone) < MaxRtt + 1
          /\ \A j \in (A - out + 1)..A : Age(u, j) >= 2 * MaxRtt
          /\ out = A \/ Age(u, A - out) < 2 * MaxRtt
      BY <1>1, <2>1, TickedWindows
    <2> HIDE DEF S, A
    <2>3. S - gone <= A - out
      <3>1. CASE gone = S
        BY <1>2, <2>2, <3>1
      <3>2. CASE gone # S
        <4>1. S - gone \in 1..A /\ Age(u, S - gone) < MaxRtt + 1
          BY <1>2, <1>3, <2>2, <3>2
        <4>2. Age(u, S - gone) \in Int
          BY <1>2, <2>2, <4>1
        <4>3. ~(S - gone \in (A - out + 1)..A)
          BY <1>2, <2>2, <4>1, <4>2
        <4>4. QED
          BY <1>2, <2>2, <4>1, <4>3
      <3>3. QED
        BY <3>1, <3>2
    <2>4. \A j \in 1..(A - out) : j \in 1..A
      BY <1>2, <2>2
    <2>5. ASSUME NEW j \in 1..(A - out) PROVE j <= Age(u, j) /\ Age(u, j) < 2 * MaxRtt
      <3>1. j <= Age(u, j)
        BY <1>2, <1>3, <2>2, <2>4
      <3>2. A - out \in 1..A /\ j <= A - out /\ j \in 1..A /\ out # A
        BY <1>2, <2>2
      <3>3. Age(r, A - out) - Age(r, j) >= A - out - j
        BY <1>3, <3>2
      <3>4. Age(u, A - out) < 2 * MaxRtt /\ Age(u, A - out) = Age(r, A - out) + 1
            /\ Age(u, j) = Age(r, j) + 1 /\ Age(r, j) \in Int /\ Age(r, A - out) \in Int
        BY <1>2, <2>2, <3>2
      <3>5. QED
        BY <1>2, <2>2, <3>1, <3>2, <3>3, <3>4
    <2>6. ASSUME NEW j \in 1..(A - out), NEW k \in 1..(A - out), j <= k
          PROVE  Age(u, k) - Age(u, j) >= k - j
      <3>1. /\ Age(r, k) - Age(r, j) >= k - j /\ Age(u, k) = Age(r, k) + 1
            /\ Age(u, j) = Age(r, j) + 1 /\ Age(r, j) \in Int /\ Age(r, k) \in Int
        BY <1>2, <1>3, <2>2, <2>4, <2>6
      <3>2. QED
        BY <3>1
    <2>7. ASSUME NEW j \in (S - gone + 1)..(A - out) PROVE Age(u, j) >= MaxRtt + 1
      <3>1. j \in 1..A /\ (j \in (S - gone + 1)..S \/ j \in (S + 1)..A)
        BY <1>2, <2>2
      <3>2. CASE j \in (S - gone + 1)..S
        BY <2>2, <3>2
      <3>3. CASE j \in (S + 1)..A
        <4>1. Age(r, j) >= MaxRtt + 1 /\ Age(u, j) = Age(r, j) + 1 /\ Age(r, j) \in Int
          BY <1>2, <1>3, <2>2, <3>1, <3>3
        <4>2. QED
          BY <1>2, <4>1
      <3>4. QED
        BY <3>1, <3>2, <3>3
    <2>8. \A j \in 1..(A - out) : Age(u, j) \in Int /\ j - 1 <= Age(u, j) /\ j <= Age(u, j)
      BY <1>2, <2>2, <2>4, <2>5
    <2>9. u.sentBytes = S - gone
      BY <1>3, <2>2
    <2>10. Aging(u)
      BY <2>2, <2>3, <2>5, <2>6, <2>7, <2>8, <2>9 DEF Aging
    <2>11. \A j \in 1..(A - out) : Age(u, j) >= j
      BY <2>8
    <2>12. QED
      BY <2>2, <2>10, <2>11 DEF u
  <1>6. QED
    BY <1>4, <1>5

\* A send lengthens both windows by the entry it writes and moves the others
\* one place away from back; no front index is pushed along.
LEMMA SendAging ==
  ASSUME TwoRtts, NEW u \in ReliabilityType, Aging(u),
         \A j \in 1..AckedWindow(u) : Age(u, j) >= j
  PROVE  /\ Aging(PacketSent(u))
         /\ AckedWindow(PacketSent(u)) = AckedWindow(u) + 1
  <1> DEFINE q == PacketSent(u)
             S == SentWindow(u)
             A == AckedWindow(u)
             B == BufferCapacity
  <1>1. LET back == increase(u.back, B)
        IN /\ q \in ReliabilityType /\ q.back = back /\ q.sentBytes = u.sentBytes + 1
           /\ q.frontAcked = Stepped(u.frontAcked, back)
           /\ q.frontSent = Stepped(u.frontSent, back)
           /\ \A i \in Slot : i # u.back => q.packets[i] = u.packets[i]
           /\ q.packets[u.back].time = 0
    BY SentFields
  <1>2. /\ u.back \in 0..(B - 1) /\ B \in Nat /\ B > 1 /\ MaxRtt \in Nat /\ MaxRtt > 0
        /\ u.frontSent \in Slot /\ u.frontAcked \in Slot
    BY Fields, Positive DEF Slot
  <1>3. q.back = IF u.back = B - 1 THEN 0 ELSE u.back + 1
    <2>1. u.back + 1 \in Int /\ (u.back = B - 1 => u.back + 1 = B)
          /\ (u.back # B - 1 => u.back + 1 < B)
      BY <1>2
    <2>2. QED
      BY <1>1, <1>2, <2>1, Remainder DEF increase
  <1>4. /\ S \in 0..(B - 1) /\ A \in 0..(B - 1)
        /\ \A j \in 1..A : BackBy(u, j) \in Slot /\ Age(u, j) \in Int
    BY Windows
  <1>5. /\ u.sentBytes = S /\ S <= A
        /\ \A j \in 1..A : j <= Age(u, j) /\ Age(u, j) < 2 * MaxRtt
        /\ \A j, k \in 1..A : j <= k => Age(u, k) - Age(u, j) >= k - j
        /\ \A j \in (S + 1)..A : Age(u, j) >= MaxRtt + 1
    <2>1. \A j \in 1..A : j <= Age(u, j)
      BY <1>4
    <2>2. QED
      BY <2>1 DEF Aging
  <1> HIDE DEF q, S, A
  <1>6. A + 1 < B
    <2>1. B > 2 * MaxRtt
      BY DEF TwoRtts
    <2>2. CASE A = 0
      BY <1>2, <2>2
    <2>3. CASE A # 0
      <3>1. A \in 1..A
        BY <1>2, <1>4, <2>3
      <3>2. A <= Age(u, A) /\ Age(u, A) < 2 * MaxRtt /\ Age(u, A) \in Int
        BY <1>4, <1>5, <3>1
      <3>3. QED
        BY <1>2, <1>4, <2>1, <3>2
    <2>4. QED
      BY <2>2, <2>3
  <1>7. ASSUME NEW f \in Slot, Distance(u, f) + 1 < B
        PROVE  Stepped(f, q.back) = f /\ Distance(q, f) = Distance(u, f) + 1
    <2>1. /\ Distance(u, f) = IF u.back >= f THEN u.back - f ELSE u.back - f + B
          /\ Distance(q, f) = IF q.back >= f THEN q.back - f ELSE q.back - f + B
      BY <1>1, DistanceLinear
    <2>2. f \in 0..(B - 1)
      BY DEF Slot
    <2>3. q.back # f /\ Distance(q, f) = Distance(u, f) + 1
      BY <1>2, <1>3, <1>7, <2>1, <2>2
    <2>4. QED
      BY <2>3 DEF Stepped
  <1>8. SentWindow(q) = S + 1 /\ AckedWindow(q) = A + 1
    <2>1. S + 1 < B
      BY <1>2, <1>4, <1>5, <1>6
    <2>2. Distance(u, u.frontSent) = S /\ Distance(u, u.frontAcked) = A
      BY DEF S, A, SentWindow, AckedWindow
    <2>3. Stepped(u.frontSent, q.back) = u.frontSent /\ Distance(q, u.frontSent) = S + 1
      BY <1>2, <1>7, <2>1, <2>2
    <2>4. Stepped(u.frontAcked, q.back) = u.frontAcked /\ Distance(q, u.frontAcked) = A + 1
      BY <1>2, <1>6, <1>7, <2>2
    <2>5. QED
      BY <1>1, <2>3, <2>4 DEF SentWindow, AckedWindow
  <1>9. Age(q, 1) = 0
    <2>1. BackBy(q, 1) = u.back
      BY <1>2, <1>3 DEF BackBy
    <2>2. QED
      BY <1>1, <2>1 DEF Age
  <1>10. ASSUME NEW j \in 2..(A + 1)
         PROVE  j - 1 \in 1..A /\ Age(q, j) = Age(u, j - 1) /\ Age(u, j - 1) \in Int
    <2>1. j - 1 \in 1..A /\ j - 1 < B
      BY <1>2, <1>4, <1>6
    <2>2. BackBy(q, j) = BackBy(u, j - 1) /\ BackBy(u, j - 1) # u.back
      BY <1>2, <1>3, <1>4, <2>1 DEF BackBy
    <2>3. BackBy(u, j - 1) \in Slot /\ Age(u, j - 1) \in Int
      BY <1>4, <2>1
    <2>4. QED
      BY <1>1, <2>1, <2>2, <2>3 DEF Age
  <1>11. ASSUME NEW j \in 1..(A + 1)
         PROVE  j = 1 \/ j \in 2..(A + 1)
    BY <1>4
  <1>12. ASSUME NEW j \in 1..(A + 1) PROVE j - 1 <= Age(q, j) /\ Age(q, j) < 2 * MaxRtt
    <2>1. CASE j = 1
      BY <1>2, <1>9, <2>1
    <2>2. CASE j \in 2..(A + 1)
      BY <1>5, <1>10, <2>2
    <2>3. QED
      BY <1>11, <2>1, <2>2
  <1>13. ASSUME NEW j \in 1..(A + 1), NEW k \in 1..(A + 1), j <= k
         PROVE  Age(q, k) - Age(q, j) >= k - j
    <2>1. CASE k = 1
      BY <1>9, <1>13, <2>1
    <2>2. CASE j = 1 /\ k \in 2..(A + 1)
      <3>1. k - 1 \in 1..A /\ Age(q, k) = Age(u, k - 1) /\ Age(u, k - 1) \in Int
            /\ k - 1 <= Age(u, k - 1)
        BY <1>5, <1>10, <2>2
      <3>2. QED
        BY <1>9, <2>2, <3>1
    <2>3. CASE j \in 2..(A + 1) /\ k \in 2..(A + 1)
      <3>1. /\ j - 1 \in 1..A /\ Age(q, j) = Age(u, j - 1) /\ Age(u, j - 1) \in Int
            /\ k - 1 \in 1..A /\ Age(q, k) = Age(u, k - 1) /\ Age(u, k - 1) \in Int
        BY <1>10, <2>3
      <3>2. Age(u, k - 1) - Age(u, j - 1) >= (k - 1) - (j - 1)
        BY <1>5, <1>13, <3>1
      <3>3. QED
        BY <3>1, <3>2
    <2>4. QED
      BY <1>4, <1>13, <2>1, <2>2, <2>3
  <1>14. ASSUME NEW j \in (S + 2)..(A + 1) PROVE Age(q, j) >= MaxRtt + 1
    <2>1. j \in 2..(A + 1) /\ j - 1 \in (S + 1)..A
      BY <1>4
    <2>2. QED
      BY <1>5, <1>10, <2>1
  <1>15. q.sentBytes = S + 1 /\ S + 1 <= A + 1 /\ (S + 1) + 1 = S + 2
    BY <1>1, <1>4, <1>5
  <1>16. Aging(q)
    BY <1>8, <1>12, <1>13, <1>14, <1>15 DEF Aging
  <1>17. QED
    BY <1>8, <1>16 DEF q, A

\* What a received packet changes has nothing to do with the windows.
LEMMA ReceiveAging ==
  ASSUME NEW r \in ReliabilityType, NEW q, q.back = r.back, q.frontSent = r.frontSent,
         q.frontAcked = r.frontAcked, q.sentBytes = r.sentBytes,
         \A i \in Slot : q.packets[i].time = r.packets[i].time, Aging(r)
  PROVE  Aging(q)
  <1>1. SentWindow(q) = SentWindow(r) /\ AckedWindow(q) = AckedWindow(r)
    BY DEF SentWindow, AckedWindow, Distance
  <1>2. \A j \in 1..AckedWindow(r) : Age(q, j) = Age(r, j)
    BY Windows DEF Age, BackBy
  <1>3. \A j \in (SentWindow(r) + 1)..AckedWindow(r) : j \in 1..AckedWindow(r)
    BY Windows
  <1>4. QED
    BY <1>1, <1>2, <1>3 DEF Aging

RingInv == Types /\ \A e \in End : Aging(ends[e])

LEMMA InitRing == Init => RingInv
  <1> SUFFICES ASSUME Init PROVE RingInv
    OBVIOUS
  <1> DEFINE c == streamReliabilityClear
  <1>1. \A e \in End : ends[e] = c
    BY DEF Init
  <1>2. c.back = 0 /\ c.frontSent = 0 /\ c.frontAcked = 0 /\ c.sentBytes = 0
    BY DEF streamReliabilityClear
  <1>3. (0 - 0) % BufferCapacity = 0
    BY Positive, Remainder
  <1> HIDE DEF c
  <1>4. SentWindow(c) = 0 /\ AckedWindow(c) = 0
    BY <1>2, <1>3 DEF SentWindow, AckedWindow, Distance
  <1>5. Aging(c)
    BY <1>2, <1>4 DEF Aging
  <1>6. QED
    BY <1>1, <1>5, InitTypes DEF RingInv

\* A send writes one new entry and overwrites none of the acked list.
LEMMA SendRing ==
  ASSUME TwoRtts, RingInv, NEW e \in End, streamSend(e)
  PROVE  /\ RingInv'
         /\ AckedWindow(ends'[e]) = Distance(ends[e], Update(ends[e]).frontAcked) + 1
         /\ \A d \in End : d # e => ends'[d] = ends[d]
  <1> DEFINE u == Update(ends[e])
             q == PacketSent(u)
  <1>1. /\ Types /\ ends \in [End -> ReliabilityType] /\ ends[e] \in ReliabilityType
        /\ \A d \in End : Aging(ends[d])
    BY DEF RingInv, Types, TypeOK
  <1>2. /\ u \in ReliabilityType /\ Keeps(u, ends[e])
        /\ ends' = [ends EXCEPT ![e] = q] /\ Types'
    BY <1>1, SendStep
  <1>3. Aging(u) /\ \A j \in 1..AckedWindow(u) : Age(u, j) >= j
    BY <1>1, UpdateAging
  <1> HIDE DEF u
  <1>4. Aging(q) /\ AckedWindow(q) = AckedWindow(u) + 1
    BY <1>2, <1>3, SendAging
  <1> HIDE DEF q
  <1>5. AckedWindow(u) = Distance(ends[e], u.frontAcked)
    BY <1>2 DEF Keeps, AckedWindow, Distance
  <1>6. \A d \in End : ends'[d] = IF d = e THEN q ELSE ends[d]
    BY <1>1, <1>2
  <1>7. RingInv'
    BY <1>1, <1>2, <1>4, <1>6 DEF RingInv
  <1>8. QED
    BY <1>4, <1>5, <1>6, <1>7 DEF u

\* A step that sends nothing
LEMMA OtherRing ==
  ASSUME RingInv,
         \/ \E e \in End : TickIdle(e) \/ \E m \in net[e] : streamReceive(e, m)
         \/ UNCHANGED vars
  PROVE  RingInv' /\ \A d \in End : ends'[d].totalSent = ends[d].totalSent
  <1>1. /\ Types /\ ends \in [End -> ReliabilityType]
        /\ \A d \in End : ends[d] \in ReliabilityType /\ Aging(ends[d])
    BY DEF RingInv, Types, TypeOK
  <1>2. ASSUME NEW e \in End, NEW q, ends' = [ends EXCEPT ![e] = q], Types', Aging(q),
               q.totalSent = ends[e].totalSent
        PROVE  RingInv' /\ \A d \in End : ends'[d].totalSent = ends[d].totalSent
    <2>1. \A d \in End : ends'[d] = IF d = e THEN q ELSE ends[d]
      BY <1>1, <1>2
    <2>2. QED
      BY <1>1, <1>2, <2>1 DEF RingInv
  <1>3. ASSUME NEW e \in End, TickIdle(e)
        PROVE  RingInv' /\ \A d \in End : ends'[d].totalSent = ends[d].totalSent
    <2> DEFINE u == Update(ends[e])
    <2>1. ends' = [ends EXCEPT ![e] = u] /\ Types'
      BY <1>1, <1>3, TickStep
    <2>2. Aging(u)
      BY <1>1, UpdateAging
    <2>3. u.totalSent = ends[e].totalSent
      BY <1>1, UpdateFields DEF Keeps
    <2> HIDE DEF u
    <2>4. QED
      BY <1>2, <2>1, <2>2, <2>3
  <1>4. ASSUME NEW e \in End, NEW m \in net[e], streamReceive(e, m)
        PROVE  RingInv' /\ \A d \in End : ends'[d].totalSent = ends[d].totalSent
    <2> DEFINE q == PacketReceived(ends[e], m.sequence, m.ack, m.ackBits)
    <2>1. /\ m.sequence \in 0..(MaxSequence - 1) /\ m.ack \in 0..(MaxSequence - 1)
          /\ m.ackBits \in SUBSET BitPosition
          /\ ends' = [ends EXCEPT ![e] = q] /\ Types'
      BY <1>1, <1>4, ReceiveStep
    <2>2. /\ q.frontSent = ends[e].frontSent /\ q.frontAcked = ends[e].frontAcked
          /\ q.back = ends[e].back /\ q.totalSent = ends[e].totalSent
          /\ q.sentBytes = ends[e].sentBytes
          /\ \A i \in Slot : q.packets[i].time = ends[e].packets[i].time
      BY <1>1, <2>1, ReceivedFields
    <2> HIDE DEF q
    <2>3. Aging(q)
      BY <1>1, <2>2, ReceiveAging
    <2>4. QED
      BY <1>2, <2>1, <2>2, <2>3
  <1>5. CASE UNCHANGED vars
    <2>1. ends' = ends /\ Types'
      BY <1>1, <1>5 DEF vars, Types, TypeOK
    <2>2. QED
      BY <1>1, <2>1 DEF RingInv
  <1>6. QED
    BY <1>3, <1>4, <1>5

LEMMA NextRing ==
  ASSUME TwoRtts, RingInv, [Next]_vars
  PROVE  /\ RingInv'
         /\ \A e \in End : ends'[e].totalSent > ends[e].totalSent =>
              AckedWindow(ends'[e]) = Distance(ends[e], Update(ends[e]).frontAcked) + 1
  <1>1. \A d \in End : ~(ends[d].totalSent > ends[d].totalSent)
    <2>1. \A d \in End : ends[d].totalSent \in Nat
      BY Fields DEF RingInv, Types, TypeOK
    <2>2. QED
      BY <2>1
  <1>2. CASE \E e \in End : streamSend(e)
    <2>1. PICK e \in End : streamSend(e)
      BY <1>2
    <2>2. /\ RingInv'
          /\ AckedWindow(ends'[e]) = Distance(ends[e], Update(ends[e]).frontAcked) + 1
          /\ \A d \in End : d # e => ends'[d] = ends[d]
      BY <2>1, SendRing
    <2>3. QED
      BY <1>1, <2>2
  <1>3. CASE \/ \E e \in End : TickIdle(e) \/ \E m \in net[e] : streamReceive(e, m)
             \/ UNCHANGED vars
    <2>1. RingInv' /\ \A d \in End : ends'[d].totalSent = ends[d].totalSent
      BY <1>3, OtherRing
    <2>2. QED
      BY <1>1, <2>1
  <1>4. QED
    BY <1>2, <1>3 DEF Next

LEMMA RingFollows ==
  ASSUME RingInv
  PROVE  RingExact
  <1>1. ASSUME NEW e \in End
        PROVE  LET r == ends[e] IN
               /\ r.sentBytes = SentWindow(r) /\ SentWindow(r) <= AckedWindow(r)
               /\ \A k \in 1..(AckedWindow(r) - 1) :
                    r.packets[After(r.frontAcked, k)].time
                      <= r.packets[After(r.frontAcked, k - 1)].time
    <2> DEFINE r == ends[e]
               A == AckedWindow(r)
    <2>1. r \in ReliabilityType /\ Aging(r)
      BY DEF RingInv, Types, TypeOK
    <2> HIDE DEF r
    <2>2. A = Distance(r, r.frontAcked) /\ r.frontAcked \in Slot /\ A \in 0..(BufferCapacity - 1)
      BY <2>1, Windows, Fields DEF AckedWindow
    <2>3. \A k \in 0..(A - 1) : After(r.frontAcked, k) = BackBy(r, A - k)
      BY <2>1, <2>2, RingPlaces
    <2>4. /\ \A j \in 1..A : Age(r, j) \in Int
          /\ \A j, k \in 1..A : j <= k => Age(r, k) - Age(r, j) >= k - j
          /\ r.sentBytes = SentWindow(r) /\ SentWindow(r) <= A
      BY <2>1, Windows DEF Aging
    <2>5. ASSUME NEW k \in 1..(A - 1)
          PROVE  r.packets[After(r.frontAcked, k)].time
                   <= r.packets[After(r.frontAcked, k - 1)].time
      <3> HIDE DEF A
      <3>1. /\ k \in 0..(A - 1) /\ k - 1 \in 0..(A - 1) /\ A - k \in 1..A
            /\ A - (k - 1) \in 1..A /\ A - k <= A - (k - 1) /\ (A - (k - 1)) - (A - k) = 1
        BY <2>2
      <3>2. /\ Age(r, A - k) = r.packets[After(r.frontAcked, k)].time
            /\ Age(r, A - (k - 1)) = r.packets[After(r.frontAcked, k - 1)].time
        BY <2>3, <3>1 DEF Age
      <3>3. /\ Age(r, A - (k - 1)) - Age(r, A - k) >= 1
            /\ Age(r, A - (k - 1)) \in Int /\ Age(r, A - k) \in Int
        BY <2>4, <3>1
      <3>4. Age(r, A - k) <= Age(r, A - (k - 1))
        BY <3>3
      <3>5. QED
        BY <3>2, <3>4
    <2>6. QED
      BY <2>4, <2>5 DEF r
  <1>2. QED
    BY <1>1 DEF RingExact, SentBytesExact, WindowsOrdered

\* sentBytes is what the sent list holds, the sent list is the newer part of
\* the acked list, and the acked list is ordered by age, so that the loops of
\* streamReliabilityUpdate may stop at the first young packet: for every ring
\* with more entries than two round trips have ticks, also across the
\* wrap-around of the sequence.
THEOREM RingAlwaysExact ==
  ASSUME TwoRtts
  PROVE  Spec => []RingExact
  <1>1. RingInv /\ [Next]_vars => RingInv'
    BY NextRing
  <1>2. RingInv => RingExact
    BY RingFollows
  <1>3. QED
    BY <1>1, <1>2, InitRing, PTL DEF Spec

\* streamReliabilityPacketSent never pushes a front index along: a send adds
\* its entry to the acked list and discards none.
THEOREM SendsNeverOverwrite ==
  ASSUME TwoRtts
  PROVE  Spec => NeverOverwrites
  <1>1. RingInv /\ [Next]_vars => RingInv'
    BY NextRing
  <1>2. RingInv /\ [Next]_vars =>
          [\A e \in End : ends'[e].totalSent > ends[e].totalSent =>
             AckedWindow(ends'[e]) = Distance(ends[e], Update(ends[e]).frontAcked) + 1]_vars
    BY NextRing
  <1>3. QED
    BY <1>1, <1>2, InitRing, PTL DEF Spec, NeverOverwrites
=============================================================================
