----------------------------- MODULE CodecProofs -----------------------------
(***************************************************************************)
(* What is packed is unpacked: for every message, answer, packet length,   *)
(* byte order and memory behind the packet that the assumptions of Codec   *)
(* allow.                                                                  *)
(***************************************************************************)
EXTENDS Codec, SequenceTheorems, FiniteSetTheorems, WellFoundedInduction, TLAPS

\* A set of natural numbers has a least element.
LEMMA LeastNumber ==
  ASSUME NEW B \in SUBSET Nat, B # {}
  PROVE  \E m \in B : \A k \in B : m <= k
  <1> DEFINE T == {0..b : b \in B}
  <1>1. T \subseteq FiniteSubsetsOf(Nat)
    <2>1. \A b \in B : IsFiniteSet(0..b) /\ 0..b \in SUBSET Nat
      BY FS_Interval
    <2>2. QED
      BY <2>1 DEF FiniteSubsetsOf
  <1>2. IsWellFoundedOn(StrictSubsetOrdering(Nat), FiniteSubsetsOf(Nat))
    BY FS_StrictSubsetOrderingWellFounded
  <1>3. T # {}
    OBVIOUS
  <1>4. PICK x \in T : \A y \in T : ~(<<y, x>> \in StrictSubsetOrdering(Nat))
    BY <1>1, <1>2, <1>3, WFMin
  <1>5. PICK m \in B : x = 0..m
    OBVIOUS
  <1>6. ASSUME NEW k \in B, k < m PROVE FALSE
    <2>1. 0..k \in T /\ 0..k \subseteq 0..m /\ 0..k # 0..m /\ 0..m \subseteq Nat
      <3>1. m \in 0..m /\ m \notin 0..k
        BY <1>6
      <3>2. QED
        BY <1>6, <3>1
    <2>2. <<0..k, 0..m>> \in StrictSubsetOrdering(Nat)
      BY <2>1 DEF StrictSubsetOrdering
    <2>3. QED
      BY <1>4, <1>5, <2>1, <2>2
  <1>7. QED
    BY <1>6


\* Induction up to n, over the numbers that are good
LEMMA UpTo ==
  ASSUME NEW n \in Nat, NEW G, 0 \in G, \A k \in 1..n : k - 1 \in G => k \in G
  PROVE  \A k \in 0..n : k \in G
  <1> DEFINE B == {k \in 0..n : k \notin G}
  <1>1. B \in SUBSET Nat
    OBVIOUS
  <1>2. ASSUME NEW m \in B, \A k \in B : m <= k PROVE FALSE
    <2>1. m \in 0..n /\ m \notin G /\ m # 0
      OBVIOUS
    <2>2. m \in 1..n /\ m - 1 \in 0..n /\ ~(m <= m - 1)
      BY <2>1
    <2>3. m - 1 \in G
      BY <1>2, <2>2
    <2>4. QED
      BY <2>1, <2>2, <2>3
  <1>3. B = {}
    BY <1>1, <1>2, LeastNumber
  <1>4. QED
    BY <1>3

-----------------------------------------------------------------------------
(* Streams *)

\* Stream r with another offset and another value read
At(r, o, v) ==
  [data |-> r.data, offset |-> o, bound |-> r.bound, little |-> r.little,
   past |-> r.past, val |-> v]

\* Stream s with other data and another offset
After(s, d, o) ==
  [data |-> d, offset |-> o, bound |-> s.bound, little |-> s.little,
   past |-> s.past, val |-> s.val]

IsStream(s) ==
  /\ s = At(s, s.offset, s.val)
  /\ s.data \in Seq(Byte) /\ s.bound = Len(s.data)
  /\ s.offset \in 0..s.bound
  /\ s.little \in BOOLEAN

\* The bytes E are in d behind position o.
Located(d, o, E) ==
  /\ o + Len(E) <= Len(d)
  /\ \A i \in 1..Len(E) : d[o + i] = E[i]

\* Stream t goes on where s was and has all that s had.
Kept(s, t) ==
  /\ IsStream(t)
  /\ t = After(s, t.data, t.offset)
  /\ s.offset <= t.offset
  /\ \A i \in 1..s.offset : t.data[i] = s.data[i]

\* Stream t has the bytes E more than s.
Wrote(s, t, E) ==
  /\ Kept(s, t)
  /\ t.offset = s.offset + Len(E)
  /\ Located(t.data, s.offset, E)

LEMMA StreamFields ==
  ASSUME NEW s, IsStream(s)
  PROVE  /\ s.data \in Seq(Byte) /\ s.bound = Len(s.data) /\ s.bound \in Nat
         /\ s.offset \in Nat /\ s.offset <= s.bound /\ s.little \in BOOLEAN
         /\ s = After(s, s.data, s.offset)
  BY LenProperties DEF IsStream, At, After

LEMMA AtFields ==
  ASSUME NEW r, NEW o, NEW v
  PROVE  /\ At(r, o, v).data = r.data /\ At(r, o, v).offset = o
         /\ At(r, o, v).bound = r.bound /\ At(r, o, v).little = r.little
         /\ At(r, o, v).val = v /\ At(r, o, v).past = r.past
         /\ \A p, w : At(At(r, o, v), p, w) = At(r, p, w)
  BY DEF At

LEMMA AtStream ==
  ASSUME NEW r, IsStream(r), NEW o \in 0..r.bound, NEW v
  PROVE  IsStream(At(r, o, v))
  BY AtFields DEF IsStream

LEMMA KeptSelf ==
  ASSUME NEW s, IsStream(s)
  PROVE  Kept(s, s)
  BY StreamFields DEF Kept

LEMMA KeptFields ==
  ASSUME NEW s, NEW t, IsStream(s), Kept(s, t)
  PROVE  /\ t.bound = s.bound /\ t.little = s.little /\ t.past = s.past /\ t.val = s.val
         /\ Len(t.data) = Len(s.data)
  <1>1. t = After(s, t.data, t.offset) /\ IsStream(t)
    BY DEF Kept
  <1>2. t.bound = s.bound /\ t.little = s.little /\ t.past = s.past /\ t.val = s.val
    BY <1>1 DEF After
  <1>3. QED
    BY <1>1, <1>2, StreamFields

LEMMA KeptTwice ==
  ASSUME NEW s, NEW t, NEW u, IsStream(s), Kept(s, t), Kept(t, u)
  PROVE  Kept(s, u)
  <1>1. u.bound = s.bound /\ u.little = s.little /\ u.past = s.past /\ u.val = s.val
    BY KeptFields DEF Kept
  <1>2. IsStream(u) /\ IsStream(t) /\ u = After(t, u.data, u.offset)
        /\ s.offset <= t.offset /\ t.offset <= u.offset
    BY DEF Kept
  <1>3. u = After(s, u.data, u.offset)
    BY <1>1, <1>2, KeptFields DEF After
  <1>4. s.offset \in Nat /\ t.offset \in Nat /\ u.offset \in Nat
    BY <1>2, StreamFields
  <1>5. \A i \in 1..s.offset : u.data[i] = s.data[i]
    BY <1>2, <1>4 DEF Kept
  <1>6. QED
    BY <1>2, <1>3, <1>4, <1>5 DEF Kept

LEMMA KeptLocated ==
  ASSUME NEW s, NEW t, IsStream(s), Kept(s, t), NEW o \in Nat, NEW E, Len(E) \in Nat,
         o + Len(E) <= s.offset, Located(s.data, o, E)
  PROVE  Located(t.data, o, E)
  <1>1. Len(t.data) = Len(s.data) /\ s.offset \in Nat
    BY KeptFields, StreamFields
  <1>2. \A i \in 1..Len(E) : o + i \in 1..s.offset
    BY <1>1
  <1>3. QED
    BY <1>1, <1>2 DEF Located, Kept

LEMMA Cat ==
  ASSUME NEW E \in Seq(Byte), NEW F \in Seq(Byte)
  PROVE  /\ E \o F \in Seq(Byte) /\ Len(E \o F) = Len(E) + Len(F)
         /\ Len(E) \in Nat /\ Len(F) \in Nat
         /\ \A i \in 1..Len(E) : (E \o F)[i] = E[i]
         /\ \A i \in 1..Len(F) : (E \o F)[Len(E) + i] = F[i]
  <1>1. E \o F \in Seq(Byte) /\ Len(E \o F) = Len(E) + Len(F) /\ Len(E) \in Nat
        /\ Len(F) \in Nat
    BY LenProperties, ConcatProperties
  <1>2. \A i \in 1..Len(E \o F) :
          (E \o F)[i] = IF i <= Len(E) THEN E[i] ELSE F[i - Len(E)]
    BY ConcatProperties
  <1> HIDE DEF Byte
  <1>3. \A i \in 1..Len(F) : (Len(E) + i) - Len(E) = i /\ Len(E) + i \in 1..Len(E \o F)
                               /\ ~(Len(E) + i <= Len(E))
    BY <1>1
  <1>4. QED
    BY <1>1, <1>2, <1>3

LEMMA LocatedCat ==
  ASSUME NEW d, Len(d) \in Nat, NEW o \in Nat, NEW E \in Seq(Byte), NEW F \in Seq(Byte)
  PROVE  Located(d, o, E \o F) <=> Located(d, o, E) /\ Located(d, o + Len(E), F)
  <1> DEFINE G == E \o F
             m == Len(E)
             n == Len(F)
  <1>1. /\ Len(G) = m + n /\ m \in Nat /\ n \in Nat
        /\ \A i \in 1..m : G[i] = E[i]
        /\ \A i \in 1..n : G[m + i] = F[i]
    BY Cat
  <1>2. \A i \in 1..n : o + (m + i) = (o + m) + i /\ m + i \in 1..(m + n)
    BY <1>1
  <1>3. \A i \in 1..(m + n) : i \in 1..m \/ (i - m \in 1..n /\ m + (i - m) = i)
    BY <1>1
  <1>4. Located(d, o, G) <=> o + (m + n) <= Len(d) /\ \A i \in 1..(m + n) : d[o + i] = G[i]
    BY <1>1 DEF Located
  <1>5. Located(d, o, E) <=> o + m <= Len(d) /\ \A i \in 1..m : d[o + i] = E[i]
    BY DEF Located
  <1>6. Located(d, o + m, F) <=> (o + m) + n <= Len(d) /\ \A i \in 1..n : d[(o + m) + i] = F[i]
    BY DEF Located
  <1> HIDE DEF G, m, n
  <1>7. ASSUME Located(d, o, G) PROVE Located(d, o, E) /\ Located(d, o + m, F)
    <2>1. \A i \in 1..(m + n) : d[o + i] = G[i]
      BY <1>4, <1>7
    <2>2. \A i \in 1..m : d[o + i] = E[i]
      BY <1>1, <2>1
    <2>3. \A i \in 1..n : d[(o + m) + i] = F[i]
      BY <1>1, <1>2, <2>1
    <2>4. QED
      BY <1>1, <1>4, <1>5, <1>6, <1>7, <2>2, <2>3
  <1>8. ASSUME Located(d, o, E), Located(d, o + m, F) PROVE Located(d, o, G)
    <2>1. ASSUME NEW i \in 1..(m + n) PROVE d[o + i] = G[i]
      <3>1. CASE i \in 1..m
        BY <1>1, <1>5, <1>8, <3>1
      <3>2. CASE i - m \in 1..n /\ m + (i - m) = i
        <4>1. PICK j \in 1..n : j = i - m /\ m + j = i
          BY <3>2
        <4>2. d[(o + m) + j] = F[j] /\ G[m + j] = F[j] /\ o + (m + j) = (o + m) + j
          BY <1>1, <1>2, <1>6, <1>8
        <4>3. QED
          BY <4>1, <4>2
      <3>3. QED
        BY <1>3, <3>1, <3>2
    <2>2. o + (m + n) <= Len(d)
      BY <1>1, <1>6, <1>8
    <2>3. QED
      BY <1>4, <2>1, <2>2
  <1>9. QED
    BY <1>7, <1>8 DEF G, m

LEMMA WroteTwice ==
  ASSUME NEW s, NEW t, NEW u, IsStream(s), NEW E \in Seq(Byte), NEW F \in Seq(Byte),
         Wrote(s, t, E), Wrote(t, u, F)
  PROVE  Wrote(s, u, E \o F)
  <1>1. Kept(s, t) /\ Kept(t, u) /\ IsStream(t) /\ IsStream(u)
    BY DEF Wrote, Kept
  <1>2. Kept(s, u)
    BY <1>1, KeptTwice
  <1>3. /\ s.offset \in Nat /\ Len(E) \in Nat /\ Len(F) \in Nat /\ Len(u.data) \in Nat
        /\ Len(E \o F) = Len(E) + Len(F)
    BY <1>1, StreamFields, Cat, LenProperties
  <1>4. t.offset = s.offset + Len(E) /\ u.offset = t.offset + Len(F)
    BY DEF Wrote
  <1>5. Located(t.data, s.offset, E) /\ Located(u.data, s.offset + Len(E), F)
    BY <1>4 DEF Wrote
  <1>6. Located(u.data, s.offset, E)
    BY <1>1, <1>3, <1>4, <1>5, KeptLocated
  <1>7. Located(u.data, s.offset, E \o F)
    BY <1>3, <1>5, <1>6, LocatedCat
  <1>8. u.offset = s.offset + Len(E \o F)
    BY <1>3, <1>4
  <1>9. QED
    BY <1>2, <1>7, <1>8 DEF Wrote

\* Updates of a stream
LEMMA SetOffset ==
  ASSUME NEW r, r = At(r, r.offset, r.val), NEW x
  PROVE  [r EXCEPT !.offset = x] = At(r, x, r.val)
  <1> PICK e, o, b, l, p, w :
        r = [data |-> e, offset |-> o, bound |-> b, little |-> l, past |-> p, val |-> w]
    BY DEF At
  <1> QED
    BY DEF At

LEMMA SetVal ==
  ASSUME NEW r, r = At(r, r.offset, r.val), NEW v
  PROVE  [r EXCEPT !.val = v] = At(r, r.offset, v)
  <1> PICK e, o, b, l, p, w :
        r = [data |-> e, offset |-> o, bound |-> b, little |-> l, past |-> p, val |-> w]
    BY DEF At
  <1> QED
    BY DEF At

LEMMA SetOffsetVal ==
  ASSUME NEW r, r = At(r, r.offset, r.val), NEW x, NEW v
  PROVE  [r EXCEPT !.offset = x, !.val = v] = At(r, x, v)
  <1> PICK e, o, b, l, p, w :
        r = [data |-> e, offset |-> o, bound |-> b, little |-> l, past |-> p, val |-> w]
    BY DEF At
  <1>1. PICK q : q = [r EXCEPT !.offset = x]
    OBVIOUS
  <1>2. q = [data |-> e, offset |-> x, bound |-> b, little |-> l, past |-> p, val |-> w]
    BY <1>1
  <1>3. [r EXCEPT !.offset = x, !.val = v] = [q EXCEPT !.val = v]
    BY <1>1
  <1>4. [q EXCEPT !.val = v] = At(r, x, v)
    BY <1>2 DEF At
  <1>5. QED
    BY <1>3, <1>4

LEMMA SetDataOffset ==
  ASSUME NEW r, r = At(r, r.offset, r.val), NEW d, NEW x
  PROVE  [r EXCEPT !.data = d, !.offset = x] = After(r, d, x)
  <1> PICK e, o, b, l, p, w :
        r = [data |-> e, offset |-> o, bound |-> b, little |-> l, past |-> p, val |-> w]
    BY DEF At
  <1>1. PICK q : q = [r EXCEPT !.data = d]
    OBVIOUS
  <1>2. q = [data |-> d, offset |-> o, bound |-> b, little |-> l, past |-> p, val |-> w]
    BY <1>1
  <1>3. [r EXCEPT !.data = d, !.offset = x] = [q EXCEPT !.offset = x]
    BY <1>1
  <1>4. [q EXCEPT !.offset = x] = After(r, d, x)
    BY <1>2 DEF After
  <1>5. QED
    BY <1>3, <1>4

LEMMA PutFields ==
  ASSUME NEW s, IsStream(s), NEW b \in Seq(Byte)
  PROVE  Put(s, b) = IF Len(b) <= s.bound - s.offset
                     THEN After(s, SubSeq(s.data, 1, s.offset) \o b
                                     \o SubSeq(s.data, s.offset + Len(b) + 1, Len(s.data)),
                                s.offset + Len(b))
                     ELSE s
  <1>1. Fits(s, Len(b)) <=> Len(b) <= s.bound - s.offset
    BY StreamFields DEF Fits
  <1>2. s = At(s, s.offset, s.val)
    BY DEF IsStream
  <1>3. PICK d : d = SubSeq(s.data, 1, s.offset) \o b
                      \o SubSeq(s.data, s.offset + Len(b) + 1, Len(s.data))
    OBVIOUS
  <1>4. PICK x : x = s.offset + Len(b)
    OBVIOUS
  <1>5. Put(s, b) = IF Fits(s, Len(b)) THEN [s EXCEPT !.data = d, !.offset = x] ELSE s
    BY <1>3, <1>4 DEF Put
  <1>6. [s EXCEPT !.data = d, !.offset = x] = After(s, d, x)
    BY <1>2, SetDataOffset
  <1>7. QED
    BY <1>1, <1>3, <1>4, <1>5, <1>6

\* Bytes are written whole, or not at all if there is no room for them.
LEMMA PutKept ==
  ASSUME NEW s, IsStream(s), NEW b \in Seq(Byte)
  PROVE  /\ Kept(s, Put(s, b)) /\ Put(s, b).offset <= s.offset + Len(b)
         /\ s.offset + Len(b) <= s.bound => Wrote(s, Put(s, b), b)
  <1> DEFINE n == Len(b)
             o == s.offset
             d == s.data
  <1>1. /\ d \in Seq(Byte) /\ s.bound = Len(d) /\ Len(d) \in Nat /\ o \in Nat /\ o <= Len(d)
        /\ n \in Nat
    BY StreamFields, LenProperties
  <1>2. CASE o + n <= Len(d)
    <2> DEFINE A == SubSeq(d, 1, o)
               C == SubSeq(d, o + n + 1, Len(d))
               e == A \o b \o C
    <2>1. /\ A \in Seq(Byte) /\ Len(A) = o /\ \A i \in 1..o : A[i] = d[i]
          /\ C \in Seq(Byte) /\ Len(C) = Len(d) - (o + n)
      <3> HIDE DEF Byte, o, n, d
      <3>1. QED
        BY <1>1, <1>2, SubSeqProperties
    <2> HIDE DEF A, C, o, n, d
    <2>0. b \in Seq(Byte) /\ n = Len(b)
      BY DEF n
    <2> HIDE DEF Byte
    <2>2. A \o b \in Seq(Byte) /\ Len(A \o b) = o + n
          /\ (\A i \in 1..o : (A \o b)[i] = A[i]) /\ \A i \in 1..n : (A \o b)[o + i] = b[i]
      <3>1. A \in Seq(Byte) /\ b \in Seq(Byte)
        BY <2>0, <2>1
      <3>2. /\ A \o b \in Seq(Byte) /\ Len(A \o b) = Len(A) + Len(b)
            /\ \A i \in 1..Len(A) : (A \o b)[i] = A[i]
            /\ \A i \in 1..Len(b) : (A \o b)[Len(A) + i] = b[i]
        BY <3>1, Cat
      <3>3. QED
        BY <2>0, <2>1, <3>2
    <2>3. /\ e \in Seq(Byte) /\ Len(e) = Len(d)
          /\ \A i \in 1..(o + n) : e[i] = (A \o b)[i]
      <3>1. A \o b \in Seq(Byte) /\ C \in Seq(Byte)
        BY <2>1, <2>2
      <3>2. /\ e \in Seq(Byte) /\ Len(e) = Len(A \o b) + Len(C)
            /\ \A i \in 1..Len(A \o b) : e[i] = (A \o b)[i]
        BY <3>1, Cat
      <3> HIDE DEF e
      <3>3. QED
        BY <1>1, <2>1, <2>2, <3>2
    <2> HIDE DEF e
    <2> USE DEF o, n, d, Byte
    <2>4. \A i \in 1..n : o + i \in 1..(o + n)
      BY <1>1
    <2>5. \A i \in 1..o : i \in 1..(o + n)
      BY <1>1
    <2>6. Located(e, o, b)
      BY <1>2, <2>2, <2>3, <2>4 DEF Located
    <2>7. \A i \in 1..o : e[i] = d[i]
      BY <2>1, <2>2, <2>3, <2>5
    <2>8. n <= s.bound - o
      BY <1>1, <1>2
    <2>9. Put(s, b) = After(s, e, o + n)
      BY <2>8, PutFields DEF e, A, C
    <2>10. PICK t : t = Put(s, b)
      OBVIOUS
    <2>11. /\ t = After(s, e, o + n) /\ t.data = e /\ t.offset = o + n /\ t.bound = s.bound
           /\ t.little = s.little
           /\ t = At(t, t.offset, t.val)
      BY <2>9, <2>10 DEF After, At
    <2>12. s.little \in BOOLEAN /\ o + n \in 0..Len(d)
      BY <1>1, <1>2, StreamFields
    <2>13. IsStream(t)
      BY <1>1, <2>3, <2>11, <2>12 DEF IsStream
    <2>14. Kept(s, t) /\ t.offset = o + n
      BY <1>1, <2>7, <2>11, <2>13 DEF Kept
    <2>15. Wrote(s, t, b)
      BY <2>6, <2>11, <2>14 DEF Wrote
    <2>16. QED
      BY <1>1, <2>10, <2>14, <2>15
  <1>3. CASE ~(o + n <= Len(d))
    <2>1. ~(n <= s.bound - o)
      BY <1>1, <1>3
    <2>2. Put(s, b) = s
      BY <2>1, PutFields
    <2>3. QED
      BY <1>1, <1>3, <2>2, KeptSelf
  <1>4. QED
    BY <1>2, <1>3

\* Arrays and words in the order of a host
AO(l, b) == IF l THEN Reverse(b) ELSE b
WO(l, b) == IF l THEN b ELSE Reverse(b)

LEMMA ReverseFacts ==
  ASSUME NEW b \in Seq(Byte)
  PROVE  /\ Reverse(b) \in Seq(Byte) /\ Len(Reverse(b)) = Len(b)
         /\ Reverse(Reverse(b)) = b
  <1> DEFINE n == Len(b)
             c == Reverse(b)
  <1>1. n \in Nat /\ b = [i \in 1..n |-> b[i]] /\ \A i \in 1..n : b[i] \in Byte
    BY LenProperties
  <1>2. c = [i \in 1..n |-> b[(n - i) + 1]]
    BY DEF Reverse
  <1> HIDE DEF n, Byte, c
  <1>3. \A i \in 1..n : (n - i) + 1 \in 1..n /\ (n - ((n - i) + 1)) + 1 = i
    BY <1>1
  <1>4. c \in [1..n -> Byte]
    BY <1>1, <1>2, <1>3
  <1>5. c \in Seq(Byte) /\ Len(c) = n
    BY <1>1, <1>4
  <1>6. Reverse(c) = [i \in 1..n |-> c[(n - i) + 1]]
    BY <1>5 DEF Reverse
  <1>7. \A i \in 1..n : c[(n - i) + 1] = b[i]
    BY <1>1, <1>2, <1>3
  <1>8. Reverse(c) = b
    BY <1>1, <1>6, <1>7
  <1>9. QED
    BY <1>5, <1>8 DEF c, n

LEMMA OrderFacts ==
  ASSUME NEW l \in BOOLEAN, NEW b \in Seq(Byte)
  PROVE  /\ AO(l, b) \in Seq(Byte) /\ Len(AO(l, b)) = Len(b) /\ AO(l, AO(l, b)) = b
         /\ WO(l, b) \in Seq(Byte) /\ Len(WO(l, b)) = Len(b) /\ WO(l, WO(l, b)) = b
  BY ReverseFacts DEF AO, WO

LEMMA ByteSeqs ==
  /\ \A n \in Nat : \A b \in Word(n) : b \in Seq(Byte) /\ Len(b) = n
  /\ \A x \in Byte : <<x>> \in Seq(Byte) /\ Len(<<x>>) = 1
  /\ \A x \in Byte, y \in Byte : <<x, y>> \in Seq(Byte) /\ Len(<<x, y>>) = 2
  <1>1. \A n \in Nat : \A b \in Word(n) : b \in Seq(Byte) /\ Len(b) = n
    BY DEF Word
  <1>2. \A x \in Byte : <<x>> \in Seq(Byte) /\ Len(<<x>>) = 1
    OBVIOUS
  <1>3. \A x \in Byte, y \in Byte : <<x, y>> \in Seq(Byte) /\ Len(<<x, y>>) = 2
    OBVIOUS
  <1>4. QED
    BY <1>1, <1>2, <1>3

-----------------------------------------------------------------------------
(* Reads *)

LEMMA PeekLocated ==
  ASSUME NEW r, IsStream(r), NEW E \in Seq(Byte), Located(r.data, r.offset, E)
  PROVE  Peek(r, Len(E)) = E /\ r.offset + Len(E) <= r.bound
  <1>1. /\ Len(E) \in Nat /\ E = [i \in 1..Len(E) |-> E[i]]
        /\ r.offset \in Nat /\ Len(r.data) \in Nat /\ r.bound = Len(r.data)
    BY LenProperties, StreamFields
  <1>2. /\ r.offset + Len(E) <= Len(r.data)
        /\ \A i \in 1..Len(E) : r.data[r.offset + i] = E[i]
    BY DEF Located
  <1>3. \A i \in 1..Len(E) : r.offset + i <= Len(r.data)
    BY <1>1, <1>2
  <1>4. Peek(r, Len(E)) = [i \in 1..Len(E) |-> E[i]]
    BY <1>2, <1>3 DEF Peek
  <1>5. QED
    BY <1>1, <1>2, <1>4

LEMMA TakeAt ==
  ASSUME NEW r, r = At(r, r.offset, r.val), NEW n, NEW v
  PROVE  Take(r, n, v) = At(r, r.offset + n, v)
  <1>1. PICK x : x = r.offset + n
    OBVIOUS
  <1>2. Take(r, n, v) = [r EXCEPT !.offset = x, !.val = v]
    BY <1>1 DEF Take
  <1>3. [r EXCEPT !.offset = x, !.val = v] = At(r, x, v)
    BY SetOffsetVal
  <1>4. QED
    BY <1>1, <1>2, <1>3

LEMMA ReadBytes ==
  ASSUME NEW r, IsStream(r), NEW b \in Seq(Byte), NEW n, n = Len(b),
         Located(r.data, r.offset, AO(r.little, b))
  PROVE  bitstream_read_bytes(r, n) = At(r, r.offset + n, b) /\ r.offset + n <= r.bound
  <1>1. /\ r.little \in BOOLEAN /\ r = At(r, r.offset, r.val)
        /\ r.offset \in Nat /\ r.bound \in Nat
    BY StreamFields DEF IsStream
  <1>2. AO(r.little, b) \in Seq(Byte) /\ Len(AO(r.little, b)) = n
        /\ AO(r.little, AO(r.little, b)) = b
    BY <1>1, OrderFacts
  <1>3. Peek(r, n) = AO(r.little, b) /\ r.offset + n <= r.bound
    BY <1>2, PeekLocated
  <1>4. n \in Nat
    BY LenProperties
  <1>5. Fits(r, n)
    BY <1>1, <1>3, <1>4 DEF Fits
  <1>6. ArrayOrder(r, Peek(r, n)) = b
    BY <1>2, <1>3 DEF ArrayOrder, AO
  <1>7. QED
    BY <1>1, <1>3, <1>5, <1>6, TakeAt, Zenon DEF bitstream_read_bytes

LEMMA ReadsWord ==
  ASSUME NEW r, IsStream(r), NEW b \in Seq(Byte), NEW n, n = Len(b),
         Located(r.data, r.offset, WO(r.little, b))
  PROVE  ReadWord(r, n) = At(r, r.offset + n, b) /\ r.offset + n <= r.bound
  <1>1. r.little \in BOOLEAN /\ r = At(r, r.offset, r.val)
    BY StreamFields DEF IsStream
  <1>2. WO(r.little, b) \in Seq(Byte) /\ Len(WO(r.little, b)) = n
        /\ WO(r.little, WO(r.little, b)) = b
    BY <1>1, OrderFacts
  <1>3. Peek(r, n) = WO(r.little, b) /\ r.offset + n <= r.bound
    BY <1>2, PeekLocated
  <1>4. WordOrder(r, Peek(r, n)) = b
    BY <1>2, <1>3 DEF WordOrder, WO
  <1>5. QED
    BY <1>1, <1>3, <1>4, TakeAt, Zenon DEF ReadWord

LEMMA Read8 ==
  ASSUME NEW r, IsStream(r), NEW x \in Byte, Located(r.data, r.offset, <<x>>)
  PROVE  bitstream_read_uint8(r) = At(r, r.offset + 1, x) /\ r.offset + 1 <= r.bound
  <1>1. r = At(r, r.offset, r.val)
    BY DEF IsStream
  <1>2. <<x>> \in Seq(Byte) /\ Len(<<x>>) = 1
    BY ByteSeqs
  <1>3. Peek(r, 1) = <<x>> /\ r.offset + 1 <= r.bound
    BY <1>2, PeekLocated
  <1>4. Peek(r, 1)[1] = x
    BY <1>3
  <1>5. QED
    BY <1>1, <1>3, <1>4, TakeAt, Zenon DEF bitstream_read_uint8

LEMMA Pair16 ==
  ASSUME NEW n \in Uint16
  PROVE  /\ Bytes16(n) \in Seq(Byte) /\ Len(Bytes16(n)) = 2 /\ Number16(Bytes16(n)) = n
         /\ n < 256 => Bytes16(n) = <<0, n>>
  <1>0. n \in Nat /\ n < 65536
    BY DEF Uint16
  <1>1. PICK a \in Int : a = n \div 256
    BY <1>0
  <1>2. PICK c \in Int : c = n % 256
    BY <1>0
  <1>3. n = 256 * a + c /\ 0 <= c /\ c < 256
    BY <1>0, <1>1, <1>2
  <1>4. a \in 0..255 /\ c \in 0..255
    <2>1. 0 <= n \div 256 /\ n \div 256 < 256
      BY <1>0
    <2>2. a \in 0..255
      BY <1>1, <2>1
    <2>3. c \in 0..255
      BY <1>0, <1>2
    <2>4. QED
      BY <2>2, <2>3
  <1>5. a % 256 = a
    BY <1>4
  <1>6. Bytes16(n) = <<a, c>>
    BY <1>1, <1>2, <1>5 DEF Bytes16
  <1>7. <<a, c>> \in Seq(Byte) /\ Len(<<a, c>>) = 2
    <2>1. a \in Byte /\ c \in Byte
      BY <1>4 DEF Byte
    <2>2. QED
      BY <2>1, ByteSeqs
  <1>8. n < 256 => a = 0 /\ c = n
    BY <1>3, <1>4
  <1>9. Number16(<<a, c>>) = n
    BY <1>3, <1>4 DEF Number16
  <1>10. QED
    BY <1>6, <1>7, <1>8, <1>9

LEMMA Read16 ==
  ASSUME NEW r, IsStream(r), NEW n \in Uint16,
         Located(r.data, r.offset, WO(r.little, Bytes16(n)))
  PROVE  bitstream_read_uint16(r) = At(r, r.offset + 2, n) /\ r.offset + 2 <= r.bound
  <1>0. PICK w : w = Bytes16(n) /\ w \in Seq(Byte) /\ Len(w) = 2 /\ Number16(w) = n
    BY Pair16
  <1>1. ReadWord(r, 2) = At(r, r.offset + 2, w) /\ r.offset + 2 <= r.bound
    BY <1>0, ReadsWord
  <1>2. PICK q : q = At(r, r.offset + 2, w)
    OBVIOUS
  <1>3. q = At(q, q.offset, q.val) /\ q.val = w
    BY <1>2 DEF At
  <1>4. At(q, q.offset, n) = At(r, r.offset + 2, n)
    BY <1>2 DEF At
  <1>5. [q EXCEPT !.val = n] = At(q, q.offset, n)
    BY <1>3, SetVal
  <1>6. bitstream_read_uint16(r) = [q EXCEPT !.val = n]
    BY <1>0, <1>1, <1>2, <1>3 DEF bitstream_read_uint16
  <1>7. QED
    BY <1>1, <1>4, <1>5, <1>6

-----------------------------------------------------------------------------
(* Writes *)

\* A call that writes the bytes E, if there is room for all of them, and
\* otherwise only some of them
Puts(s, t, E) ==
  /\ Kept(s, t) /\ t.offset <= s.offset + Len(E)
  /\ s.offset + Len(E) <= s.bound => Wrote(s, t, E)

LEMMA PutsTwice ==
  ASSUME NEW s, NEW t, NEW u, IsStream(s), NEW E \in Seq(Byte), NEW F \in Seq(Byte),
         Puts(s, t, E), Puts(t, u, F)
  PROVE  Puts(s, u, E \o F)
  <1>1. Kept(s, t) /\ Kept(t, u) /\ IsStream(t) /\ IsStream(u)
    BY DEF Puts, Kept
  <1>2. Kept(s, u) /\ t.bound = s.bound
    BY <1>1, KeptTwice, KeptFields
  <1>3. /\ s.offset \in Nat /\ t.offset \in Nat /\ u.offset \in Nat /\ s.bound \in Nat
        /\ Len(E) \in Nat /\ Len(F) \in Nat /\ Len(E \o F) = Len(E) + Len(F)
    BY <1>1, StreamFields, Cat
  <1>4. t.offset <= s.offset + Len(E) /\ u.offset <= t.offset + Len(F)
    BY DEF Puts
  <1>5. u.offset <= s.offset + Len(E \o F)
    BY <1>3, <1>4
  <1>6. ASSUME s.offset + Len(E \o F) <= s.bound PROVE Wrote(s, u, E \o F)
    <2>1. s.offset + Len(E) <= s.bound /\ t.offset + Len(F) <= t.bound
      BY <1>2, <1>3, <1>4, <1>6
    <2>2. Wrote(s, t, E) /\ Wrote(t, u, F)
      BY <2>1 DEF Puts
    <2>3. QED
      BY <2>2, WroteTwice
  <1>7. QED
    BY <1>2, <1>5, <1>6 DEF Puts

LEMMA PutsStream ==
  ASSUME NEW s, NEW t, NEW E, IsStream(s), Puts(s, t, E)
  PROVE  IsStream(t) /\ t.little = s.little /\ t.bound = s.bound
  BY KeptFields DEF Puts, Kept

LEMMA PutPuts ==
  ASSUME NEW s, IsStream(s), NEW b \in Seq(Byte)
  PROVE  Puts(s, Put(s, b), b)
  BY PutKept DEF Puts

LEMMA Write8 ==
  ASSUME NEW s, IsStream(s), NEW x \in Byte
  PROVE  Puts(s, bitstream_write_uint8(s, x), <<x>>)
  <1>1. x % 256 = x
    BY DEF Byte
  <1>2. <<x>> \in Seq(Byte)
    BY ByteSeqs
  <1>3. bitstream_write_uint8(s, x) = Put(s, <<x>>)
    BY <1>1 DEF bitstream_write_uint8
  <1>4. QED
    BY <1>2, <1>3, PutPuts

LEMMA WriteBytes ==
  ASSUME NEW s, IsStream(s), NEW b \in Seq(Byte)
  PROVE  Puts(s, bitstream_write_bytes(s, b), AO(s.little, b))
  <1>1. ArrayOrder(s, b) = AO(s.little, b)
    BY DEF ArrayOrder, AO
  <1>2. AO(s.little, b) \in Seq(Byte)
    BY StreamFields, OrderFacts
  <1>3. QED
    BY <1>1, <1>2, PutPuts DEF bitstream_write_bytes

LEMMA WritesWord ==
  ASSUME NEW s, IsStream(s), NEW b \in Seq(Byte)
  PROVE  Puts(s, WriteWord(s, b), WO(s.little, b))
  <1>1. WordOrder(s, b) = WO(s.little, b)
    BY DEF WordOrder, WO
  <1>2. WO(s.little, b) \in Seq(Byte)
    BY StreamFields, OrderFacts
  <1>3. QED
    BY <1>1, <1>2, PutPuts DEF WriteWord

LEMMA Write16 ==
  ASSUME NEW s, IsStream(s), NEW n \in Uint16
  PROVE  Puts(s, bitstream_write_uint16(s, n), WO(s.little, Bytes16(n)))
  BY Pair16, WritesWord DEF bitstream_write_uint16

LEMMA WriteString ==
  ASSUME NEW s, IsStream(s), NEW b \in Seq(Byte), Len(b) \in Byte
  PROVE  Puts(s, bitstream_write_str(s, b), <<Len(b)>> \o AO(s.little, b))
  <1>0. PICK x \in Byte : x = Len(b)
    OBVIOUS
  <1> DEFINE t == bitstream_write_uint8(s, x)
             u == bitstream_write_bytes(t, b)
             E == <<x>> \o AO(s.little, b)
  <1>1. <<x>> \in Seq(Byte) /\ Len(<<x>>) = 1 /\ AO(s.little, b) \in Seq(Byte)
        /\ Len(AO(s.little, b)) = Len(b) /\ Len(b) \in Nat
    BY ByteSeqs, StreamFields, OrderFacts, LenProperties
  <1>2. Len(E) = 1 + Len(b)
    BY <1>1, Cat
  <1>3. Puts(s, t, <<x>>)
    BY Write8
  <1> HIDE DEF t
  <1>4. IsStream(t) /\ t.little = s.little
    BY <1>3, PutsStream
  <1>5. Puts(t, u, AO(s.little, b))
    BY <1>4, WriteBytes
  <1>6. Puts(s, u, E)
    BY <1>1, <1>3, <1>5, PutsTwice
  <1>7. bitstream_write_str(s, b) = IF Fits(s, Len(b) + 1) THEN u ELSE s
    BY <1>0 DEF bitstream_write_str, t
  <1> HIDE DEF u, E
  <1>8. s.offset \in Nat /\ s.bound \in Nat /\ s.offset <= s.bound /\ Kept(s, s)
    BY StreamFields, KeptSelf
  <1>9. ~Fits(s, Len(b) + 1) => Puts(s, s, E)
    BY <1>1, <1>2, <1>8 DEF Fits, Puts
  <1>10. Puts(s, bitstream_write_str(s, b), E)
    BY <1>6, <1>7, <1>9
  <1>11. QED
    BY <1>0, <1>10 DEF E

-----------------------------------------------------------------------------
(* Fields of objects *)

LEMMA SomeBytes ==
  /\ 0 \in Byte /\ 1 \in Byte /\ 2 \in Byte /\ 3 \in Byte /\ 4 \in Byte /\ 5 \in Byte
  /\ 8 \in Byte /\ \hA2 \in Byte
  /\ \A n \in Nat : n <= 128 => n \in Byte /\ 2 + n \in Byte
  BY DEF Byte

\* The bytes of a string behind the attribute's type and length, and those of
\* an attribute of a fixed length
StringBytes(l, v) == (<<1>> \o <<2 + Len(v)>>) \o (<<Len(v)>> \o AO(l, v))
FixedBytes(type, length, b) == (<<type>> \o <<length>>) \o b
AddressBytes(l, a) == Reverse(AO(l, a.port)) \o Reverse(AO(l, a.host))
DataBytes(l, v) == <<Len(v)>> \o AO(l, v)

\* The bytes of a field, by the kind it is unpacked as
FieldBytes(l, kind, v) ==
  CASE kind = "uint64" -> WO(l, v)
    [] kind = "data" -> DataBytes(l, v)
    [] kind = "name" -> StringBytes(l, v)
    [] kind = "email" -> StringBytes(l, v)
    [] kind = "peerId" -> StringBytes(l, v)
    [] kind = "address" -> FixedBytes(2, 8, AddressBytes(l, v))
    [] kind = "seconds" -> FixedBytes(3, 4, WO(l, v))
    [] kind = "count" -> FixedBytes(4, 2, WO(l, Bytes16(v)))

LEMMA FixedType ==
  ASSUME NEW x \in Byte, NEW y \in Byte, NEW b \in Seq(Byte)
  PROVE  /\ FixedBytes(x, y, b) \in Seq(Byte) /\ Len(FixedBytes(x, y, b)) = 2 + Len(b)
         /\ <<x>> \o <<y>> \in Seq(Byte) /\ Len(<<x>> \o <<y>>) = 2
  <1>1. <<x>> \in Seq(Byte) /\ <<y>> \in Seq(Byte) /\ Len(<<x>>) = 1 /\ Len(<<y>>) = 1
    BY ByteSeqs
  <1>2. PICK c : c = <<x>> \o <<y>>
    OBVIOUS
  <1>3. c \in Seq(Byte) /\ Len(c) = 2
    BY <1>1, <1>2, Cat
  <1>4. c \o b \in Seq(Byte) /\ Len(c \o b) = 2 + Len(b)
    <2>1. c \in Seq(Byte)
      BY <1>3
    <2>2. c \o b \in Seq(Byte) /\ Len(c \o b) = Len(c) + Len(b)
      BY <2>1, Cat
    <2>3. QED
      BY <1>3, <2>2
  <1>5. QED
    BY <1>2, <1>3, <1>4 DEF FixedBytes

LEMMA DataType ==
  ASSUME NEW l \in BOOLEAN, NEW v \in Seq(Byte), Len(v) \in Byte
  PROVE  /\ DataBytes(l, v) \in Seq(Byte) /\ Len(DataBytes(l, v)) = 1 + Len(v)
         /\ <<Len(v)>> \in Seq(Byte) /\ Len(<<Len(v)>>) = 1
  <1>1. PICK x \in Byte : x = Len(v)
    OBVIOUS
  <1>2. <<x>> \in Seq(Byte) /\ Len(<<x>>) = 1 /\ AO(l, v) \in Seq(Byte)
        /\ Len(AO(l, v)) = Len(v)
    BY ByteSeqs, OrderFacts
  <1>3. <<x>> \o AO(l, v) \in Seq(Byte) /\ Len(<<x>> \o AO(l, v)) = 1 + Len(v)
    BY <1>2, Cat
  <1>4. QED
    BY <1>1, <1>2, <1>3 DEF DataBytes

LEMMA StringType ==
  ASSUME NEW l \in BOOLEAN, NEW v \in Seq(Byte), Len(v) \in Byte, 2 + Len(v) \in Byte
  PROVE  StringBytes(l, v) \in Seq(Byte) /\ Len(StringBytes(l, v)) = 3 + Len(v)
  <1>1. PICK y \in Byte : y = 2 + Len(v)
    OBVIOUS
  <1>2. PICK b : b = DataBytes(l, v) /\ b \in Seq(Byte) /\ Len(b) = 1 + Len(v)
    BY DataType
  <1>3. FixedBytes(1, y, b) \in Seq(Byte) /\ Len(FixedBytes(1, y, b)) = 2 + Len(b)
    <2>1. 1 \in Byte /\ b \in Seq(Byte)
      BY <1>2, SomeBytes
    <2>2. QED
      BY <2>1, FixedType
  <1>4. StringBytes(l, v) = FixedBytes(1, y, b)
    BY <1>1, <1>2 DEF StringBytes, FixedBytes, DataBytes
  <1>5. Len(v) \in Nat
    BY LenProperties
  <1>6. QED
    BY <1>2, <1>3, <1>4, <1>5

LEMMA AddressType ==
  ASSUME NEW l \in BOOLEAN, NEW a \in Address
  PROVE  /\ a.port \in Seq(Byte) /\ a.host \in Seq(Byte) /\ Len(a.port) = 2 /\ Len(a.host) = 4
         /\ AO(l, a.port) \in Seq(Byte) /\ Len(AO(l, a.port)) = 2
         /\ AO(l, a.host) \in Seq(Byte) /\ Len(AO(l, a.host)) = 4
         /\ Reverse(AO(l, a.port)) \in Seq(Byte) /\ Len(Reverse(AO(l, a.port))) = 2
         /\ Reverse(AO(l, a.host)) \in Seq(Byte) /\ Len(Reverse(AO(l, a.host))) = 4
         /\ AddressBytes(l, a) \in Seq(Byte) /\ Len(AddressBytes(l, a)) = 6
         /\ a = [host |-> a.host, port |-> a.port]
  <1>1. a.port \in Word(2) /\ a.host \in Word(4) /\ a = [host |-> a.host, port |-> a.port]
    BY DEF Address, Word
  <1>2. a.port \in Seq(Byte) /\ a.host \in Seq(Byte) /\ Len(a.port) = 2 /\ Len(a.host) = 4
    BY <1>1, ByteSeqs
  <1>3. /\ AO(l, a.port) \in Seq(Byte) /\ Len(AO(l, a.port)) = 2
        /\ AO(l, a.host) \in Seq(Byte) /\ Len(AO(l, a.host)) = 4
    BY <1>2, OrderFacts
  <1>4. /\ Reverse(AO(l, a.port)) \in Seq(Byte) /\ Len(Reverse(AO(l, a.port))) = 2
        /\ Reverse(AO(l, a.host)) \in Seq(Byte) /\ Len(Reverse(AO(l, a.host))) = 4
    BY <1>3, ReverseFacts
  <1>5. AddressBytes(l, a) \in Seq(Byte) /\ Len(AddressBytes(l, a)) = 6
    <2>1. PICK p, h : p = Reverse(AO(l, a.port)) /\ h = Reverse(AO(l, a.host))
      OBVIOUS
    <2>2. p \in Seq(Byte) /\ h \in Seq(Byte) /\ Len(p) = 2 /\ Len(h) = 4
      BY <1>4, <2>1
    <2>3. p \o h \in Seq(Byte) /\ Len(p \o h) = Len(p) + Len(h)
      BY <2>2, Cat
    <2>4. QED
      BY <2>1, <2>2, <2>3 DEF AddressBytes
  <1>6. QED
    BY <1>1, <1>2, <1>3, <1>4, <1>5

LEMMA TypeLengthPuts ==
  ASSUME NEW s, IsStream(s), NEW x \in Byte, NEW y \in Byte
  PROVE  Puts(s, PackTypeLength(s, x, y), <<x>> \o <<y>>)
  <1>1. PICK t : t = bitstream_write_uint8(s, x)
    OBVIOUS
  <1>2. Puts(s, t, <<x>>)
    BY <1>1, Write8
  <1>3. IsStream(t)
    BY <1>2, PutsStream
  <1>4. Puts(t, bitstream_write_uint8(t, y), <<y>>)
    BY <1>3, Write8
  <1>5. <<x>> \in Seq(Byte) /\ <<y>> \in Seq(Byte)
    BY ByteSeqs
  <1>6. Puts(s, bitstream_write_uint8(t, y), <<x>> \o <<y>>)
    BY <1>2, <1>4, <1>5, PutsTwice
  <1>7. QED
    BY <1>1, <1>6 DEF PackTypeLength

LEMMA FixedPuts ==
  ASSUME NEW s, IsStream(s), NEW x \in Byte, NEW y \in Byte, NEW b \in Seq(Byte),
         NEW u, Puts(PackTypeLength(s, x, y), u, b)
  PROVE  Puts(s, u, FixedBytes(x, y, b))
  <1>1. Puts(s, PackTypeLength(s, x, y), <<x>> \o <<y>>)
    BY TypeLengthPuts
  <1>2. <<x>> \o <<y>> \in Seq(Byte)
    BY FixedType
  <1>3. QED
    BY <1>1, <1>2, PutsTwice DEF FixedBytes

LEMMA StringPuts ==
  ASSUME NEW s, IsStream(s), NEW v \in Seq(Byte), Len(v) \in Byte, 2 + Len(v) \in Byte
  PROVE  Puts(s, transactionProtocolPackAttributeString(s, v), StringBytes(s.little, v))
  <1>1. PICK y \in Byte : y = 2 + Len(v)
    OBVIOUS
  <1>2. PICK t : t = PackTypeLength(s, 1, y)
    OBVIOUS
  <1>3. 1 \in Byte
    BY SomeBytes
  <1>4. Puts(s, t, <<1>> \o <<y>>)
    BY <1>2, <1>3, TypeLengthPuts
  <1>5. IsStream(t) /\ t.little = s.little
    BY <1>4, PutsStream
  <1>6. PICK b : b = DataBytes(s.little, v) /\ b \in Seq(Byte)
    BY StreamFields, DataType
  <1>7. Puts(t, bitstream_write_str(t, v), b)
    BY <1>5, <1>6, WriteString DEF DataBytes
  <1>8. Puts(s, bitstream_write_str(t, v), FixedBytes(1, y, b))
    BY <1>2, <1>3, <1>6, <1>7, FixedPuts
  <1>9. StringBytes(s.little, v) = FixedBytes(1, y, b)
    BY <1>1, <1>6 DEF StringBytes, FixedBytes, DataBytes
  <1>10. transactionProtocolPackAttributeString(s, v) = bitstream_write_str(t, v)
    BY <1>1, <1>2 DEF transactionProtocolPackAttributeString, TransactionAttributeTypeString
  <1>11. QED
    BY <1>8, <1>9, <1>10

LEMMA AddressPuts ==
  ASSUME NEW s, IsStream(s), NEW a \in Address
  PROVE  Puts(s, transactionProtocolPackAttributeAddress(s, a),
              FixedBytes(2, 8, AddressBytes(s.little, a)))
  <1>1. PICK p, h : p = AO(s.little, a.port) /\ h = AO(s.little, a.host)
    OBVIOUS
  <1>2. /\ Reverse(p) \in Seq(Byte) /\ Reverse(h) \in Seq(Byte)
        /\ AddressBytes(s.little, a) \in Seq(Byte)
    BY <1>1, StreamFields, AddressType
  <1>3. PICK t : t = PackTypeLength(s, 2, 8)
    OBVIOUS
  <1>4. 2 \in Byte /\ 8 \in Byte
    BY SomeBytes
  <1>5. Puts(s, t, <<2>> \o <<8>>)
    BY <1>3, <1>4, TypeLengthPuts
  <1>6. IsStream(t)
    BY <1>5, PutsStream
  <1>7. PICK u : u = Put(t, Reverse(p))
    OBVIOUS
  <1>8. Puts(t, u, Reverse(p))
    BY <1>2, <1>6, <1>7, PutPuts
  <1>9. IsStream(u)
    BY <1>6, <1>8, PutsStream
  <1>10. Puts(u, Put(u, Reverse(h)), Reverse(h))
    BY <1>2, <1>9, PutPuts
  <1>11. Puts(t, Put(u, Reverse(h)), Reverse(p) \o Reverse(h))
    BY <1>2, <1>6, <1>8, <1>10, PutsTwice
  <1>12. Reverse(p) \o Reverse(h) = AddressBytes(s.little, a)
    BY <1>1 DEF AddressBytes
  <1>13. Puts(PackTypeLength(s, 2, 8), Put(u, Reverse(h)), AddressBytes(s.little, a))
    BY <1>3, <1>11, <1>12
  <1>14. Puts(s, Put(u, Reverse(h)), FixedBytes(2, 8, AddressBytes(s.little, a)))
    BY <1>2, <1>4, <1>13, FixedPuts
  <1>15. Number(s, a.port) = p /\ Number(s, a.host) = h
    BY <1>1 DEF Number, ArrayOrder, AO
  <1>16. transactionProtocolPackAttributeAddress(s, a) = Put(u, Reverse(h))
    BY <1>3, <1>7, <1>15
       DEF transactionProtocolPackAttributeAddress, bitstream_write_uint32_endian,
           bitstream_write_uint16_endian, TransactionAttributeTypeAddress,
           kTransactionAttributeLengthAddress
  <1>17. QED
    BY <1>14, <1>16

LEMMA SecondsPuts ==
  ASSUME NEW s, IsStream(s), NEW v \in Word(4)
  PROVE  Puts(s, transactionProtocolPackAttributeSeconds(s, v),
              FixedBytes(3, 4, WO(s.little, v)))
  <1>1. PICK t : t = PackTypeLength(s, 3, 4)
    OBVIOUS
  <1>2. 3 \in Byte /\ 4 \in Byte
    BY SomeBytes
  <1>3. Puts(s, t, <<3>> \o <<4>>)
    BY <1>1, <1>2, TypeLengthPuts
  <1>4. IsStream(t) /\ t.little = s.little
    BY <1>3, PutsStream
  <1>5. v \in Seq(Byte) /\ WO(s.little, v) \in Seq(Byte)
    BY ByteSeqs, StreamFields, OrderFacts
  <1>6. Puts(t, WriteWord(t, v), WO(s.little, v))
    BY <1>4, <1>5, WritesWord
  <1>7. Puts(s, WriteWord(t, v), FixedBytes(3, 4, WO(s.little, v)))
    BY <1>1, <1>2, <1>5, <1>6, FixedPuts
  <1>8. transactionProtocolPackAttributeSeconds(s, v) = WriteWord(t, v)
    BY <1>1 DEF transactionProtocolPackAttributeSeconds, bitstream_write_uint32,
                TransactionAttributeTypeSeconds, kTransactionAttributeLengthSeconds
  <1>9. QED
    BY <1>7, <1>8

LEMMA CountPuts ==
  ASSUME NEW s, IsStream(s), NEW n \in Uint16
  PROVE  Puts(s, transactionProtocolPackAttributeCount(s, n),
              FixedBytes(4, 2, WO(s.little, Bytes16(n))))
  <1>1. PICK t : t = PackTypeLength(s, 4, 2)
    OBVIOUS
  <1>2. 4 \in Byte /\ 2 \in Byte
    BY SomeBytes
  <1>3. Puts(s, t, <<4>> \o <<2>>)
    BY <1>1, <1>2, TypeLengthPuts
  <1>4. IsStream(t) /\ t.little = s.little
    BY <1>3, PutsStream
  <1>5. WO(s.little, Bytes16(n)) \in Seq(Byte)
    BY Pair16, StreamFields, OrderFacts
  <1>6. Puts(t, bitstream_write_uint16(t, n), WO(s.little, Bytes16(n)))
    BY <1>4, Write16
  <1>7. Puts(s, bitstream_write_uint16(t, n), FixedBytes(4, 2, WO(s.little, Bytes16(n))))
    BY <1>1, <1>2, <1>5, <1>6, FixedPuts
  <1>8. transactionProtocolPackAttributeCount(s, n) = bitstream_write_uint16(t, n)
    BY <1>1 DEF transactionProtocolPackAttributeCount, TransactionAttributeTypeCount,
                kTransactionAttributeLengthCount
  <1>9. QED
    BY <1>7, <1>8

LEMMA DataPuts ==
  ASSUME NEW s, IsStream(s), NEW v \in Seq(Byte), Len(v) \in Byte
  PROVE  Puts(s, PackData(s, v), DataBytes(s.little, v))
  <1>1. PICK x \in Byte : x = Len(v)
    OBVIOUS
  <1>2. PICK t : t = bitstream_write_uint8(s, x)
    OBVIOUS
  <1>3. Puts(s, t, <<x>>)
    BY <1>2, Write8
  <1>4. IsStream(t) /\ t.little = s.little
    BY <1>3, PutsStream
  <1>5. Puts(t, bitstream_write_bytes(t, v), AO(s.little, v))
    BY <1>4, WriteBytes
  <1>6. <<x>> \in Seq(Byte) /\ AO(s.little, v) \in Seq(Byte)
    BY ByteSeqs, StreamFields, OrderFacts
  <1>7. Puts(s, bitstream_write_bytes(t, v), <<x>> \o AO(s.little, v))
    BY <1>3, <1>5, <1>6, PutsTwice
  <1>8. PackData(s, v) = bitstream_write_bytes(t, v)
    BY <1>1, <1>2 DEF PackData
  <1>9. QED
    BY <1>1, <1>7, <1>8 DEF DataBytes

-----------------------------------------------------------------------------
(* ... and their reads *)

LEMMA ReadTypeLength ==
  ASSUME NEW r, IsStream(r), NEW x \in Byte, NEW y \in Byte, NEW b \in Seq(Byte),
         Located(r.data, r.offset, FixedBytes(x, y, b))
  PROVE  /\ bitstream_read_uint8(r) = At(r, r.offset + 1, x)
         /\ bitstream_read_uint8(At(r, r.offset + 1, x)) = At(r, r.offset + 2, y)
         /\ IsStream(At(r, r.offset + 2, y))
         /\ Located(r.data, r.offset + 2, b)
  <1>1. <<x>> \in Seq(Byte) /\ <<y>> \in Seq(Byte) /\ Len(<<x>>) = 1 /\ Len(<<y>>) = 1
    BY ByteSeqs
  <1>2. PICK c : c = <<x>> \o <<y>> /\ c \in Seq(Byte) /\ Len(c) = 2
    BY FixedType
  <1>3. r.offset \in Nat /\ Len(r.data) \in Nat /\ r.bound = Len(r.data)
    BY StreamFields
  <1>4. Located(r.data, r.offset, c \o b)
    BY <1>2 DEF FixedBytes
  <1>5. Located(r.data, r.offset, c) /\ Located(r.data, r.offset + 2, b)
    BY <1>2, <1>3, <1>4, LocatedCat
  <1>6. Located(r.data, r.offset, <<x>>) /\ Located(r.data, r.offset + 1, <<y>>)
    BY <1>1, <1>2, <1>3, <1>5, LocatedCat
  <1>7. bitstream_read_uint8(r) = At(r, r.offset + 1, x) /\ r.offset + 1 <= r.bound
    BY <1>6, Read8
  <1>8. PICK q : q = At(r, r.offset + 1, x)
    OBVIOUS
  <1>9. q.data = r.data /\ q.offset = r.offset + 1 /\ q.bound = r.bound
        /\ At(q, q.offset + 1, y) = At(r, (r.offset + 1) + 1, y)
    BY <1>8 DEF At
  <1>10. r.offset + 1 \in 0..r.bound
    BY <1>3, <1>7
  <1>11. IsStream(q)
    BY <1>8, <1>10, AtStream
  <1>12. bitstream_read_uint8(q) = At(q, q.offset + 1, y) /\ q.offset + 1 <= q.bound
    BY <1>6, <1>9, <1>11, Read8
  <1>13. (r.offset + 1) + 1 = r.offset + 2 /\ r.offset + 2 \in 0..r.bound
    BY <1>3, <1>9, <1>12
  <1>14. IsStream(At(r, r.offset + 2, y))
    BY <1>13, AtStream
  <1>15. QED
    BY <1>5, <1>7, <1>8, <1>9, <1>12, <1>13, <1>14

\* A stream further on
LEMMA Further ==
  ASSUME NEW r, IsStream(r), NEW n \in Nat, r.offset + n <= r.bound, NEW v
  PROVE  /\ IsStream(At(r, r.offset + n, v))
         /\ r.offset + n \in Nat
  <1>1. r.offset + n \in 0..r.bound /\ r.offset + n \in Nat
    BY StreamFields
  <1>2. QED
    BY <1>1, AtStream

LEMMA LocatedRoom ==
  ASSUME NEW r, IsStream(r), NEW o, NEW E, Located(r.data, o, E)
  PROVE  o + Len(E) <= r.bound
  BY StreamFields DEF Located

LEMMA DataRead ==
  ASSUME NEW r, IsStream(r), NEW v \in Seq(Byte), Len(v) \in Byte,
         Located(r.data, r.offset, DataBytes(r.little, v))
  PROVE  /\ bitstream_read_uint8(r) = At(r, r.offset + 1, Len(v))
         /\ bitstream_read_bytes(At(r, r.offset + 1, Len(v)), Len(v))
              = At(r, r.offset + (1 + Len(v)), v)
         /\ r.offset + (1 + Len(v)) <= r.bound
  <1>1. PICK x \in Byte : x = Len(v)
    OBVIOUS
  <1>2. PICK b : b = AO(r.little, v)
    OBVIOUS
  <1>3. /\ <<x>> \in Seq(Byte) /\ Len(<<x>>) = 1 /\ b \in Seq(Byte) /\ Len(b) = Len(v)
        /\ Len(v) \in Nat
    BY <1>2, ByteSeqs, StreamFields, OrderFacts, LenProperties
  <1>4. r.offset \in Nat /\ Len(r.data) \in Nat /\ r.bound \in Nat
    BY StreamFields
  <1>5. Located(r.data, r.offset, <<x>> \o b)
    BY <1>1, <1>2 DEF DataBytes
  <1>6. Located(r.data, r.offset, <<x>>) /\ Located(r.data, r.offset + 1, b)
    BY <1>3, <1>4, <1>5, LocatedCat
  <1>7. bitstream_read_uint8(r) = At(r, r.offset + 1, x) /\ r.offset + 1 <= r.bound
    BY <1>6, Read8
  <1>8. PICK q : q = At(r, r.offset + 1, x)
    OBVIOUS
  <1>9. IsStream(q)
    BY <1>7, <1>8, Further
  <1>10. q.data = r.data /\ q.offset = r.offset + 1 /\ q.bound = r.bound
         /\ q.little = r.little
    BY <1>8, AtFields
  <1>11. bitstream_read_bytes(q, Len(v)) = At(q, q.offset + Len(v), v)
         /\ q.offset + Len(v) <= q.bound
    BY <1>2, <1>6, <1>9, <1>10, ReadBytes
  <1>12. (r.offset + 1) + Len(v) = r.offset + (1 + Len(v))
    BY <1>3, <1>4
  <1>13. At(q, q.offset + Len(v), v) = At(r, r.offset + (1 + Len(v)), v)
    BY <1>8, <1>10, <1>12 DEF At
  <1>14. QED
    BY <1>1, <1>7, <1>8, <1>10, <1>11, <1>12, <1>13

LEMMA NotUnset ==
  ASSUME NEW v \in Seq(Byte)
  PROVE  v # Unset
  <1>1. SUFFICES ASSUME v = <<-1>> PROVE FALSE
    BY DEF Unset
  <1>2. Len(v) = 1 /\ v[1] = -1
    BY <1>1
  <1>3. v[1] \in Byte
    BY <1>2, ElementOfSeq
  <1>4. QED
    BY <1>2, <1>3 DEF Byte

LEMMA DataFieldRead ==
  ASSUME NEW r, IsStream(r), NEW v \in Seq(Byte), Len(v) \in Byte,
         Located(r.data, r.offset, DataBytes(r.little, v))
  PROVE  UnpackData(r) = Valid(At(r, r.offset + (1 + Len(v)), v))
  <1>1. PICK q : q = At(r, r.offset + 1, Len(v))
    OBVIOUS
  <1>2. PICK u : u = At(r, r.offset + (1 + Len(v)), v)
    OBVIOUS
  <1>3. bitstream_read_uint8(r) = q /\ bitstream_read_bytes(q, Len(v)) = u
    BY <1>1, <1>2, DataRead
  <1>4. q.val = Len(v) /\ u.val = v
    BY <1>1, <1>2, AtFields
  <1>5. u.val # Unset
    BY <1>4, NotUnset
  <1>6. UnpackData(r) = Valid(u)
    BY <1>3, <1>4, <1>5 DEF UnpackData
  <1>7. QED
    BY <1>2, <1>6

LEMMA StringRead ==
  ASSUME NEW r, IsStream(r), NEW v \in Seq(Byte), Len(v) \in Byte, 2 + Len(v) \in Byte,
         NEW max \in Nat, Len(v) < max,
         Located(r.data, r.offset, StringBytes(r.little, v))
  PROVE  transactionProtocolUnpackAttributeString(r, max)
           = Valid(At(r, r.offset + (3 + Len(v)), v))
  <1>1. PICK y \in Byte : y = 2 + Len(v)
    OBVIOUS
  <1>2. PICK b : b = DataBytes(r.little, v) /\ b \in Seq(Byte)
    BY StreamFields, DataType
  <1>3. Located(r.data, r.offset, FixedBytes(1, y, b))
    BY <1>1, <1>2 DEF StringBytes, FixedBytes, DataBytes
  <1>4. 1 \in Byte
    BY SomeBytes
  <1>5. PICK p : p = At(r, r.offset + 1, 1)
    OBVIOUS
  <1>6. PICK q : q = At(r, r.offset + 2, y)
    OBVIOUS
  <1>7. /\ bitstream_read_uint8(r) = p /\ bitstream_read_uint8(p) = q
        /\ IsStream(q) /\ Located(r.data, r.offset + 2, b)
    BY <1>2, <1>3, <1>4, <1>5, <1>6, ReadTypeLength
  <1>8. q.data = r.data /\ q.offset = r.offset + 2 /\ q.little = r.little /\ p.val = 1
    BY <1>5, <1>6, AtFields
  <1>9. PICK l, u : l = At(q, q.offset + 1, Len(v)) /\ u = At(q, q.offset + (1 + Len(v)), v)
    OBVIOUS
  <1>10. Located(q.data, q.offset, DataBytes(q.little, v))
    BY <1>2, <1>7, <1>8
  <1>11. bitstream_read_uint8(q) = l /\ bitstream_read_bytes(l, Len(v)) = u
    BY <1>7, <1>9, <1>10, DataRead
  <1>12. l.val = Len(v)
    BY <1>9, AtFields
  <1>13. Len(v) \in Nat /\ r.offset \in Nat
    BY LenProperties, StreamFields
  <1>14. ~(Len(v) + 1 > max)
    BY <1>13
  <1>15. bitstream_read_str(q, max) = u
    BY <1>11, <1>12, <1>14 DEF bitstream_read_str
  <1>16. transactionProtocolUnpackAttributeString(r, max) = Valid(u)
    BY <1>7, <1>8, <1>15
       DEF transactionProtocolUnpackAttributeString, TransactionAttributeTypeString
  <1>17. (r.offset + 2) + (1 + Len(v)) = r.offset + (3 + Len(v))
    BY <1>13
  <1>18. u = At(r, r.offset + (3 + Len(v)), v)
    BY <1>6, <1>8, <1>9, <1>17 DEF At
  <1>19. QED
    BY <1>16, <1>18

LEMMA EndianRead ==
  ASSUME NEW r, IsStream(r), NEW b \in Seq(Byte), NEW n, n = Len(b),
         Located(r.data, r.offset, Reverse(b))
  PROVE  Take(r, n, Reverse(Peek(r, n))) = At(r, r.offset + n, b) /\ r.offset + n <= r.bound
  <1>1. r = At(r, r.offset, r.val)
    BY DEF IsStream
  <1>2. Reverse(b) \in Seq(Byte) /\ Len(Reverse(b)) = n /\ Reverse(Reverse(b)) = b
    BY ReverseFacts
  <1>3. Peek(r, n) = Reverse(b) /\ r.offset + n <= r.bound
    BY <1>2, PeekLocated
  <1>4. QED
    BY <1>1, <1>2, <1>3, TakeAt

LEMMA ReadsAddress ==
  ASSUME NEW r, IsStream(r), NEW a \in Address,
         Located(r.data, r.offset, AddressBytes(r.little, a))
  PROVE  ReadAddress(r) = At(r, r.offset + 6, a)
  <1>1. PICK p, h : p = AO(r.little, a.port) /\ h = AO(r.little, a.host)
    OBVIOUS
  <1>2. /\ p \in Seq(Byte) /\ 2 = Len(p) /\ h \in Seq(Byte) /\ 4 = Len(h)
        /\ Reverse(p) \in Seq(Byte) /\ Len(Reverse(p)) = 2 /\ Reverse(h) \in Seq(Byte)
        /\ a = [host |-> a.host, port |-> a.port]
        /\ a.port \in Seq(Byte) /\ a.host \in Seq(Byte)
    BY <1>1, StreamFields, AddressType
  <1>3. AO(r.little, p) = a.port /\ AO(r.little, h) = a.host
    BY <1>1, <1>2, StreamFields, OrderFacts
  <1>4. r.offset \in Nat /\ Len(r.data) \in Nat /\ r.bound \in Nat
    BY StreamFields
  <1>5. Located(r.data, r.offset, Reverse(p) \o Reverse(h))
    BY <1>1 DEF AddressBytes
  <1>6. Located(r.data, r.offset, Reverse(p)) /\ Located(r.data, r.offset + 2, Reverse(h))
    BY <1>2, <1>4, <1>5, LocatedCat
  <1>7. PICK q : q = At(r, r.offset + 2, p)
    OBVIOUS
  <1>8. bitstream_read_uint16_endian(r) = q /\ r.offset + 2 <= r.bound
    BY <1>2, <1>6, <1>7, EndianRead DEF bitstream_read_uint16_endian
  <1>9. IsStream(q)
    BY <1>7, <1>8, Further
  <1>10. q.data = r.data /\ q.offset = r.offset + 2 /\ q.val = p
    BY <1>7, AtFields
  <1>11. PICK u : u = At(q, q.offset + 4, h)
    OBVIOUS
  <1>12. bitstream_read_uint32_endian(q) = u
    BY <1>2, <1>6, <1>9, <1>10, <1>11, EndianRead DEF bitstream_read_uint32_endian
  <1>13. u.val = h /\ u = At(u, u.offset, u.val)
    BY <1>11 DEF At
  <1>14. net_addr_set(r, h, p, FALSE) = a
    BY <1>2, <1>3 DEF net_addr_set, Memory, ArrayOrder, AO
  <1>15. ReadAddress(r) = [u EXCEPT !.val = a]
    BY <1>8, <1>10, <1>12, <1>13, <1>14 DEF ReadAddress
  <1>16. [u EXCEPT !.val = a] = At(u, u.offset, a)
    BY <1>13, SetVal
  <1>17. (r.offset + 2) + 4 = r.offset + 6
    BY <1>4
  <1>18. At(u, u.offset, a) = At(r, r.offset + 6, a)
    BY <1>7, <1>10, <1>11, <1>17 DEF At
  <1>19. QED
    BY <1>15, <1>16, <1>18

LEMMA AddressRead ==
  ASSUME NEW r, IsStream(r), NEW a \in Address,
         Located(r.data, r.offset, FixedBytes(2, 8, AddressBytes(r.little, a)))
  PROVE  transactionProtocolUnpackAttributeAddress(r) = Valid(At(r, r.offset + 8, a))
  <1>1. AddressBytes(r.little, a) \in Seq(Byte) /\ 2 \in Byte /\ 8 \in Byte
    BY StreamFields, AddressType, SomeBytes
  <1>2. PICK p, q : p = At(r, r.offset + 1, 2) /\ q = At(r, r.offset + 2, 8)
    OBVIOUS
  <1>3. /\ bitstream_read_uint8(r) = p /\ bitstream_read_uint8(p) = q /\ IsStream(q)
        /\ Located(r.data, r.offset + 2, AddressBytes(r.little, a))
    BY <1>1, <1>2, ReadTypeLength
  <1>4. p.val = 2 /\ q.val = 8 /\ q.offset = r.offset + 2 /\ q.data = r.data
        /\ q.little = r.little
    BY <1>2, AtFields
  <1>5. ReadAddress(q) = At(q, q.offset + 6, a)
    BY <1>3, <1>4, ReadsAddress
  <1>6. transactionProtocolUnpackAttributeAddress(r) = Valid(ReadAddress(q))
    BY <1>3, <1>4 DEF transactionProtocolUnpackAttributeAddress, UnpackFixed,
                      TransactionAttributeTypeAddress, kTransactionAttributeLengthAddress
  <1>7. (r.offset + 2) + 6 = r.offset + 8
    BY StreamFields
  <1>8. At(q, q.offset + 6, a) = At(r, r.offset + 8, a)
    BY <1>2, <1>4, <1>7 DEF At
  <1>9. QED
    BY <1>5, <1>6, <1>8

LEMMA SecondsRead ==
  ASSUME NEW r, IsStream(r), NEW v \in Word(4),
         Located(r.data, r.offset, FixedBytes(3, 4, WO(r.little, v)))
  PROVE  transactionProtocolUnpackAttributeSeconds(r) = Valid(At(r, r.offset + 6, v))
  <1>1. v \in Seq(Byte) /\ 4 = Len(v) /\ WO(r.little, v) \in Seq(Byte) /\ 3 \in Byte /\ 4 \in Byte
    BY ByteSeqs, StreamFields, OrderFacts, SomeBytes
  <1>2. PICK p, q : p = At(r, r.offset + 1, 3) /\ q = At(r, r.offset + 2, 4)
    OBVIOUS
  <1>3. /\ bitstream_read_uint8(r) = p /\ bitstream_read_uint8(p) = q /\ IsStream(q)
        /\ Located(r.data, r.offset + 2, WO(r.little, v))
    BY <1>1, <1>2, ReadTypeLength
  <1>4. p.val = 3 /\ q.val = 4 /\ q.offset = r.offset + 2 /\ q.data = r.data
        /\ q.little = r.little
    BY <1>2, AtFields
  <1>5. ReadWord(q, 4) = At(q, q.offset + 4, v)
    BY <1>1, <1>3, <1>4, ReadsWord
  <1>6. transactionProtocolUnpackAttributeSeconds(r) = Valid(ReadWord(q, 4))
    BY <1>3, <1>4 DEF transactionProtocolUnpackAttributeSeconds, UnpackFixed,
                      bitstream_read_uint32,
                      TransactionAttributeTypeSeconds, kTransactionAttributeLengthSeconds
  <1>7. (r.offset + 2) + 4 = r.offset + 6
    BY StreamFields
  <1>8. At(q, q.offset + 4, v) = At(r, r.offset + 6, v)
    BY <1>2, <1>4, <1>7 DEF At
  <1>9. QED
    BY <1>5, <1>6, <1>8

LEMMA CountRead ==
  ASSUME NEW r, IsStream(r), NEW n \in Uint16,
         Located(r.data, r.offset, FixedBytes(4, 2, WO(r.little, Bytes16(n))))
  PROVE  transactionProtocolUnpackAttributeCount(r) = Valid(At(r, r.offset + 4, n))
  <1>0. PICK b : b = Bytes16(n) /\ b \in Seq(Byte)
    BY Pair16
  <1>1. WO(r.little, b) \in Seq(Byte) /\ 4 \in Byte /\ 2 \in Byte
    BY <1>0, StreamFields, OrderFacts, SomeBytes
  <1>2. PICK p, q : p = At(r, r.offset + 1, 4) /\ q = At(r, r.offset + 2, 2)
    OBVIOUS
  <1>3. /\ bitstream_read_uint8(r) = p /\ bitstream_read_uint8(p) = q /\ IsStream(q)
        /\ Located(r.data, r.offset + 2, WO(r.little, b))
    BY <1>0, <1>1, <1>2, ReadTypeLength
  <1>4. p.val = 4 /\ q.val = 2 /\ q.offset = r.offset + 2 /\ q.data = r.data
        /\ q.little = r.little
    BY <1>2, AtFields
  <1>5. bitstream_read_uint16(q) = At(q, q.offset + 2, n)
    BY <1>0, <1>3, <1>4, Read16
  <1>6. transactionProtocolUnpackAttributeCount(r) = Valid(bitstream_read_uint16(q))
    BY <1>3, <1>4 DEF transactionProtocolUnpackAttributeCount, UnpackFixed,
                      TransactionAttributeTypeCount, kTransactionAttributeLengthCount
  <1>7. (r.offset + 2) + 2 = r.offset + 4
    BY StreamFields
  <1>8. At(q, q.offset + 2, n) = At(r, r.offset + 4, n)
    BY <1>2, <1>4, <1>7 DEF At
  <1>9. QED
    BY <1>5, <1>6, <1>8

-----------------------------------------------------------------------------
(* Any field *)

\* The kinds of fields as they are unpacked, and whether a field is packed as
\* the kind it is unpacked as
FieldKind == {"uint64", "data", "name", "email", "peerId", "address", "seconds", "count"}
Match(pack, kind) ==
  /\ kind \in FieldKind
  /\ pack = IF kind \in {"name", "email", "peerId"} THEN "string" ELSE kind

\* The most bytes a field takes
FieldMax(kind) ==
  CASE kind = "uint64" -> 8
    [] kind = "data" -> 129
    [] kind = "name" -> 42
    [] kind = "email" -> 42
    [] kind = "peerId" -> 34
    [] kind = "address" -> 8
    [] kind = "seconds" -> 6
    [] kind = "count" -> 4

LEMMA TextFacts ==
  ASSUME NEW v, NEW max \in Nat, IsText(v, max), max <= 129
  PROVE  /\ v \in Seq(Byte) /\ Len(v) \in Byte /\ 2 + Len(v) \in Byte
         /\ Len(v) \in Nat /\ Len(v) < max
  <1>1. v \in Seq(Byte) /\ Len(v) \in Nat /\ Len(v) < max
    BY LenProperties DEF IsText
  <1>2. Len(v) \in Nat /\ Len(v) <= 128
    BY <1>1
  <1>3. Len(v) \in Byte /\ 2 + Len(v) \in Byte
    BY <1>2, SomeBytes
  <1>4. QED
    BY <1>1, <1>3

LEMMA Words ==
  /\ \A b \in Word(4) : b \in Seq(Byte) /\ Len(b) = 4
  /\ \A b \in Word(8) : b \in Seq(Byte) /\ Len(b) = 8
  /\ \A b \in Word(12) : b \in Seq(Byte) /\ Len(b) = 12
  BY ByteSeqs

LEMMA FieldType ==
  ASSUME NEW l \in BOOLEAN, NEW kind \in FieldKind, NEW v, IsField(kind, v)
  PROVE  /\ FieldBytes(l, kind, v) \in Seq(Byte) /\ Len(FieldBytes(l, kind, v)) \in Nat
         /\ Len(FieldBytes(l, kind, v)) <= FieldMax(kind)
  <1>0. SUFFICES FieldBytes(l, kind, v) \in Seq(Byte)
                   /\ Len(FieldBytes(l, kind, v)) <= FieldMax(kind)
    BY LenProperties
  <1>1. CASE kind = "uint64"
    <2>1. v \in Word(8)
      BY <1>1 DEF IsField
    <2>2. WO(l, v) \in Seq(Byte) /\ Len(WO(l, v)) = 8
      <3>1. v \in Seq(Byte) /\ Len(v) = 8
        BY <2>1, Words
      <3>2. QED
        BY <3>1, OrderFacts
    <2>3. Len(WO(l, v)) <= 8
      BY <2>2
    <2>4. QED
      BY <1>1, <2>2, <2>3 DEF FieldBytes, FieldMax
  <1>2. CASE kind = "data"
    <2>1. IsText(v, 129)
      BY <1>2 DEF IsField, kUniversalResourceDataMaxLength
    <2>2. v \in Seq(Byte) /\ Len(v) \in Byte /\ Len(v) \in Nat /\ Len(v) < 129
      BY <2>1, TextFacts
    <2>3. DataBytes(l, v) \in Seq(Byte) /\ Len(DataBytes(l, v)) = 1 + Len(v)
      BY <2>2, DataType
    <2>4. Len(DataBytes(l, v)) <= 129
      BY <2>2, <2>3
    <2>5. QED
      BY <1>2, <2>3, <2>4 DEF FieldBytes, FieldMax
  <1>3. CASE kind \in {"name", "email"}
    <2>1. IsText(v, 40)
      BY <1>3 DEF IsField, kUniversalUserNameMaxLength, kUniversalUserEmailMaxLength
    <2>2. v \in Seq(Byte) /\ Len(v) \in Byte /\ 2 + Len(v) \in Byte /\ Len(v) \in Nat
          /\ Len(v) < 40
      BY <2>1, TextFacts
    <2>3. StringBytes(l, v) \in Seq(Byte) /\ Len(StringBytes(l, v)) = 3 + Len(v)
      BY <2>2, StringType
    <2>4. Len(StringBytes(l, v)) <= 42
      BY <2>2, <2>3
    <2>5. QED
      BY <1>3, <2>3, <2>4 DEF FieldBytes, FieldMax
  <1>4. CASE kind = "peerId"
    <2>1. IsText(v, 32)
      BY <1>4 DEF IsField, kUniversalPeerIdMaxLength
    <2>2. v \in Seq(Byte) /\ Len(v) \in Byte /\ 2 + Len(v) \in Byte /\ Len(v) \in Nat
          /\ Len(v) < 32
      BY <2>1, TextFacts
    <2>3. StringBytes(l, v) \in Seq(Byte) /\ Len(StringBytes(l, v)) = 3 + Len(v)
      BY <2>2, StringType
    <2>4. Len(StringBytes(l, v)) <= 34
      BY <2>2, <2>3
    <2>5. QED
      BY <1>4, <2>3, <2>4 DEF FieldBytes, FieldMax
  <1>5. CASE kind = "address"
    <2>1. v \in Address
      BY <1>5 DEF IsField
    <2>2. PICK b : b = AddressBytes(l, v) /\ b \in Seq(Byte) /\ Len(b) = 6
      BY <2>1, AddressType
    <2>3. 2 \in Byte /\ 8 \in Byte
      BY SomeBytes
    <2>4. FixedBytes(2, 8, b) \in Seq(Byte) /\ Len(FixedBytes(2, 8, b)) = 2 + Len(b)
      BY <2>2, <2>3, FixedType
    <2>5. FieldBytes(l, kind, v) = FixedBytes(2, 8, b)
      BY <1>5, <2>2 DEF FieldBytes
    <2>6. Len(b) = 6
      BY <2>2
    <2>7. Len(FieldBytes(l, kind, v)) <= 8
      <3>1. Len(FieldBytes(l, kind, v)) = 8
        BY <2>4, <2>5, <2>6
      <3>2. QED
        BY <3>1
    <2>8. QED
      BY <1>5, <2>4, <2>5, <2>7 DEF FieldMax
  <1>6. CASE kind = "seconds"
    <2>1. v \in Word(4)
      BY <1>6 DEF IsField
    <2>2. PICK b : b = WO(l, v) /\ b \in Seq(Byte) /\ Len(b) = 4
      <3>1. v \in Seq(Byte) /\ Len(v) = 4
        BY <2>1, Words
      <3>2. QED
        BY <3>1, OrderFacts
    <2>3. 3 \in Byte /\ 4 \in Byte
      BY SomeBytes
    <2>4. FixedBytes(3, 4, b) \in Seq(Byte) /\ Len(FixedBytes(3, 4, b)) = 2 + Len(b)
      BY <2>2, <2>3, FixedType
    <2>5. FieldBytes(l, kind, v) = FixedBytes(3, 4, b)
      BY <1>6, <2>2 DEF FieldBytes
    <2>6. Len(b) = 4
      BY <2>2
    <2>7. Len(FieldBytes(l, kind, v)) <= 6
      <3>1. Len(FieldBytes(l, kind, v)) = 6
        BY <2>4, <2>5, <2>6
      <3>2. QED
        BY <3>1
    <2>8. QED
      BY <1>6, <2>4, <2>5, <2>7 DEF FieldMax
  <1>7. CASE kind = "count"
    <2>1. v \in Uint16
      BY <1>7 DEF IsField
    <2>2. PICK b : b = WO(l, Bytes16(v)) /\ b \in Seq(Byte) /\ Len(b) = 2
      BY <2>1, Pair16, OrderFacts
    <2>3. 4 \in Byte /\ 2 \in Byte
      BY SomeBytes
    <2>4. FixedBytes(4, 2, b) \in Seq(Byte) /\ Len(FixedBytes(4, 2, b)) = 2 + Len(b)
      BY <2>2, <2>3, FixedType
    <2>5. FieldBytes(l, kind, v) = FixedBytes(4, 2, b)
      BY <1>7, <2>2 DEF FieldBytes
    <2>6. Len(b) = 2
      BY <2>2
    <2>7. Len(FieldBytes(l, kind, v)) <= 4
      <3>1. Len(FieldBytes(l, kind, v)) = 4
        BY <2>4, <2>5, <2>6
      <3>2. QED
        BY <3>1
    <2>8. QED
      BY <1>7, <2>4, <2>5, <2>7 DEF FieldMax
  <1>8. QED
    BY <1>1, <1>2, <1>3, <1>4, <1>5, <1>6, <1>7 DEF FieldKind

LEMMA FieldPuts ==
  ASSUME NEW s, IsStream(s), NEW pack, NEW kind, Match(pack, kind), NEW v, IsField(kind, v)
  PROVE  Puts(s, PackField(s, pack, v), FieldBytes(s.little, kind, v))
  <1>1. CASE kind = "uint64"
    <2>1. v \in Word(8)
      BY <1>1 DEF IsField
    <2>2. Puts(s, WriteWord(s, v), WO(s.little, v))
      BY <2>1, ByteSeqs, WritesWord
    <2>3. PackField(s, pack, v) = WriteWord(s, v)
      BY <1>1 DEF Match, PackField, bitstream_write_uint64
    <2>4. QED
      BY <1>1, <2>2, <2>3 DEF FieldBytes
  <1>2. CASE kind = "data"
    <2>1. IsText(v, 129)
      BY <1>2 DEF IsField, kUniversalResourceDataMaxLength
    <2>2. Puts(s, PackData(s, v), DataBytes(s.little, v))
      BY <2>1, TextFacts, DataPuts
    <2>3. PackField(s, pack, v) = PackData(s, v)
      BY <1>2 DEF Match, PackField
    <2>4. QED
      BY <1>2, <2>2, <2>3 DEF FieldBytes
  <1>3. CASE kind \in {"name", "email", "peerId"}
    <2>1. IsText(v, 40) \/ IsText(v, 32)
      BY <1>3 DEF IsField, kUniversalUserNameMaxLength, kUniversalUserEmailMaxLength,
                  kUniversalPeerIdMaxLength
    <2>2. v \in Seq(Byte) /\ Len(v) \in Byte /\ 2 + Len(v) \in Byte
      BY <2>1, TextFacts
    <2>3. Puts(s, transactionProtocolPackAttributeString(s, v), StringBytes(s.little, v))
      BY <2>2, StringPuts
    <2>4. PackField(s, pack, v) = transactionProtocolPackAttributeString(s, v)
      BY <1>3 DEF Match, PackField
    <2>5. FieldBytes(s.little, kind, v) = StringBytes(s.little, v)
      BY <1>3 DEF FieldBytes
    <2>6. QED
      BY <2>3, <2>4, <2>5
  <1>4. CASE kind = "address"
    <2>1. v \in Address
      BY <1>4 DEF IsField
    <2>2. PackField(s, pack, v) = transactionProtocolPackAttributeAddress(s, v)
      BY <1>4 DEF Match, PackField
    <2>3. FieldBytes(s.little, kind, v) = FixedBytes(2, 8, AddressBytes(s.little, v))
      BY <1>4 DEF FieldBytes
    <2>4. QED
      BY <2>1, <2>2, <2>3, AddressPuts
  <1>5. CASE kind = "seconds"
    <2>1. v \in Word(4)
      BY <1>5 DEF IsField
    <2>2. PackField(s, pack, v) = transactionProtocolPackAttributeSeconds(s, v)
      BY <1>5 DEF Match, PackField
    <2>3. FieldBytes(s.little, kind, v) = FixedBytes(3, 4, WO(s.little, v))
      BY <1>5 DEF FieldBytes
    <2>4. QED
      BY <2>1, <2>2, <2>3, SecondsPuts
  <1>6. CASE kind = "count"
    <2>1. v \in Uint16
      BY <1>6 DEF IsField
    <2>2. PackField(s, pack, v) = transactionProtocolPackAttributeCount(s, v)
      BY <1>6 DEF Match, PackField
    <2>3. FieldBytes(s.little, kind, v) = FixedBytes(4, 2, WO(s.little, Bytes16(v)))
      BY <1>6 DEF FieldBytes
    <2>4. QED
      BY <2>1, <2>2, <2>3, CountPuts
  <1>7. QED
    BY <1>1, <1>2, <1>3, <1>4, <1>5, <1>6 DEF Match, FieldKind

\* What a field was packed from is what it is unpacked to.
LEMMA FieldRead ==
  ASSUME NEW r, IsStream(r), NEW kind \in FieldKind, NEW v, IsField(kind, v),
         Located(r.data, r.offset, FieldBytes(r.little, kind, v))
  PROVE  UnpackField(r, kind) = Valid(At(r, r.offset + Len(FieldBytes(r.little, kind, v)), v))
  <1>0. r.little \in BOOLEAN
    BY StreamFields
  <1>1. CASE kind = "uint64"
    <2>1. v \in Word(8)
      BY <1>1 DEF IsField
    <2>2. v \in Seq(Byte) /\ 8 = Len(v) /\ Len(WO(r.little, v)) = 8
      <3>1. v \in Seq(Byte) /\ Len(v) = 8
        BY <2>1, Words
      <3>2. QED
        BY <1>0, <3>1, OrderFacts
    <2>3. FieldBytes(r.little, kind, v) = WO(r.little, v)
      BY <1>1 DEF FieldBytes
    <2>4. ReadWord(r, 8) = At(r, r.offset + 8, v)
      BY <2>2, <2>3, ReadsWord
    <2>5. UnpackField(r, kind) = Valid(ReadWord(r, 8))
      BY <1>1 DEF UnpackField, bitstream_read_uint64
    <2>6. QED
      BY <2>2, <2>3, <2>4, <2>5
  <1>2. CASE kind = "data"
    <2>1. IsText(v, 129)
      BY <1>2 DEF IsField, kUniversalResourceDataMaxLength
    <2>2. v \in Seq(Byte) /\ Len(v) \in Byte
      BY <2>1, TextFacts
    <2>3. FieldBytes(r.little, kind, v) = DataBytes(r.little, v)
          /\ Len(DataBytes(r.little, v)) = 1 + Len(v)
      BY <1>0, <1>2, <2>2, DataType DEF FieldBytes
    <2>4. UnpackData(r) = Valid(At(r, r.offset + (1 + Len(v)), v))
      BY <2>2, <2>3, DataFieldRead
    <2>5. UnpackField(r, kind) = UnpackData(r)
      BY <1>2 DEF UnpackField
    <2>6. QED
      BY <2>3, <2>4, <2>5
  <1>3. CASE kind \in {"name", "email", "peerId"}
    <2>1. PICK max \in Nat :
            /\ IsText(v, max) /\ max <= 129
            /\ UnpackField(r, kind) = transactionProtocolUnpackAttributeString(r, max)
      <3>1. CASE kind = "name"
        <4>1. IsText(v, 40) /\ UnpackField(r, kind) = transactionProtocolUnpackAttributeString(r, 40)
          BY <3>1 DEF IsField, UnpackField, kUniversalUserNameMaxLength
        <4>2. QED
          BY <4>1
      <3>2. CASE kind = "email"
        <4>1. IsText(v, 40) /\ UnpackField(r, kind) = transactionProtocolUnpackAttributeString(r, 40)
          BY <3>2 DEF IsField, UnpackField, kUniversalUserEmailMaxLength
        <4>2. QED
          BY <4>1
      <3>3. CASE kind = "peerId"
        <4>1. IsText(v, 32) /\ UnpackField(r, kind) = transactionProtocolUnpackAttributeString(r, 32)
          BY <3>3 DEF IsField, UnpackField, kUniversalPeerIdMaxLength
        <4>2. QED
          BY <4>1
      <3>4. QED
        BY <1>3, <3>1, <3>2, <3>3
    <2>2. v \in Seq(Byte) /\ Len(v) \in Byte /\ 2 + Len(v) \in Byte /\ Len(v) < max
      BY <2>1, TextFacts
    <2>3. FieldBytes(r.little, kind, v) = StringBytes(r.little, v)
      BY <1>3 DEF FieldBytes
    <2>4. Len(StringBytes(r.little, v)) = 3 + Len(v)
      BY <1>0, <2>2, StringType
    <2>5. transactionProtocolUnpackAttributeString(r, max)
            = Valid(At(r, r.offset + (3 + Len(v)), v))
      BY <2>1, <2>2, <2>3, StringRead
    <2>6. QED
      BY <2>1, <2>3, <2>4, <2>5
  <1>4. CASE kind = "address"
    <2>1. v \in Address
      BY <1>4 DEF IsField
    <2>2. PICK b : b = AddressBytes(r.little, v) /\ b \in Seq(Byte) /\ Len(b) = 6
      BY <1>0, <2>1, AddressType
    <2>3. 2 \in Byte /\ 8 \in Byte
      BY SomeBytes
    <2>4. FieldBytes(r.little, kind, v) = FixedBytes(2, 8, b) /\ Len(FixedBytes(2, 8, b)) = 8
      <3>1. FieldBytes(r.little, kind, v) = FixedBytes(2, 8, b)
        BY <1>4, <2>2 DEF FieldBytes
      <3>2. b \in Seq(Byte) /\ Len(b) = 6
        BY <2>2
      <3>3. Len(FixedBytes(2, 8, b)) = 2 + Len(b)
        BY <2>3, <3>2, FixedType
      <3>4. QED
        BY <3>1, <3>2, <3>3
    <2>5. transactionProtocolUnpackAttributeAddress(r) = Valid(At(r, r.offset + 8, v))
      BY <2>1, <2>2, <2>4, AddressRead
    <2>6. UnpackField(r, kind) = transactionProtocolUnpackAttributeAddress(r)
      BY <1>4 DEF UnpackField
    <2>7. QED
      BY <2>4, <2>5, <2>6
  <1>5. CASE kind = "seconds"
    <2>1. v \in Word(4)
      BY <1>5 DEF IsField
    <2>2. PICK b : b = WO(r.little, v) /\ b \in Seq(Byte) /\ Len(b) = 4
      <3>1. v \in Seq(Byte) /\ Len(v) = 4
        BY <2>1, Words
      <3>2. QED
        BY <1>0, <3>1, OrderFacts
    <2>3. 3 \in Byte /\ 4 \in Byte
      BY SomeBytes
    <2>4. FieldBytes(r.little, kind, v) = FixedBytes(3, 4, b) /\ Len(FixedBytes(3, 4, b)) = 6
      <3>1. FieldBytes(r.little, kind, v) = FixedBytes(3, 4, b)
        BY <1>5, <2>2 DEF FieldBytes
      <3>2. b \in Seq(Byte) /\ Len(b) = 4
        BY <2>2
      <3>3. Len(FixedBytes(3, 4, b)) = 2 + Len(b)
        BY <2>3, <3>2, FixedType
      <3>4. QED
        BY <3>1, <3>2, <3>3
    <2>5. transactionProtocolUnpackAttributeSeconds(r) = Valid(At(r, r.offset + 6, v))
      BY <2>1, <2>2, <2>4, SecondsRead
    <2>6. UnpackField(r, kind) = transactionProtocolUnpackAttributeSeconds(r)
      BY <1>5 DEF UnpackField
    <2>7. QED
      BY <2>4, <2>5, <2>6
  <1>6. CASE kind = "count"
    <2>1. v \in Uint16
      BY <1>6 DEF IsField
    <2>2. PICK b : b = WO(r.little, Bytes16(v)) /\ b \in Seq(Byte) /\ Len(b) = 2
      BY <1>0, <2>1, Pair16, OrderFacts
    <2>3. 4 \in Byte /\ 2 \in Byte
      BY SomeBytes
    <2>4. FieldBytes(r.little, kind, v) = FixedBytes(4, 2, b) /\ Len(FixedBytes(4, 2, b)) = 4
      <3>1. FieldBytes(r.little, kind, v) = FixedBytes(4, 2, b)
        BY <1>6, <2>2 DEF FieldBytes
      <3>2. b \in Seq(Byte) /\ Len(b) = 2
        BY <2>2
      <3>3. Len(FixedBytes(4, 2, b)) = 2 + Len(b)
        BY <2>3, <3>2, FixedType
      <3>4. QED
        BY <3>1, <3>2, <3>3
    <2>5. transactionProtocolUnpackAttributeCount(r) = Valid(At(r, r.offset + 4, v))
      BY <2>1, <2>2, <2>4, CountRead
    <2>6. UnpackField(r, kind) = transactionProtocolUnpackAttributeCount(r)
      BY <1>6 DEF UnpackField
    <2>7. QED
      BY <2>4, <2>5, <2>6
  <1>7. QED
    BY <1>1, <1>2, <1>3, <1>4, <1>5, <1>6 DEF FieldKind

-----------------------------------------------------------------------------
(* Fields one after the other *)

\* Steps from values of S to values of S, and a function that takes them
IsSteps(T, n, S) == T \in [1..n -> [S -> S]]
Takes(f, T, n, S, a) ==
  f \in [0..n -> S] /\ f[0] = a /\ \A k \in 1..n : f[k] = T[k][f[k - 1]]

LEMMA StepsExist ==
  ASSUME NEW S, NEW n, n \in Nat, NEW a \in S, NEW T, IsSteps(T, n, S)
  PROVE  \E f : Takes(f, T, n, S, a)
  <1> USE DEF IsSteps
  <1> DEFINE P(f, m) == f[0] = a /\ \A k \in 1..m : f[k] = T[k][f[k - 1]]
             G == {m \in 0..n : \E f \in [0..m -> S] : P(f, m)}
  <1>1. 0 \in G
    <2>1. PICK f : f = [k \in 0..0 |-> a]
      OBVIOUS
    <2>2. f \in [0..0 -> S] /\ P(f, 0)
      BY <2>1
    <2> HIDE DEF P
    <2>3. QED
      BY <2>2
  <1>2. ASSUME NEW m \in 1..n, m - 1 \in G PROVE m \in G
    <2>1. PICK f \in [0..(m - 1) -> S] : P(f, m - 1)
      BY <1>2
    <2>2. m - 1 \in 0..(m - 1) /\ f[m - 1] \in S
      OBVIOUS
    <2>3. T[m][f[m - 1]] \in S
      BY <2>2
    <2>4. PICK x \in S : x = T[m][f[m - 1]]
      BY <2>3
    <2> DEFINE g == [k \in 0..m |-> IF k = m THEN x ELSE f[k]]
    <2>5. \A k \in 0..m : k = m \/ k \in 0..(m - 1)
      OBVIOUS
    <2>6. g \in [0..m -> S]
      BY <2>5
    <2>7. g[m] = x /\ \A k \in 0..(m - 1) : g[k] = f[k]
      OBVIOUS
    <2> HIDE DEF g
    <2>8. g[0] = a
      BY <2>1, <2>7
    <2>9. ASSUME NEW k \in 1..m PROVE g[k] = T[k][g[k - 1]]
      <3>1. CASE k = m
        BY <2>2, <2>4, <2>7, <3>1
      <3>2. CASE k # m
        <4>1. k \in 1..(m - 1) /\ k \in 0..(m - 1) /\ k - 1 \in 0..(m - 1)
          BY <3>2
        <4>2. f[k] = T[k][f[k - 1]]
          BY <2>1, <4>1
        <4>3. QED
          BY <2>7, <4>1, <4>2
      <3>3. QED
        BY <3>1, <3>2
    <2>10. P(g, m)
      BY <2>8, <2>9
    <2> HIDE DEF P
    <2>11. \E h \in [0..m -> S] : P(h, m)
      BY <2>6, <2>10
    <2>12. QED
      BY <2>11
  <1> HIDE DEF G
  <1>3. \A m \in 1..n : m - 1 \in G => m \in G
    BY <1>2
  <1>4. \A k \in 0..n : k \in G
    BY <1>1, <1>3, UpTo
  <1>5. n \in G
    BY <1>4
  <1>6. QED
    BY <1>5 DEF G, Takes

\* The streams f[0], ..., f[n] of a host that packs the values one by one
IsRun(f, n, l, kinds, values) ==
  /\ \A k \in 0..n : IsStream(f[k]) /\ f[k].little = l /\ f[k].bound = f[0].bound
  /\ \A k \in 1..n : Puts(f[k - 1], f[k], FieldBytes(l, kinds[k], values[k]))

LEMMA PackFieldsRun ==
  ASSUME NEW s, IsStream(s), NEW packs, NEW kinds, NEW values, NEW n \in Nat,
         Len(packs) = n,
         \A k \in 1..n : Match(packs[k], kinds[k]) /\ IsField(kinds[k], values[k])
  PROVE  \E f : f[0] = s /\ f[n] = PackFields(s, packs, values)
                  /\ IsRun(f, n, s.little, kinds, values)
  <1> DEFINE S == {t \in [data : Seq(Byte), offset : Nat, bound : {s.bound},
                          little : {s.little}, past : {s.past}, val : {s.val}] : Kept(s, t)}
             T == [k \in 1..n |-> [t \in S |-> PackField(t, packs[k], values[k])]]
             Steps(g) == [k \in 0..n |->
                            IF k = 0 THEN s ELSE PackField(g[k - 1], packs[k], values[k])]
  <1>1. \A t : Kept(s, t) => t \in S
    <2>1. SUFFICES ASSUME NEW t, Kept(s, t) PROVE t \in S
      OBVIOUS
    <2>2. t = After(s, t.data, t.offset) /\ t.data \in Seq(Byte) /\ t.offset \in Nat
      BY <2>1, StreamFields DEF Kept
    <2>3. t \in [data : Seq(Byte), offset : Nat, bound : {s.bound},
                 little : {s.little}, past : {s.past}, val : {s.val}]
      BY <2>2 DEF After
    <2>4. QED
      BY <2>1, <2>3
  <1>2. \A t \in S : Kept(s, t) /\ IsStream(t) /\ t.little = s.little /\ t.bound = s.bound
    BY KeptFields DEF Kept
  <1> HIDE DEF S
  <1>3. ASSUME NEW t \in S, NEW k \in 1..n
        PROVE  /\ PackField(t, packs[k], values[k]) \in S
               /\ Puts(t, PackField(t, packs[k], values[k]),
                       FieldBytes(s.little, kinds[k], values[k]))
    <2>1. PICK u : u = PackField(t, packs[k], values[k])
      OBVIOUS
    <2>2. Puts(t, u, FieldBytes(s.little, kinds[k], values[k]))
      BY <1>2, <2>1, FieldPuts
    <2>3. Kept(s, u)
      BY <1>2, <2>2, KeptTwice DEF Puts
    <2>4. QED
      BY <1>1, <2>1, <2>2, <2>3
  <1>4. /\ T \in [1..n -> [S -> S]]
        /\ \A k \in 1..n : \A t \in S : T[k][t] = PackField(t, packs[k], values[k])
    BY <1>3
  <1> HIDE DEF T
  <1>5. s \in S
    BY <1>1, KeptSelf
  <1>6. PICK f : Takes(f, T, n, S, s)
    <2>1. IsSteps(T, n, S)
      BY <1>4 DEF IsSteps
    <2>2. QED
      BY <1>5, <2>1, StepsExist, Zenon
  <1>7. \A k \in 1..n : k - 1 \in 0..n /\ f[k - 1] \in S
                         /\ f[k] = PackField(f[k - 1], packs[k], values[k])
    <2>1. \A k \in 1..n : k - 1 \in 0..n /\ f[k - 1] \in S
      BY <1>6 DEF Takes
    <2>2. QED
      BY <1>4, <1>6, <2>1 DEF Takes
  <1>8. f = Steps(f)
    <2>1. \A k \in 0..n : f[k] = IF k = 0 THEN s ELSE PackField(f[k - 1], packs[k], values[k])
      BY <1>6, <1>7 DEF Takes
    <2>2. f = [k \in 0..n |-> f[k]]
      BY <1>6 DEF Takes
    <2>3. QED
      BY <2>1, <2>2
  <1>9. PICK g : g = (CHOOSE h : h = Steps(h))
    OBVIOUS
  <1>10. g = Steps(g)
    <2> HIDE DEF Steps
    <2>1. QED
      BY <1>8, <1>9
  <1>11. PackFields(s, packs, values) = g[n]
    BY <1>9 DEF PackFields
  <1>12. g[0] = s /\ \A k \in 1..n : g[k] = PackField(g[k - 1], packs[k], values[k])
    BY <1>10
  <1>13. \A k \in 0..n : k \in {j \in 0..n : g[j] \in S}
    <2>1. \A k \in 1..n : k - 1 \in {j \in 0..n : g[j] \in S} => k \in {j \in 0..n : g[j] \in S}
      BY <1>3, <1>12
    <2>2. 0 \in {j \in 0..n : g[j] \in S}
      BY <1>5, <1>12
    <2>3. QED
      BY <2>1, <2>2, UpTo
  <1>14. \A k \in 0..n : g[k] \in S
    BY <1>13
  <1>15. \A k \in 0..n : IsStream(g[k]) /\ g[k].little = s.little /\ g[k].bound = g[0].bound
    BY <1>2, <1>12, <1>14
  <1>16. \A k \in 1..n : Puts(g[k - 1], g[k], FieldBytes(s.little, kinds[k], values[k]))
    BY <1>3, <1>12, <1>14
  <1>17. IsRun(g, n, s.little, kinds, values)
    BY <1>15, <1>16 DEF IsRun
  <1>18. QED
    BY <1>11, <1>12, <1>17

LEMMA RunKept ==
  ASSUME NEW f, NEW n \in Nat, NEW l, NEW kinds, NEW values, IsRun(f, n, l, kinds, values)
  PROVE  /\ \A k \in 0..n : Kept(f[0], f[k])
         /\ \A k \in 0..n : Kept(f[k], f[n])
  <1>1. \A k \in 1..n : Kept(f[k - 1], f[k])
    BY DEF IsRun, Puts
  <1>2. \A k \in 0..n : IsStream(f[k])
    BY DEF IsRun
  <1> DEFINE G == {k \in 0..n : Kept(f[0], f[k])}
             H == {k \in 0..n : Kept(f[n - k], f[n])}
  <1>3. 0 \in G /\ \A k \in 1..n : k - 1 \in G => k \in G
    <2>1. 0 \in G
      BY <1>2, KeptSelf
    <2>2. ASSUME NEW k \in 1..n, k - 1 \in G PROVE k \in G
      <3>1. Kept(f[0], f[k - 1]) /\ Kept(f[k - 1], f[k]) /\ IsStream(f[0])
        BY <1>1, <1>2, <2>2
      <3>2. Kept(f[0], f[k])
        BY <3>1, KeptTwice
      <3>3. QED
        BY <3>2
    <2>3. QED
      BY <2>1, <2>2
  <1>4. 0 \in H /\ \A k \in 1..n : k - 1 \in H => k \in H
    <2>1. 0 \in H
      <3>1. IsStream(f[n]) /\ n - 0 = n
        BY <1>2
      <3>2. QED
        BY <3>1, KeptSelf
    <2>2. ASSUME NEW k \in 1..n, k - 1 \in H PROVE k \in H
      <3>1. PICK j \in 1..n : j = n - (k - 1)
        OBVIOUS
      <3>2. j - 1 = n - k /\ n - k \in 0..n
        BY <3>1
      <3>3. Kept(f[j], f[n]) /\ Kept(f[j - 1], f[j]) /\ IsStream(f[j - 1])
        BY <1>1, <1>2, <2>2, <3>1, <3>2
      <3>4. Kept(f[n - k], f[n])
        BY <3>2, <3>3, KeptTwice
      <3>5. QED
        BY <3>4
    <2>3. QED
      BY <2>1, <2>2
  <1> HIDE DEF G, H
  <1>5. \A k \in 0..n : k \in G /\ k \in H
    BY <1>3, <1>4, UpTo
  <1>6. ASSUME NEW k \in 0..n PROVE Kept(f[k], f[n])
    <2>1. n - k \in 0..n /\ n - (n - k) = k
      OBVIOUS
    <2>2. QED
      BY <1>5, <2>1 DEF H
  <1>7. QED
    BY <1>5, <1>6 DEF G

\* Two hosts that have packed the same bytes
Twin(s, u) ==
  /\ s.offset = u.offset /\ s.little = u.little
  /\ \A i \in 1..s.offset : s.data[i] = u.data[i]

LEMMA WroteTwin ==
  ASSUME NEW s, NEW t, NEW u, NEW v, NEW E \in Seq(Byte), IsStream(s), IsStream(u),
         Twin(s, u), Wrote(s, t, E), Wrote(u, v, E)
  PROVE  Twin(t, v)
  <1>1. PICK o, n : o = s.offset /\ n = Len(E) /\ o \in Nat /\ n \in Nat
    BY StreamFields, LenProperties
  <1>2. u.offset = o /\ t.offset = o + n /\ v.offset = o + n
    BY <1>1 DEF Wrote, Twin
  <1>3. t.little = v.little
    BY KeptFields DEF Wrote, Twin
  <1>4. /\ \A i \in 1..o : t.data[i] = s.data[i] /\ v.data[i] = u.data[i] /\ s.data[i] = u.data[i]
        /\ \A i \in 1..n : t.data[o + i] = E[i] /\ v.data[o + i] = E[i]
    BY <1>1, <1>2 DEF Wrote, Twin, Kept, Located
  <1>5. ASSUME NEW i \in 1..(o + n) PROVE t.data[i] = v.data[i]
    <2>1. CASE i \in 1..o
      BY <1>4, <2>1
    <2>2. CASE i \notin 1..o
      <3>1. PICK j \in 1..n : i = o + j
        <4>1. i - o \in 1..n /\ i = o + (i - o)
          BY <1>1, <2>2
        <4>2. QED
          BY <4>1
      <3>2. QED
        BY <1>4, <3>1
    <2>3. QED
      BY <2>1, <2>2
  <1>6. QED
    BY <1>2, <1>3, <1>5 DEF Twin

LEMMA PackedFacts ==
  ASSUME NEW s, IsStream(s)
  PROVE  /\ Packed(s) \in Seq(Byte) /\ Len(Packed(s)) = s.offset
         /\ \A i \in 1..s.offset : Packed(s)[i] = s.data[i]
  <1>1. s.data \in Seq(Byte) /\ s.offset \in Nat /\ s.offset <= Len(s.data)
        /\ Len(s.data) \in Nat
    BY StreamFields
  <1> HIDE DEF Byte
  <1>2. QED
    BY <1>1, SubSeqProperties DEF Packed

LEMMA TwinPacked ==
  ASSUME NEW s, NEW u, IsStream(s), IsStream(u), Twin(s, u)
  PROVE  Packed(s) = Packed(u)
  <1>1. PICK p, q : p = Packed(s) /\ q = Packed(u)
    OBVIOUS
  <1>2. /\ p \in Seq(Byte) /\ q \in Seq(Byte) /\ Len(p) = s.offset /\ Len(q) = s.offset
        /\ \A i \in 1..s.offset : p[i] = q[i]
    BY <1>1, PackedFacts DEF Twin
  <1> HIDE DEF Byte
  <1>3. p = q
    BY <1>2, SeqEqual
  <1>4. QED
    BY <1>1, <1>3

LEMMA FieldMaxBound ==
  ASSUME NEW kind \in FieldKind
  PROVE  FieldMax(kind) \in Nat /\ FieldMax(kind) <= 129
  BY DEF FieldKind, FieldMax

\* A host with more room packs what another does that has room for all of it.
LEMMA FieldsTwin ==
  ASSUME NEW f, NEW g, NEW n \in Nat, NEW l \in BOOLEAN, NEW kinds, NEW values,
         IsRun(f, n, l, kinds, values), IsRun(g, n, l, kinds, values),
         \A k \in 1..n : kinds[k] \in FieldKind /\ IsField(kinds[k], values[k]),
         Twin(f[0], g[0]), g[n].offset <= f[0].bound, f[0].bound + 129 <= g[0].bound
  PROVE  /\ Twin(f[n], g[n])
         /\ \A k \in 1..n : Wrote(f[k - 1], f[k], FieldBytes(l, kinds[k], values[k]))
  <1> DEFINE E(k) == FieldBytes(l, kinds[k], values[k])
             G == {k \in 0..n : /\ Twin(f[k], g[k])
                                /\ k # 0 => Wrote(f[k - 1], f[k], E(k))}
  <1>1. ASSUME NEW k \in 1..n, Twin(f[k - 1], g[k - 1])
        PROVE  Twin(f[k], g[k]) /\ Wrote(f[k - 1], f[k], E(k))
    <2>1. k - 1 \in 0..n /\ k \in 0..n
      OBVIOUS
    <2>2. PICK s, t, u, v, e : s = f[k - 1] /\ t = f[k] /\ u = g[k - 1] /\ v = g[k] /\ e = E(k)
      OBVIOUS
    <2>3. /\ IsStream(s) /\ IsStream(u) /\ IsStream(v) /\ s.bound = f[0].bound
          /\ u.bound = g[0].bound /\ Puts(s, t, e) /\ Puts(u, v, e)
      BY <2>1, <2>2 DEF IsRun
    <2>4. e \in Seq(Byte) /\ Len(e) \in Nat /\ Len(e) <= 129
      <3>1. kinds[k] \in FieldKind /\ IsField(kinds[k], values[k])
        OBVIOUS
      <3>2. e \in Seq(Byte) /\ Len(e) \in Nat /\ Len(e) <= FieldMax(kinds[k])
        BY <2>2, <3>1, FieldType
      <3>3. QED
        BY <3>1, <3>2, FieldMaxBound
    <2>5. Kept(v, g[n]) /\ IsStream(g[n])
      <3>1. Kept(g[k], g[n])
        BY <2>1, RunKept
      <3>2. IsStream(g[n])
        BY DEF IsRun
      <3>3. QED
        BY <2>2, <3>1, <3>2
    <2>6. /\ s.offset \in Nat /\ u.offset \in Nat /\ v.offset \in Nat /\ g[n].offset \in Nat
          /\ s.bound \in Nat /\ u.bound \in Nat
      BY <2>3, <2>5, StreamFields
    <2>7. u.offset <= v.offset /\ v.offset <= g[n].offset /\ s.offset = u.offset
      BY <1>1, <2>2, <2>3, <2>5 DEF Kept, Puts, Twin
    <2>8. u.offset + Len(e) <= u.bound
      BY <2>3, <2>4, <2>6, <2>7
    <2>9. Wrote(u, v, e)
      BY <2>3, <2>8 DEF Puts
    <2>10. v.offset = u.offset + Len(e)
      BY <2>9 DEF Wrote
    <2>11. s.offset + Len(e) <= s.bound
      BY <2>3, <2>4, <2>6, <2>7, <2>10
    <2>12. Wrote(s, t, e)
      BY <2>3, <2>11 DEF Puts
    <2>13. Twin(t, v)
      BY <1>1, <2>2, <2>3, <2>4, <2>9, <2>12, WroteTwin
    <2>14. QED
      BY <2>2, <2>12, <2>13
  <1> HIDE DEF E
  <1>2. 0 \in G
    OBVIOUS
  <1>3. \A k \in 1..n : k - 1 \in G => k \in G
    BY <1>1
  <1> HIDE DEF G
  <1>4. \A k \in 0..n : k \in G
    BY <1>2, <1>3, UpTo
  <1>5. n \in 0..n /\ \A k \in 1..n : k \in 0..n /\ k # 0
    OBVIOUS
  <1>6. QED
    BY <1>4, <1>5 DEF G, E

-----------------------------------------------------------------------------
(* Fields read one after the other *)

LEMMA NextPrefix ==
  ASSUME NEW S, NEW a \in Seq(S), NEW b \in Seq(S), NEW k \in 1..Len(b)
  PROVE  Append(a \o SubSeq(b, 1, k - 1), b[k]) = a \o SubSeq(b, 1, k)
  <1>1. Len(b) \in Nat /\ Len(a) \in Nat /\ b[k] \in S
    BY LenProperties, ElementOfSeq
  <1>2. PICK p, q : p = SubSeq(b, 1, k - 1) /\ q = SubSeq(b, 1, k)
    OBVIOUS
  <1>3. /\ p \in Seq(S) /\ Len(p) = k - 1 /\ \A i \in 1..(k - 1) : p[i] = b[i]
        /\ q \in Seq(S) /\ Len(q) = k /\ \A i \in 1..k : q[i] = b[i]
    BY <1>1, <1>2, SubSeqProperties
  <1>4. q = Append(p, b[k])
    <2>1. /\ Append(p, b[k]) \in Seq(S) /\ Len(Append(p, b[k])) = k
          /\ Append(p, b[k])[k] = b[k]
          /\ \A i \in 1..(k - 1) : Append(p, b[k])[i] = b[i]
      BY <1>1, <1>3, AppendProperties
    <2>2. \A i \in 1..k : i = k \/ i \in 1..(k - 1)
      OBVIOUS
    <2>3. \A i \in 1..k : Append(p, b[k])[i] = q[i]
      BY <1>3, <2>1, <2>2
    <2>4. QED
      BY <1>3, <2>1, <2>3, SeqEqual
  <1>5. Append(a \o p, b[k]) = a \o Append(p, b[k])
    <2>1. PICK c, d : c = a \o p /\ d = Append(p, b[k])
      OBVIOUS
    <2>2. c \in Seq(S) /\ Len(c) = Len(a) + Len(p) /\ d \in Seq(S) /\ Len(d) = k
      <3>1. p \in Seq(S) /\ Len(p) = k - 1
        BY <1>3
      <3>2. a \o p \in Seq(S) /\ Len(a \o p) = Len(a) + Len(p)
        BY <3>1, ConcatProperties
      <3>3. Append(p, b[k]) \in Seq(S) /\ Len(Append(p, b[k])) = Len(p) + 1
        BY <1>1, <3>1, AppendProperties
      <3>4. (k - 1) + 1 = k
        OBVIOUS
      <3>5. QED
        BY <2>1, <3>1, <3>2, <3>3, <3>4
    <2>3. PICK x, y : x = Append(c, b[k]) /\ y = a \o d
      OBVIOUS
    <2>4. x \in Seq(S) /\ y \in Seq(S) /\ Len(x) = Len(a) + k /\ Len(y) = Len(a) + k
      <3>1. c \in Seq(S) /\ d \in Seq(S) /\ Len(c) = Len(a) + (k - 1) /\ Len(d) = k
        BY <1>3, <2>2
      <3>2. a \o d \in Seq(S) /\ Len(a \o d) = Len(a) + Len(d)
        BY <3>1, ConcatProperties
      <3>3. Append(c, b[k]) \in Seq(S) /\ Len(Append(c, b[k])) = Len(c) + 1
        BY <1>1, <3>1, AppendProperties
      <3>4. (Len(a) + (k - 1)) + 1 = Len(a) + k
        BY <1>1
      <3>5. QED
        BY <2>3, <3>1, <3>2, <3>3, <3>4
    <2>5. /\ \A i \in 1..(Len(a) + k) : y[i] = IF i <= Len(a) THEN a[i] ELSE d[i - Len(a)]
          /\ \A i \in 1..(Len(a) + (k - 1)) : c[i] = IF i <= Len(a) THEN a[i] ELSE p[i - Len(a)]
      <3>1. p \in Seq(S) /\ Len(p) = k - 1 /\ d \in Seq(S) /\ Len(d) = k
        BY <1>3, <2>2
      <3>2. \A i \in 1..(Len(a) + Len(d)) :
              (a \o d)[i] = IF i <= Len(a) THEN a[i] ELSE d[i - Len(a)]
        BY ONLY <3>1, a \in Seq(S), ConcatProperties
      <3>3. \A i \in 1..(Len(a) + Len(p)) :
              (a \o p)[i] = IF i <= Len(a) THEN a[i] ELSE p[i - Len(a)]
        BY ONLY <3>1, a \in Seq(S), ConcatProperties
      <3>4. y = a \o d /\ c = a \o p
        BY <2>1, <2>3
      <3>5. QED
        BY <3>1, <3>2, <3>3, <3>4
    <2>6. /\ x[Len(a) + k] = b[k] /\ \A i \in 1..(Len(a) + (k - 1)) : x[i] = c[i]
          /\ d[k] = b[k] /\ \A i \in 1..(k - 1) : d[i] = p[i]
      BY <1>1, <1>3, <2>1, <2>2, <2>3, AppendProperties
    <2>7. ASSUME NEW i \in 1..(Len(a) + k) PROVE x[i] = y[i]
      <3>1. CASE i = Len(a) + k
        <4>1. ~(i <= Len(a)) /\ i - Len(a) = k
          BY <1>1, <3>1
        <4>2. QED
          BY <2>5, <2>6, <3>1, <4>1
      <3>2. CASE i <= Len(a)
        <4>1. i \in 1..(Len(a) + (k - 1))
          BY <1>1, <3>2
        <4>2. QED
          BY <2>5, <2>6, <3>2, <4>1
      <3>3. CASE i # Len(a) + k /\ ~(i <= Len(a))
        <4>1. i \in 1..(Len(a) + (k - 1)) /\ i - Len(a) \in 1..(k - 1)
          BY <1>1, <3>3
        <4>2. QED
          BY <2>5, <2>6, <3>3, <4>1
      <3>4. QED
        BY <3>1, <3>2, <3>3
    <2>8. x = y
      BY <2>4, <2>7, SeqEqual
    <2>9. QED
      BY <2>1, <2>3, <2>8
  <1>6. QED
    BY <1>2, <1>4, <1>5

\* One turn of UnpackFields
FieldStep(r, kind) ==
  LET field == UnpackField(r.stream, kind)
  IN  [stream |-> field.stream, result |-> field.result,
       out |-> Append(r.out, field.stream.val)]

\* The values lie in the data of r, behind the positions o[0], ..., o[n - 1].
Lies(r, o, n, kinds, values) ==
  /\ \A k \in 0..n : o[k] \in Nat
  /\ \A k \in 1..n : /\ kinds[k] \in FieldKind /\ IsField(kinds[k], values[k])
                     /\ Located(r.data, o[k - 1], FieldBytes(r.little, kinds[k], values[k]))
                     /\ o[k] = o[k - 1] + Len(FieldBytes(r.little, kinds[k], values[k]))

Reader(r, result, out) == [stream |-> r, result |-> result, out |-> out]

FieldsEnd(r, result, out, o, n, values) ==
  IF n = 0 THEN Reader(r, result, out)
  ELSE Reader(At(r, o[n], values[n]), "Valid", out \o values)

LEMMA FieldsRead ==
  ASSUME NEW r, IsStream(r), NEW n, n \in Nat, NEW o, NEW kinds, NEW values, Len(kinds) = n,
         Lies(r, o, n, kinds, values), o[0] = r.offset,
         NEW S, values \in Seq(S), Len(values) = n, NEW out \in Seq(S), NEW result
  PROVE  UnpackFields(Reader(r, result, out), kinds) = FieldsEnd(r, result, out, o, n, values)
  <1> DEFINE reader == [stream |-> r, result |-> result, out |-> out]
             R(k) == IF k = 0 THEN reader
                     ELSE [stream |-> At(r, o[k], values[k]), result |-> "Valid",
                           out |-> out \o SubSeq(values, 1, k)]
             Steps(g) == [k \in 0..n |-> IF k = 0 THEN reader
                                         ELSE FieldStep(g[k - 1], kinds[k])]
  <1>1. ASSUME NEW k \in 1..n PROVE R(k) = FieldStep(R(k - 1), kinds[k])
    <2>1. PICK q : q = R(k - 1).stream
      OBVIOUS
    <2>2. /\ q.data = r.data /\ q.offset = o[k - 1] /\ q.little = r.little /\ q.bound = r.bound
          /\ \A x, v : At(q, x, v) = At(r, x, v)
      <3>1. CASE k - 1 = 0
        BY <2>1, <3>1 DEF At
      <3>2. CASE k - 1 # 0
        <4>1. q = At(r, o[k - 1], values[k - 1])
          BY <2>1, <3>2
        <4>2. QED
          BY <4>1, AtFields
      <3>3. QED
        BY <3>1, <3>2
    <2>3. /\ kinds[k] \in FieldKind /\ IsField(kinds[k], values[k])
          /\ Located(r.data, o[k - 1], FieldBytes(r.little, kinds[k], values[k]))
          /\ o[k] = o[k - 1] + Len(FieldBytes(r.little, kinds[k], values[k]))
          /\ o[k - 1] \in Nat
      BY DEF Lies
    <2>4. IsStream(q)
      <3>1. o[k - 1] + Len(FieldBytes(r.little, kinds[k], values[k])) <= r.bound
        BY <2>3, LocatedRoom
      <3>2. Len(FieldBytes(r.little, kinds[k], values[k])) \in Nat /\ r.bound \in Nat
        BY <2>3, FieldType, StreamFields
      <3>3. o[k - 1] \in 0..r.bound
        BY <2>3, <3>1, <3>2
      <3>4. CASE k - 1 = 0
        BY <2>1, <3>4
      <3>5. CASE k - 1 # 0
        <4>1. q = At(r, o[k - 1], values[k - 1])
          BY <2>1, <3>5
        <4>2. QED
          BY <3>3, <4>1, AtStream
      <3>6. QED
        BY <3>4, <3>5
    <2>5. UnpackField(q, kinds[k]) = Valid(At(r, o[k], values[k]))
      BY <2>2, <2>3, <2>4, FieldRead
    <2>6. R(k - 1).out = out \o SubSeq(values, 1, k - 1)
      <3>1. CASE k - 1 = 0
        <4>1. SubSeq(values, 1, 0) = << >> /\ out \o << >> = out
          BY SubSeqEmpty, ConcatEmptySeq
        <4>2. QED
          BY <3>1, <4>1
      <3>2. CASE k - 1 # 0
        BY <3>2
      <3>3. QED
        BY <3>1, <3>2
    <2>7. Append(R(k - 1).out, values[k]) = out \o SubSeq(values, 1, k)
      BY <2>6, NextPrefix
    <2>8. At(r, o[k], values[k]).val = values[k]
      BY AtFields
    <2>9. PICK p : p = R(k - 1) /\ p.stream = q /\ Append(p.out, values[k]) = out \o SubSeq(values, 1, k)
      BY <2>1, <2>7
    <2>10. FieldStep(p, kinds[k]) = [stream |-> At(r, o[k], values[k]), result |-> "Valid",
                                     out |-> Append(p.out, values[k])]
      <3>1. PICK w : w = At(r, o[k], values[k])
        OBVIOUS
      <3>2. PICK c : c = UnpackField(q, kinds[k])
        OBVIOUS
      <3>3. c = [stream |-> w, result |-> "Valid"] /\ w.val = values[k]
        BY <2>5, <2>8, <3>1, <3>2 DEF Valid
      <3>4. c.stream = w /\ c.result = "Valid"
        BY <3>3
      <3>5. QED
        BY <2>9, <3>1, <3>2, <3>3, <3>4 DEF FieldStep
    <2>11. R(k) = [stream |-> At(r, o[k], values[k]), result |-> "Valid",
                   out |-> out \o SubSeq(values, 1, k)]
      OBVIOUS
    <2>12. QED
      BY <2>9, <2>10, <2>11
  <1> HIDE DEF R
  <1>2. R(0) = reader
    BY DEF R
  <1> HIDE DEF reader
  <1> DEFINE h == [k \in 0..n |-> R(k)]
  <1>3. h = Steps(h)
    <2>1. \A k \in 0..n : h[k] = IF k = 0 THEN reader ELSE FieldStep(h[k - 1], kinds[k])
      BY <1>1, <1>2
    <2>2. h = [k \in 0..n |-> h[k]]
      OBVIOUS
    <2> HIDE DEF h
    <2>3. QED
      BY <2>1, <2>2
  <1> HIDE DEF h
  <1>4. PICK g : g = (CHOOSE f : f = Steps(f))
    OBVIOUS
  <1>5. g = Steps(g)
    <2> HIDE DEF Steps
    <2>1. QED
      BY <1>3, <1>4
  <1>6. UnpackFields(reader, kinds) = g[n]
    BY <1>4 DEF UnpackFields, FieldStep
  <1>7. g[0] = reader /\ \A k \in 1..n : g[k] = FieldStep(g[k - 1], kinds[k])
    BY <1>5
  <1> DEFINE G == {k \in 0..n : g[k] = R(k)}
  <1>8. 0 \in G /\ \A k \in 1..n : k - 1 \in G => k \in G
    BY <1>1, <1>2, <1>7
  <1> HIDE DEF G
  <1>9. \A k \in 0..n : k \in G
    BY <1>8, UpTo
  <1>10. g[n] = R(n)
    BY <1>9 DEF G
  <1>11. SubSeq(values, 1, n) = values
    BY SubSeqFull
  <1>12. QED
    BY <1>6, <1>10, <1>11 DEF R, reader, Reader, FieldsEnd

-----------------------------------------------------------------------------
(* Packets *)

LEMMA FreshStream ==
  ASSUME NEW d \in Seq(Byte), NEW l \in BOOLEAN, NEW past, NEW n, n = Len(d)
  PROVE  \E s : /\ s = bitstream_create(d, n, l, past) /\ IsStream(s)
                /\ s.offset = 0 /\ s.bound = n /\ s.little = l /\ s.data = d
  <1>1. PICK s : s = bitstream_create(d, n, l, past)
    OBVIOUS
  <1>2. /\ s.offset = 0 /\ s.bound = n /\ s.little = l /\ s.data = d
        /\ s = At(s, s.offset, s.val)
    BY <1>1 DEF bitstream_create, At
  <1>3. 0 \in 0..n
    BY LenProperties
  <1>4. IsStream(s)
    BY <1>2, <1>3 DEF IsStream
  <1>5. QED
    BY <1>1, <1>2, <1>4

LEMMA ZerosFacts ==
  ASSUME NEW n \in Nat
  PROVE  Zeros(n) \in Seq(Byte) /\ Len(Zeros(n)) = n
  <1>1. Zeros(n) \in [1..n -> Byte]
    BY SomeBytes DEF Zeros
  <1> HIDE DEF Byte
  <1>2. QED
    BY <1>1

\* The streams that a message is packed into, in the packet and in a memory
\* that is large enough
LEMMA FreshPackets ==
  ASSUME NEW l \in BOOLEAN
  PROVE  /\ \E s : /\ s = net_packet_init(Zeros(kNetPacketMaxLen), l, 0) /\ IsStream(s)
                   /\ s.offset = 0 /\ s.bound = kNetPacketMaxLen /\ s.little = l
         /\ \E u : /\ u = bitstream_create(Zeros(4 * kNetPacketMaxLen), 4 * kNetPacketMaxLen, l, 0)
                   /\ IsStream(u) /\ u.offset = 0 /\ u.bound = 4 * kNetPacketMaxLen
                   /\ u.little = l
  <1>1. PICK n, m : n = kNetPacketMaxLen /\ n \in Nat /\ m = 4 * kNetPacketMaxLen /\ m \in Nat
    BY RoomAssumption
  <1>2. Zeros(n) \in Seq(Byte) /\ n = Len(Zeros(n)) /\ Zeros(m) \in Seq(Byte) /\ m = Len(Zeros(m))
    BY <1>1, ZerosFacts
  <1>3. \E s : /\ s = bitstream_create(Zeros(n), n, l, 0) /\ IsStream(s)
               /\ s.offset = 0 /\ s.bound = n /\ s.little = l
    BY <1>2, FreshStream
  <1>4. \E s : /\ s = bitstream_create(Zeros(m), m, l, 0) /\ IsStream(s)
               /\ s.offset = 0 /\ s.bound = m /\ s.little = l
    BY <1>2, FreshStream
  <1>5. QED
    BY <1>1, <1>3, <1>4 DEF net_packet_init

\* A message whose bytes fit is packed whole, in both.
LEMMA PackedWholly ==
  ASSUME NEW s, NEW t, NEW u, NEW v, NEW E \in Seq(Byte), IsStream(s), IsStream(u),
         s.offset = 0, u.offset = 0, s.little = u.little, Len(E) <= s.bound, Len(E) <= u.bound,
         Puts(s, t, E), Puts(u, v, E)
  PROVE  /\ Wrote(s, t, E) /\ IsStream(t) /\ t.offset = Len(E)
         /\ Packed(t) = Packed(v)
  <1>1. Len(E) \in Nat /\ 0 + Len(E) = Len(E)
    BY LenProperties
  <1>2. Wrote(s, t, E) /\ Wrote(u, v, E)
    BY <1>1 DEF Puts
  <1>3. Twin(s, u)
    BY DEF Twin
  <1>4. Twin(t, v)
    BY <1>2, <1>3, WroteTwin
  <1>5. IsStream(t) /\ IsStream(v) /\ t.offset = Len(E)
    BY <1>1, <1>2 DEF Wrote, Kept
  <1>6. QED
    BY <1>2, <1>4, <1>5, TwinPacked

\* What was packed is found in any memory the packet was received in.
LEMMA Arrived ==
  ASSUME NEW t, IsStream(t), NEW M \in Seq(Byte), t.offset <= Len(M),
         \A i \in 1..t.offset : M[i] = t.data[i],
         NEW o \in Nat, NEW E \in Seq(Byte), o + Len(E) <= t.offset, Located(t.data, o, E)
  PROVE  Located(M, o, E)
  <1>1. t.offset \in Nat /\ Len(E) \in Nat /\ Len(M) \in Nat
    BY StreamFields, LenProperties
  <1>2. \A i \in 1..Len(E) : o + i \in 1..t.offset /\ t.data[o + i] = E[i]
    BY <1>1 DEF Located
  <1>3. o + Len(E) <= Len(M)
    BY <1>1
  <1>4. QED
    BY <1>2, <1>3 DEF Located

-----------------------------------------------------------------------------
(* The header of the protocol *)

HeaderBytes(type) == (<<\hA2>> \o <<1>>) \o <<type>>

LEMMA HeaderType ==
  ASSUME NEW x \in Byte
  PROVE  /\ HeaderBytes(x) \in Seq(Byte) /\ Len(HeaderBytes(x)) = 3
         /\ <<\hA2>> \o <<1>> \in Seq(Byte) /\ Len(<<\hA2>> \o <<1>>) = 2
  <1>1. PICK y, z : y = \hA2 /\ z = 1 /\ y \in Byte /\ z \in Byte
    BY SomeBytes
  <1>2. <<x>> \in Seq(Byte) /\ Len(<<x>>) = 1
    BY ByteSeqs
  <1>a. y \in Byte /\ z \in Byte /\ <<x>> \in Seq(Byte)
    BY <1>1, <1>2
  <1>3. FixedBytes(y, z, <<x>>) \in Seq(Byte) /\ Len(FixedBytes(y, z, <<x>>)) = 2 + Len(<<x>>)
        /\ <<y>> \o <<z>> \in Seq(Byte) /\ Len(<<y>> \o <<z>>) = 2
    BY <1>a, FixedType
  <1>4. QED
    BY <1>1, <1>2, <1>3 DEF FixedBytes, HeaderBytes

\* Three more bytes, one by one
LEMMA Puts8 ==
  ASSUME NEW s, IsStream(s), NEW t, NEW E \in Seq(Byte), Puts(s, t, E), NEW x \in Byte
  PROVE  Puts(s, bitstream_write_uint8(t, x), E \o <<x>>)
  <1>1. IsStream(t) /\ <<x>> \in Seq(Byte)
    BY PutsStream, ByteSeqs
  <1>2. Puts(t, bitstream_write_uint8(t, x), <<x>>)
    BY <1>1, Write8
  <1>3. QED
    BY <1>1, <1>2, PutsTwice

LEMMA HeaderPuts ==
  ASSUME NEW s, IsStream(s), NEW x \in Byte
  PROVE  Puts(s, protocolPackHeader(s, x), HeaderBytes(x))
  <1>1. PICK y, z : y = \hA2 /\ z = 1 /\ y \in Byte /\ z \in Byte
    BY SomeBytes
  <1>2. PICK t : t = bitstream_write_uint8(bitstream_write_uint8(s, y), z)
    OBVIOUS
  <1>3. Puts(s, t, <<y>> \o <<z>>)
    BY <1>1, <1>2, TypeLengthPuts DEF PackTypeLength
  <1>4. Puts(s, bitstream_write_uint8(t, x), (<<y>> \o <<z>>) \o <<x>>)
    BY <1>1, <1>3, HeaderType, Puts8
  <1>5. protocolPackHeader(s, x) = bitstream_write_uint8(t, x)
    BY <1>1, <1>2 DEF protocolPackHeader, kProtocolDefaultId, kProtocolDefaultVersion
  <1>6. QED
    BY <1>1, <1>4, <1>5 DEF HeaderBytes

LEMMA HeaderRead ==
  ASSUME NEW r, IsStream(r), NEW x \in Byte, Located(r.data, r.offset, HeaderBytes(x)), NEW type
  PROVE  /\ x = type => protocolUnpackHeader(r, type) = Valid(At(r, r.offset + 3, x))
         /\ x # type => protocolUnpackHeader(r, type).result = "Invalid"
         /\ r.offset + 3 <= r.bound
  <1>1. PICK y, z : y = \hA2 /\ z = 1 /\ y \in Byte /\ z \in Byte
    BY SomeBytes
  <1>2. <<x>> \in Seq(Byte) /\ r.offset \in Nat
    BY ByteSeqs, StreamFields
  <1>3. Located(r.data, r.offset, FixedBytes(y, z, <<x>>))
    BY <1>1 DEF HeaderBytes, FixedBytes
  <1>a. y \in Byte /\ z \in Byte /\ <<x>> \in Seq(Byte)
    BY <1>1, <1>2
  <1>4. PICK p, q : p = At(r, r.offset + 1, y) /\ q = At(r, r.offset + 2, z)
    OBVIOUS
  <1>5. /\ bitstream_read_uint8(r) = p /\ bitstream_read_uint8(p) = q /\ IsStream(q)
        /\ Located(r.data, r.offset + 2, <<x>>)
    BY <1>a, <1>3, <1>4, ReadTypeLength
  <1>6. p.val = \hA2 /\ q.val = 1 /\ q.data = r.data /\ q.offset = r.offset + 2
        /\ q.bound = r.bound
    BY <1>1, <1>4, AtFields
  <1>7. PICK u : u = At(q, q.offset + 1, x)
    OBVIOUS
  <1>8. bitstream_read_uint8(q) = u /\ q.offset + 1 <= q.bound
    BY <1>5, <1>6, <1>7, Read8
  <1>9. u.val = x
    BY <1>7, AtFields
  <1>10. protocolUnpackHeader(r, type) = IF x # type THEN Invalid(u) ELSE Valid(u)
    BY <1>5, <1>6, <1>8, <1>9
       DEF protocolUnpackHeader, kProtocolDefaultId, kProtocolDefaultVersion
  <1>11. (r.offset + 2) + 1 = r.offset + 3
    BY <1>2
  <1>12. u = At(r, r.offset + 3, x)
    BY <1>4, <1>6, <1>7, <1>11 DEF At
  <1>13. Invalid(u).result = "Invalid"
    BY DEF Invalid
  <1>14. QED
    BY <1>6, <1>8, <1>10, <1>11, <1>12, <1>13

\* The first byte is another one.
LEMMA HeaderOther ==
  ASSUME NEW r, IsStream(r), NEW x \in Byte, Located(r.data, r.offset, <<x>>), x # \hA2, NEW type
  PROVE  protocolUnpackHeader(r, type).result = "Invalid"
  <1>1. PICK p : p = At(r, r.offset + 1, x)
    OBVIOUS
  <1>2. bitstream_read_uint8(r) = p /\ p.val = x
    BY <1>1, Read8, AtFields
  <1>3. protocolUnpackHeader(r, type) = Invalid(p)
    BY <1>2 DEF protocolUnpackHeader, kProtocolDefaultId
  <1>4. QED
    BY <1>3 DEF Invalid

-----------------------------------------------------------------------------
(* Transactions: the six bytes that they begin with *)

LEMMA CatOne ==
  ASSUME NEW E \in Seq(Byte), NEW x \in Byte
  PROVE  E \o <<x>> \in Seq(Byte) /\ Len(E \o <<x>>) = Len(E) + 1
  <1>1. <<x>> \in Seq(Byte) /\ Len(<<x>>) = 1
    BY ByteSeqs
  <1>2. QED
    BY <1>1, Cat

TransactionBytes(id, type, x) == ((HeaderBytes(1) \o <<id>>) \o <<type>>) \o <<x>>

LEMMA TransactionType ==
  ASSUME NEW id \in Byte, NEW type \in Byte, NEW x \in Byte
  PROVE  /\ TransactionBytes(id, type, x) \in Seq(Byte) /\ Len(TransactionBytes(id, type, x)) = 6
         /\ HeaderBytes(1) \in Seq(Byte) /\ Len(HeaderBytes(1)) = 3
         /\ HeaderBytes(1) \o <<id>> \in Seq(Byte) /\ Len(HeaderBytes(1) \o <<id>>) = 4
         /\ (HeaderBytes(1) \o <<id>>) \o <<type>> \in Seq(Byte)
         /\ Len((HeaderBytes(1) \o <<id>>) \o <<type>>) = 5
  <1>1. PICK one : one = 1 /\ one \in Byte
    BY SomeBytes
  <1>2. one \in Byte
    BY <1>1
  <1>3. PICK h : h = HeaderBytes(one)
    OBVIOUS
  <1>4. h \in Seq(Byte) /\ Len(h) = 3
    BY <1>2, <1>3, HeaderType
  <1>6. PICK a : a = h \o <<id>>
    OBVIOUS
  <1>7. a \in Seq(Byte) /\ Len(a) = 4
    <2>1. h \in Seq(Byte)
      BY <1>4
    <2>2. a \in Seq(Byte) /\ Len(a) = Len(h) + 1
      BY <1>6, <2>1, CatOne
    <2>3. QED
      BY <1>4, <2>2
  <1>8. PICK b : b = a \o <<type>>
    OBVIOUS
  <1>9. b \in Seq(Byte) /\ Len(b) = 5
    <2>1. a \in Seq(Byte)
      BY <1>7
    <2>2. b \in Seq(Byte) /\ Len(b) = Len(a) + 1
      BY <1>8, <2>1, CatOne
    <2>3. QED
      BY <1>7, <2>2
  <1>10. b \o <<x>> \in Seq(Byte) /\ Len(b \o <<x>>) = 6
    <2>1. b \in Seq(Byte)
      BY <1>9
    <2>2. b \o <<x>> \in Seq(Byte) /\ Len(b \o <<x>>) = Len(b) + 1
      BY <2>1, CatOne
    <2>3. QED
      BY <1>9, <2>2
  <1>11. QED
    BY <1>1, <1>3, <1>4, <1>6, <1>7, <1>8, <1>9, <1>10 DEF TransactionBytes

LEMMA TransactionPuts ==
  ASSUME NEW s, IsStream(s), NEW id \in Byte, NEW type \in Byte, NEW x \in Byte
  PROVE  Puts(s, bitstream_write_uint8(transactionProtocolPackHeader(s, id, type), x),
              TransactionBytes(id, type, x))
  <1>1. PICK one : one = 1 /\ one \in Byte
    BY SomeBytes
  <1>2. one \in Byte
    BY <1>1
  <1>3. PICK t : t = protocolPackHeader(s, one)
    OBVIOUS
  <1>4. Puts(s, t, HeaderBytes(one)) /\ HeaderBytes(one) \in Seq(Byte)
    BY <1>2, <1>3, HeaderPuts, HeaderType
  <1>5. PICK h : h = HeaderBytes(1)
    OBVIOUS
  <1>6. Puts(s, t, h) /\ h \in Seq(Byte)
    BY <1>1, <1>4, <1>5
  <1>7. h \o <<id>> \in Seq(Byte) /\ (h \o <<id>>) \o <<type>> \in Seq(Byte)
    BY <1>5, TransactionType
  <1>8. PICK u : u = bitstream_write_uint8(t, id)
    OBVIOUS
  <1>9. Puts(s, u, h \o <<id>>)
    BY <1>6, <1>8, Puts8
  <1>10. PICK v : v = bitstream_write_uint8(u, type)
    OBVIOUS
  <1>11. Puts(s, v, (h \o <<id>>) \o <<type>>)
    BY <1>7, <1>9, <1>10, Puts8
  <1>12. Puts(s, bitstream_write_uint8(v, x), ((h \o <<id>>) \o <<type>>) \o <<x>>)
    BY <1>7, <1>11, Puts8
  <1>13. v = transactionProtocolPackHeader(s, id, type)
    BY <1>1, <1>3, <1>8, <1>10 DEF transactionProtocolPackHeader, ProtocolTypeTransaction
  <1>14. QED
    BY <1>5, <1>12, <1>13 DEF TransactionBytes

LEMMA TransactionRead ==
  ASSUME NEW r, IsStream(r), r.offset = 0, NEW id \in Byte, NEW type \in Byte, NEW x \in Byte,
         Located(r.data, 0, TransactionBytes(id, type, x))
  PROVE  /\ transactionProtocolUnpackHeader(r)
              = [stream |-> At(r, 5, type), result |-> "Valid", out |-> <<id, type>>]
         /\ bitstream_read_uint8(At(r, 5, type)) = At(r, 6, x)
         /\ IsStream(At(r, 6, x)) /\ 6 <= r.bound
         /\ Located(r.data, 0, HeaderBytes(1))
  <1>1. PICK h : h = HeaderBytes(1)
    OBVIOUS
  <1>2. PICK a, b : a = h \o <<id>> /\ b = a \o <<type>>
    OBVIOUS
  <1>3. /\ h \in Seq(Byte) /\ Len(h) = 3 /\ a \in Seq(Byte) /\ Len(a) = 4
        /\ b \in Seq(Byte) /\ Len(b) = 5 /\ TransactionBytes(id, type, x) = b \o <<x>>
    BY <1>1, <1>2, TransactionType DEF TransactionBytes
  <1>4. /\ <<id>> \in Seq(Byte) /\ <<type>> \in Seq(Byte) /\ <<x>> \in Seq(Byte)
        /\ Len(<<x>>) = 1 /\ Len(<<id>>) = 1 /\ Len(<<type>>) = 1
        /\ Len(r.data) \in Nat /\ 0 \in Nat
    BY ByteSeqs, StreamFields
  <1>5. Located(r.data, 0, b) /\ Located(r.data, 0 + Len(b), <<x>>)
    <2>1. b \in Seq(Byte) /\ <<x>> \in Seq(Byte) /\ Len(r.data) \in Nat /\ 0 \in Nat
      BY <1>3, <1>4
    <2>2. Located(r.data, 0, b \o <<x>>)
      BY <1>3
    <2>3. QED
      BY <2>1, <2>2, LocatedCat
  <1>6. Located(r.data, 0, a) /\ Located(r.data, 0 + Len(a), <<type>>)
    BY <1>2, <1>3, <1>4, <1>5, LocatedCat
  <1>7. Located(r.data, 0, h) /\ Located(r.data, 0 + Len(h), <<id>>)
    BY <1>2, <1>3, <1>4, <1>6, LocatedCat
  <1>8. 0 + Len(h) = 3 /\ 0 + Len(a) = 4 /\ 0 + Len(b) = 5
    BY <1>3
  <1>9. /\ Located(r.data, 3, <<id>>) /\ Located(r.data, 4, <<type>>)
        /\ Located(r.data, 5, <<x>>)
    BY <1>5, <1>6, <1>7, <1>8
  <1>10. 5 + 1 <= r.bound /\ r.bound \in Nat
    BY <1>4, <1>9, LocatedRoom, StreamFields
  <1>11. 3 \in 0..r.bound /\ 4 \in 0..r.bound /\ 5 \in 0..r.bound /\ 6 \in 0..r.bound
    BY <1>10
  <1>12. PICK one : one = 1 /\ one \in Byte
    BY SomeBytes
  <1>13. one \in Byte /\ Located(r.data, r.offset, HeaderBytes(one))
    BY <1>1, <1>7, <1>12
  <1>14. protocolUnpackHeader(r, one) = Valid(At(r, r.offset + 3, one))
    BY <1>13, HeaderRead
  <1>15. PICK p, q, t : p = At(r, 3, one) /\ q = At(r, 4, id) /\ t = At(r, 5, type)
    OBVIOUS
  <1>16. IsStream(p) /\ IsStream(q) /\ IsStream(t) /\ IsStream(At(r, 6, x))
    BY <1>11, <1>15, AtStream
  <1>17. /\ p.data = r.data /\ q.data = r.data /\ t.data = r.data
         /\ p.offset = 3 /\ q.offset = 4 /\ t.offset = 5 /\ q.val = id /\ t.val = type
         /\ At(p, 4, id) = q /\ At(q, 5, type) = t /\ At(t, 6, x) = At(r, 6, x)
    BY <1>15, AtFields
  <1>18. 3 + 1 = 4 /\ 4 + 1 = 5 /\ 5 + 1 = 6 /\ 0 + 3 = 3
    OBVIOUS
  <1>19. bitstream_read_uint8(p) = At(p, p.offset + 1, id)
    BY <1>9, <1>16, <1>17, Read8
  <1>20. bitstream_read_uint8(q) = At(q, q.offset + 1, type)
    BY <1>9, <1>16, <1>17, Read8
  <1>21. bitstream_read_uint8(t) = At(t, t.offset + 1, x)
    BY <1>9, <1>16, <1>17, Read8
  <1>22. /\ bitstream_read_uint8(p) = q /\ bitstream_read_uint8(q) = t
         /\ bitstream_read_uint8(t) = At(r, 6, x)
    BY <1>17, <1>18, <1>19, <1>20, <1>21
  <1>23. protocolUnpackHeader(r, ProtocolTypeTransaction) = Valid(p)
    BY <1>12, <1>14, <1>15, <1>18 DEF ProtocolTypeTransaction
  <1>24. Valid(p).stream = p /\ Valid(p).result = "Valid"
    BY DEF Valid
  <1>25. transactionProtocolUnpackHeader(r)
           = [stream |-> t, result |-> "Valid", out |-> <<id, type>>]
    BY <1>17, <1>22, <1>23, <1>24 DEF transactionProtocolUnpackHeader
  <1>26. QED
    BY <1>1, <1>7, <1>10, <1>15, <1>16, <1>22, <1>25

-----------------------------------------------------------------------------
(* The kinds of the fields of an object *)

\* As they are packed
Packs(object) ==
  LET known == {f \in FixedObject : f.type = object.type}
  IN  IF object.type = TransactionPeerList
      THEN <<"count">> \o Repeat(<<"string", "address", "address">>, object.fields[1])
      ELSE IF known = {} THEN << >>
      ELSE (CHOOSE f \in known : TRUE).pack

MaxAt(kinds, k) == IF k <= Len(kinds) THEN FieldMax(kinds[k]) ELSE 0

\* There are at most four fields, which take 145 bytes at most.
Room(kinds) ==
  /\ Len(kinds) \in 0..4
  /\ MaxAt(kinds, 1) + MaxAt(kinds, 2) + MaxAt(kinds, 3) + MaxAt(kinds, 4) <= 145

Matching(packs, kinds) ==
  /\ Len(packs) = Len(kinds) /\ Len(kinds) \in Nat
  /\ \A k \in 1..Len(kinds) : Match(packs[k], kinds[k])

LEMMA FixedShape ==
  ASSUME NEW f \in FixedObject
  PROVE  Matching(f.pack, f.unpack) /\ Room(f.unpack)
  <1>1. CASE f = UserCreate
    <2>1. f.pack = <<"uint64", "string", "string">> /\ f.unpack = <<"uint64", "name", "email">>
      BY <1>1 DEF UserCreate
    <2>2. QED
      BY <2>1 DEF Matching, Match, FieldKind, Room, MaxAt, FieldMax
  <1>2. CASE f = ResourceCreate
    <2>1. f.pack = <<"uint64", "uint64", "data">> /\ f.unpack = <<"uint64", "uint64", "data">>
      BY <1>2 DEF ResourceCreate
    <2>2. QED
      BY <2>1 DEF Matching, Match, FieldKind, Room, MaxAt, FieldMax
  <1>3. CASE f = Online
    <2>1. f.pack = <<"uint64", "address", "address", "seconds">>
          /\ f.unpack = <<"uint64", "address", "address", "seconds">>
      BY <1>3 DEF Online
    <2>2. QED
      BY <2>1 DEF Matching, Match, FieldKind, Room, MaxAt, FieldMax
  <1>4. CASE f \in {Offline, ConnectRefuse, Disconnect}
    <2>1. f.pack = <<"string">> /\ f.unpack = <<"peerId">>
      BY <1>4 DEF Offline, ConnectRefuse, Disconnect
    <2>2. QED
      BY <2>1 DEF Matching, Match, FieldKind, Room, MaxAt, FieldMax
  <1>5. CASE f \in {Connect, ConnectAccept}
    <2>1. f.pack = <<"string", "address">> /\ f.unpack = <<"peerId", "address">>
      BY <1>5 DEF Connect, ConnectAccept
    <2>2. QED
      BY <2>1 DEF Matching, Match, FieldKind, Room, MaxAt, FieldMax
  <1>6. QED
    BY <1>1, <1>2, <1>3, <1>4, <1>5 DEF FixedObject

LEMMA ShortSeqs ==
  ASSUME NEW S, NEW a \in S
  PROVE  /\ <<a>> \in Seq(S) /\ Len(<<a>>) = 1 /\ <<a>>[1] = a
         /\ \A b \in S, c \in S : <<a, b, c>> \in Seq(S) /\ Len(<<a, b, c>>) = 3
  OBVIOUS

LEMMA RepeatFacts ==
  ASSUME NEW S, NEW K \in Seq(S), Len(K) = 3, NEW n \in Nat, NEW N \in Nat, N = n * 3
  PROVE  /\ Repeat(K, n) \in Seq(S) /\ Len(Repeat(K, n)) = N
         /\ \A i \in 1..N : Repeat(K, n)[i] = K[((i - 1) % 3) + 1]
  <1>1. Repeat(K, n) = [i \in 1..N |-> K[((i - 1) % 3) + 1]]
    BY DEF Repeat
  <1>2. \A i \in 1..N : ((i - 1) % 3) + 1 \in 1..3
    OBVIOUS
  <1>3. \A j \in 1..3 : K[j] \in S
    BY ElementOfSeq
  <1>4. PICK f : f = [i \in 1..N |-> K[((i - 1) % 3) + 1]]
    OBVIOUS
  <1>5. f \in [1..N -> S]
    BY <1>2, <1>3, <1>4
  <1>6. f \in Seq(S) /\ Len(f) = N
    BY <1>5
  <1>7. QED
    BY <1>1, <1>4, <1>6

LEMMA PeerListShape ==
  ASSUME NEW n \in Nat
  PROVE  /\ Matching(<<"count">> \o Repeat(<<"string", "address", "address">>, n),
                     <<"count">> \o Repeat(<<"peerId", "address", "address">>, n))
         /\ Len(<<"count">> \o Repeat(<<"peerId", "address", "address">>, n)) = 1 + n * 3
         /\ Len(Repeat(<<"peerId", "address", "address">>, n)) = n * 3
         /\ \A k \in 1..(n * 3) :
              (<<"count">> \o Repeat(<<"peerId", "address", "address">>, n))[k + 1]
                = Repeat(<<"peerId", "address", "address">>, n)[k]
  <1>1. PICK p, q : /\ p = Repeat(<<"string", "address", "address">>, n)
                    /\ q = Repeat(<<"peerId", "address", "address">>, n)
    OBVIOUS
  <1>d. PICK S : "count" \in S /\ "string" \in S /\ "peerId" \in S /\ "address" \in S
    <2>1. "count" \in FieldKind \cup {"string"} /\ "string" \in FieldKind \cup {"string"}
          /\ "peerId" \in FieldKind \cup {"string"} /\ "address" \in FieldKind \cup {"string"}
      BY DEF FieldKind
    <2>2. QED
      BY <2>1
  <1>a. PICK K, L : /\ K = <<"string", "address", "address">>
                    /\ L = <<"peerId", "address", "address">>
    OBVIOUS
  <1>b. K \in Seq(S) /\ Len(K) = 3 /\ L \in Seq(S) /\ Len(L) = 3
    BY <1>d, <1>a, ShortSeqs
  <1>c. PICK N \in Nat : N = n * 3
    OBVIOUS
  <1>e. p = Repeat(K, n) /\ q = Repeat(L, n)
    BY <1>1, <1>a
  <1>2. /\ p \in Seq(S) /\ Len(p) = N
        /\ \A i \in 1..N : p[i] = K[((i - 1) % 3) + 1]
    BY <1>e, <1>b, <1>c, RepeatFacts
  <1>f. L \in Seq(S) /\ Len(L) = 3 /\ q = Repeat(L, n)
    BY <1>b, <1>e
  <1>3. /\ q \in Seq(S) /\ Len(q) = N
        /\ \A i \in 1..N : q[i] = L[((i - 1) % 3) + 1]
    BY <1>c, <1>f, RepeatFacts
  <1>4. <<"count">> \in Seq(S) /\ Len(<<"count">>) = 1 /\ <<"count">>[1] = "count"
    BY <1>d, ShortSeqs
  <1>5. \A i \in 1..N : Match(p[i], q[i])
    <2>1. \A i \in 1..N : ((i - 1) % 3) + 1 \in {1, 2, 3}
      OBVIOUS
    <2>2. \A j \in {1, 2, 3} : Match(K[j], L[j])
      BY <1>a DEF Match, FieldKind
    <2>3. QED
      BY <1>2, <1>3, <2>1, <2>2
  <1>6. PICK a, b : a = <<"count">> \o p /\ b = <<"count">> \o q
    OBVIOUS
  <1>7. /\ a \in Seq(S) /\ Len(a) = 1 + N /\ a[1] = "count"
        /\ b \in Seq(S) /\ Len(b) = 1 + N /\ b[1] = "count"
    BY <1>2, <1>3, <1>4, <1>6
  <1>8. \A k \in 1..N : a[k + 1] = p[k] /\ b[k + 1] = q[k]
    BY <1>2, <1>3, <1>4, <1>6
  <1>9. Match("count", "count")
    BY DEF Match, FieldKind
  <1>10. ASSUME NEW k \in 1..(1 + N) PROVE Match(a[k], b[k])
    <2>1. CASE k = 1
      BY <1>7, <1>9, <2>1
    <2>2. CASE k # 1
      <3>1. k - 1 \in 1..N /\ (k - 1) + 1 = k
        BY <1>c, <2>2
      <3>2. a[k] = p[k - 1] /\ b[k] = q[k - 1]
        BY <1>8, <3>1
      <3>3. QED
        BY <1>5, <3>1, <3>2
    <2>3. QED
      BY <2>1, <2>2
  <1>11. Matching(a, b)
    BY <1>c, <1>7, <1>10 DEF Matching
  <1>12. QED
    BY <1>1, <1>c, <1>3, <1>6, <1>7, <1>8, <1>11

\* Every object is packed as it is unpacked.
LEMMA ObjectShape ==
  ASSUME NEW object, IsObject(object)
  PROVE  /\ Matching(Packs(object), Kinds(object))
         /\ object.type # TransactionPeerList => Room(Kinds(object))
  <1>1. CASE object.type = TransactionPeerList
    <2>1. PICK n \in Nat : n = object.fields[1]
      <3>1. object.fields[1] \in Uint16
        BY <1>1 DEF IsObject
      <3>2. QED
        <4>1. \A n \in Uint16 : n \in Nat
          BY DEF Uint16
        <4>2. QED
          BY <3>1, <4>1
    <2>2. QED
      BY <1>1, <2>1, PeerListShape DEF Packs, Kinds
  <1>2. CASE object.type # TransactionPeerList
    <2>1. PICK known : known = {f \in FixedObject : f.type = object.type}
      OBVIOUS
    <2>2. CASE known = {}
      <3>1. Packs(object) = << >> /\ Kinds(object) = << >>
        BY <1>2, <2>1, <2>2 DEF Packs, Kinds
      <3>2. QED
        BY <3>1 DEF Matching, Room, MaxAt
    <2>3. CASE known # {}
      <3>1. PICK f : f = CHOOSE g \in known : TRUE
        OBVIOUS
      <3>2. f \in FixedObject
        BY <2>1, <2>3, <3>1
      <3>3. Packs(object) = f.pack /\ Kinds(object) = f.unpack
        BY <1>2, <2>1, <2>3, <3>1 DEF Packs, Kinds
      <3>4. QED
        BY <3>2, <3>3, FixedShape
    <2>4. QED
      BY <2>2, <2>3
  <1>3. QED
    BY <1>1, <1>2

-----------------------------------------------------------------------------
(* Requests *)

PackRequest(s, id, object) ==
  transactionProtocolPackRequest(
    transactionProtocolPackHeader(s, id, TransactionTypeRequest), object)

\* The streams after the header, and after each of the fields
RequestSteps(f, n, s, id, object) ==
  /\ Puts(s, f[0], TransactionBytes(id, 1, object.type))
  /\ f[n] = PackRequest(s, id, object)
  /\ IsRun(f, n, s.little, Kinds(object), object.fields)

LEMMA ObjectFields ==
  ASSUME NEW object, IsObject(object)
  PROVE  /\ object.type \in Byte /\ Len(Kinds(object)) \in Nat
         /\ \A k \in 1..Len(Kinds(object)) :
              Kinds(object)[k] \in FieldKind /\ IsField(Kinds(object)[k], object.fields[k])
  <1>1. /\ object.type \in Byte
        /\ \A k \in 1..Len(Kinds(object)) : IsField(Kinds(object)[k], object.fields[k])
    BY DEF IsObject
  <1>2. Matching(Packs(object), Kinds(object))
    BY ObjectShape
  <1>3. QED
    BY <1>1, <1>2 DEF Matching, Match

LEMMA RequestRun ==
  ASSUME NEW s, IsStream(s), NEW id \in Byte, NEW object, IsObject(object),
         NEW n, n = Len(Kinds(object))
  PROVE  \E f : RequestSteps(f, n, s, id, object)
  <1>1. PICK x, K, P, V : x = object.type /\ K = Kinds(object) /\ P = Packs(object)
                            /\ V = object.fields
    OBVIOUS
  <1>2. x \in Byte /\ n \in Nat
    BY <1>1, ObjectFields
  <1>3. Len(P) = n /\ \A k \in 1..n : Match(P[k], K[k]) /\ IsField(K[k], V[k])
    BY <1>1, ObjectShape, ObjectFields DEF Matching
  <1>4. PICK one : one = TransactionTypeRequest /\ one \in Byte
    BY SomeBytes DEF TransactionTypeRequest
  <1>5. one \in Byte
    BY <1>4
  <1>6. PICK t : t = bitstream_write_uint8(transactionProtocolPackHeader(s, id, one), x)
    OBVIOUS
  <1>7. Puts(s, t, TransactionBytes(id, one, x))
    BY <1>2, <1>5, <1>6, TransactionPuts
  <1>8. IsStream(t) /\ t.little = s.little
    BY <1>7, PutsStream
  <1>9. PICK f : f[0] = t /\ f[n] = PackFields(t, P, V) /\ IsRun(f, n, t.little, K, V)
    <2>1. n \in Nat
      BY <1>2
    <2>2. QED
      BY <1>3, <1>8, <2>1, PackFieldsRun
  <1>10. PackRequest(s, id, object) = f[n]
    <2>1. PICK known : known = {g \in FixedObject : g.type = object.type}
      OBVIOUS
    <2>2. CASE object.type = TransactionPeerList
      BY <1>1, <1>4, <1>6, <1>9, <2>2
         DEF PackRequest, transactionProtocolPackRequest, Packs,
             transactionProtocolPackObjectPeerList
    <2>3. CASE object.type # TransactionPeerList /\ known = {}
      <3>1. PackRequest(s, id, object) = t
        BY <1>1, <1>4, <1>6, <2>1, <2>3 DEF PackRequest, transactionProtocolPackRequest
      <3>2. Kinds(object) = << >>
        BY <2>1, <2>3 DEF Kinds
      <3>3. n = 0
        BY <3>2
      <3>4. QED
        BY <1>9, <3>1, <3>3
    <2>4. CASE object.type # TransactionPeerList /\ known # {}
      BY <1>1, <1>4, <1>6, <1>9, <2>1, <2>4
         DEF PackRequest, transactionProtocolPackRequest, Packs
    <2>5. QED
      BY <2>2, <2>3, <2>4
  <1>11. TransactionTypeRequest = 1
    BY DEF TransactionTypeRequest
  <1>12. Puts(s, f[0], TransactionBytes(id, 1, object.type))
    BY <1>1, <1>4, <1>7, <1>9, <1>11
  <1>13. RequestSteps(f, n, s, id, object)
    BY <1>1, <1>8, <1>9, <1>10, <1>12 DEF RequestSteps
  <1>14. QED
    BY <1>13

\* The fields of an object of a fixed length take 145 bytes at most.
LEMMA FixedLength ==
  ASSUME NEW f, NEW l \in BOOLEAN, NEW kinds, NEW values, Room(kinds), NEW n, n = Len(kinds),
         IsRun(f, n, l, kinds, values),
         \A k \in 1..n : kinds[k] \in FieldKind /\ IsField(kinds[k], values[k])
  PROVE  f[n].offset <= f[0].offset + 145
  <1> DEFINE L(k) == Len(FieldBytes(l, kinds[k], values[k]))
  <1>1. \A k \in 1..n : L(k) \in Nat /\ L(k) <= FieldMax(kinds[k])
    BY FieldType
  <1>2. \A k \in 1..n : f[k].offset <= f[k - 1].offset + L(k)
    BY DEF IsRun, Puts
  <1>3. \A k \in 0..n : f[k].offset \in Nat
    BY StreamFields DEF IsRun
  <1>4. \A k \in 1..n : FieldMax(kinds[k]) \in Nat
    BY FieldMaxBound
  <1> HIDE DEF L
  <1>5. n \in 0..4
    BY DEF Room
  <1>6. \A k \in 1..n : f[k].offset <= f[k - 1].offset + FieldMax(kinds[k])
    <2>1. SUFFICES ASSUME NEW k \in 1..n
                   PROVE  f[k].offset <= f[k - 1].offset + FieldMax(kinds[k])
      OBVIOUS
    <2>2. k \in 0..n /\ k - 1 \in 0..n
      BY <1>5
    <2>3. f[k].offset \in Nat /\ f[k - 1].offset \in Nat
      BY <1>3, <2>2
    <2>4. QED
      BY <1>1, <1>2, <1>4, <2>3
  <1>7. MaxAt(kinds, 1) + MaxAt(kinds, 2) + MaxAt(kinds, 3) + MaxAt(kinds, 4) <= 145
    BY DEF Room
  <1>8. CASE n = 0
    BY <1>3, <1>8
  <1>9. CASE n = 1
    <2>1. /\ MaxAt(kinds, 1) = FieldMax(kinds[1]) /\ MaxAt(kinds, 2) = 0
          /\ MaxAt(kinds, 3) = 0 /\ MaxAt(kinds, 4) = 0
      BY <1>9 DEF MaxAt
    <2>2. f[1].offset <= f[0].offset + FieldMax(kinds[1])
      BY <1>6, <1>9
    <2>3. f[0].offset \in Nat /\ f[1].offset \in Nat /\ FieldMax(kinds[1]) \in Nat
      BY <1>3, <1>4, <1>9
    <2>4. QED
      BY <1>7, <1>9, <2>1, <2>2, <2>3
  <1>10. CASE n = 2
    <2>1. /\ MaxAt(kinds, 1) = FieldMax(kinds[1]) /\ MaxAt(kinds, 2) = FieldMax(kinds[2])
          /\ MaxAt(kinds, 3) = 0 /\ MaxAt(kinds, 4) = 0
      BY <1>10 DEF MaxAt
    <2>2. /\ f[1].offset <= f[0].offset + FieldMax(kinds[1])
          /\ f[2].offset <= f[1].offset + FieldMax(kinds[2])
      BY <1>6, <1>10
    <2>3. /\ f[0].offset \in Nat /\ f[1].offset \in Nat /\ FieldMax(kinds[1]) \in Nat
          /\ f[2].offset \in Nat /\ FieldMax(kinds[2]) \in Nat
      BY <1>3, <1>4, <1>10
    <2>4. QED
      BY <1>7, <1>10, <2>1, <2>2, <2>3
  <1>11. CASE n = 3
    <2>1. /\ MaxAt(kinds, 1) = FieldMax(kinds[1]) /\ MaxAt(kinds, 2) = FieldMax(kinds[2])
          /\ MaxAt(kinds, 3) = FieldMax(kinds[3]) /\ MaxAt(kinds, 4) = 0
      BY <1>11 DEF MaxAt
    <2>2. /\ f[1].offset <= f[0].offset + FieldMax(kinds[1])
          /\ f[2].offset <= f[1].offset + FieldMax(kinds[2])
          /\ f[3].offset <= f[2].offset + FieldMax(kinds[3])
      BY <1>6, <1>11
    <2>3. /\ f[0].offset \in Nat /\ f[1].offset \in Nat /\ FieldMax(kinds[1]) \in Nat
          /\ f[2].offset \in Nat /\ FieldMax(kinds[2]) \in Nat
          /\ f[3].offset \in Nat /\ FieldMax(kinds[3]) \in Nat
      BY <1>3, <1>4, <1>11
    <2>4. QED
      BY <1>7, <1>11, <2>1, <2>2, <2>3
  <1>12. CASE n = 4
    <2>1. /\ MaxAt(kinds, 1) = FieldMax(kinds[1]) /\ MaxAt(kinds, 2) = FieldMax(kinds[2])
          /\ MaxAt(kinds, 3) = FieldMax(kinds[3]) /\ MaxAt(kinds, 4) = FieldMax(kinds[4])
      BY <1>12 DEF MaxAt
    <2>2. /\ f[1].offset <= f[0].offset + FieldMax(kinds[1])
          /\ f[2].offset <= f[1].offset + FieldMax(kinds[2])
          /\ f[3].offset <= f[2].offset + FieldMax(kinds[3])
          /\ f[4].offset <= f[3].offset + FieldMax(kinds[4])
      BY <1>6, <1>12
    <2>3. /\ f[0].offset \in Nat /\ f[1].offset \in Nat /\ FieldMax(kinds[1]) \in Nat
          /\ f[2].offset \in Nat /\ FieldMax(kinds[2]) \in Nat
          /\ f[3].offset \in Nat /\ FieldMax(kinds[3]) \in Nat
          /\ f[4].offset \in Nat /\ FieldMax(kinds[4]) \in Nat
      BY <1>3, <1>4, <1>12
    <2>4. QED
      BY <1>7, <1>12, <2>1, <2>2, <2>3
  <1>13. QED
    BY <1>5, <1>8, <1>9, <1>10, <1>11, <1>12

\* The stream of a packet, and that of a memory that is large enough
IsPacket(s, l) ==
  IsStream(s) /\ s.offset = 0 /\ s.bound = kNetPacketMaxLen /\ s.little = l
IsLarge(u, l) ==
  IsStream(u) /\ u.offset = 0 /\ u.bound = 4 * kNetPacketMaxLen /\ u.little = l

\* Bytes that fit in a packet are written, into either.
LEMMA PutsWrote ==
  ASSUME NEW l, NEW s, IsPacket(s, l) \/ IsLarge(s, l), NEW t, NEW E \in Seq(Byte), Puts(s, t, E),
         Len(E) <= kNetPacketMaxLen
  PROVE  Wrote(s, t, E) /\ t.offset = Len(E) /\ IsStream(t) /\ t.bound = s.bound /\ t.little = l
  <1>1. IsStream(s) /\ s.offset = 0 /\ Len(E) \in Nat /\ kNetPacketMaxLen \in Nat /\ s.little = l
    BY RoomAssumption, LenProperties DEF IsPacket, IsLarge
  <1>2. s.bound = kNetPacketMaxLen \/ s.bound = 4 * kNetPacketMaxLen
    BY DEF IsPacket, IsLarge
  <1>3. s.offset + Len(E) <= s.bound /\ s.offset + Len(E) = Len(E)
    BY <1>1, <1>2
  <1>4. Wrote(s, t, E)
    BY <1>3 DEF Puts
  <1>5. QED
    BY <1>1, <1>3, <1>4, PutsStream DEF Wrote, Kept

RequestWrites(f, n, s, l, id, object) ==
  /\ Wrote(s, f[0], TransactionBytes(id, 1, object.type))
  /\ f[n] = PackRequest(s, id, object)
  /\ IsRun(f, n, l, Kinds(object), object.fields)
  /\ \A k \in 1..n : Wrote(f[k - 1], f[k], FieldBytes(l, Kinds(object)[k], object.fields[k]))

LEMMA RequestType ==
  ASSUME NEW id \in Byte, NEW x \in Byte
  PROVE  /\ TransactionBytes(id, 1, x) \in Seq(Byte) /\ Len(TransactionBytes(id, 1, x)) = 6
         /\ Len(TransactionBytes(id, 1, x)) <= kNetPacketMaxLen
  <1>1. PICK one : one = 1 /\ one \in Byte
    BY SomeBytes
  <1>2. one \in Byte
    BY <1>1
  <1>3. TransactionBytes(id, one, x) \in Seq(Byte) /\ Len(TransactionBytes(id, one, x)) = 6
    BY <1>2, TransactionType
  <1>4. TransactionBytes(id, 1, x) \in Seq(Byte) /\ Len(TransactionBytes(id, 1, x)) = 6
    BY <1>1, <1>3
  <1>5. 6 <= kNetPacketMaxLen
    BY RoomAssumption
  <1>6. QED
    BY <1>4, <1>5

\* Whatever is left out of a list of peers, the header is there.
LEMMA RequestKept ==
  ASSUME NEW l, NEW s, IsPacket(s, l) \/ IsLarge(s, l), NEW id \in Byte, NEW object,
         IsObject(object), NEW t, t = PackRequest(s, id, object)
  PROVE  /\ IsStream(t) /\ t.bound = s.bound /\ 6 <= t.offset
         /\ Located(t.data, 0, TransactionBytes(id, 1, object.type))
  <1>1. PICK n, x, E : n = Len(Kinds(object)) /\ x = object.type /\ E = TransactionBytes(id, 1, x)
    OBVIOUS
  <1>2. n \in Nat /\ x \in Byte
    BY <1>1, ObjectFields
  <1>3. E \in Seq(Byte) /\ Len(E) = 6 /\ Len(E) <= kNetPacketMaxLen
    BY <1>1, <1>2, RequestType
  <1>4. IsStream(s) /\ s.offset = 0
    BY DEF IsPacket, IsLarge
  <1>5. PICK f : RequestSteps(f, n, s, id, object)
    BY <1>1, <1>4, RequestRun
  <1>6. Puts(s, f[0], E) /\ f[n] = t /\ IsRun(f, n, s.little, Kinds(object), object.fields)
    BY <1>1, <1>5 DEF RequestSteps
  <1>7. /\ Wrote(s, f[0], E) /\ f[0].offset = Len(E) /\ IsStream(f[0])
        /\ f[0].bound = s.bound
    <2>1. E \in Seq(Byte) /\ Len(E) <= kNetPacketMaxLen /\ Puts(s, f[0], E)
      BY <1>3, <1>6
    <2>2. QED
      BY <2>1, PutsWrote
  <1>8. Kept(f[0], t)
    <2>1. n \in 0..n
      BY <1>2
    <2>2. QED
      BY <1>2, <1>6, <2>1, RunKept
  <1>9. Located(f[0].data, 0, E)
    BY <1>4, <1>7 DEF Wrote
  <1>10. Len(E) \in Nat /\ 0 \in Nat /\ 0 + Len(E) <= f[0].offset
    BY <1>3, <1>7
  <1>11. Located(t.data, 0, E)
    BY <1>7, <1>8, <1>9, <1>10, KeptLocated
  <1>12. IsStream(t) /\ f[0].offset <= t.offset /\ t.bound = s.bound
    BY <1>7, <1>8, KeptFields DEF Kept
  <1>13. QED
    BY <1>1, <1>3, <1>7, <1>11, <1>12

LEMMA RequestPacks ==
  ASSUME NEW l \in BOOLEAN, NEW s, NEW u, IsPacket(s, l), IsLarge(u, l),
         NEW id \in Byte, NEW object, IsObject(object), NEW n, n = Len(Kinds(object)),
         object.type = TransactionPeerList => PackRequest(u, id, object).offset <= kNetPacketMaxLen
  PROVE  /\ Packed(PackRequest(s, id, object)) = Packed(PackRequest(u, id, object))
         /\ \E f : RequestWrites(f, n, s, l, id, object)
  <1>1. PICK x, E, K, V : x = object.type /\ E = TransactionBytes(id, 1, x)
                            /\ K = Kinds(object) /\ V = object.fields
    OBVIOUS
  <1>2. n \in Nat /\ x \in Byte
    BY <1>1, ObjectFields
  <1>3. E \in Seq(Byte) /\ Len(E) = 6 /\ Len(E) <= kNetPacketMaxLen
    BY <1>1, <1>2, RequestType
  <1>4. /\ IsStream(s) /\ s.little = l /\ s.offset = 0 /\ IsStream(u) /\ u.little = l
        /\ u.offset = 0
    BY DEF IsPacket, IsLarge
  <1>5. PICK f : RequestSteps(f, n, s, id, object)
    BY <1>1, <1>4, RequestRun
  <1>6. PICK g : RequestSteps(g, n, u, id, object)
    BY <1>1, <1>4, RequestRun
  <1>7. /\ Puts(s, f[0], E) /\ f[n] = PackRequest(s, id, object) /\ IsRun(f, n, l, K, V)
        /\ Puts(u, g[0], E) /\ g[n] = PackRequest(u, id, object) /\ IsRun(g, n, l, K, V)
    BY <1>1, <1>4, <1>5, <1>6 DEF RequestSteps
  <1>8. /\ Wrote(s, f[0], E) /\ f[0].offset = Len(E) /\ IsStream(f[0]) /\ f[0].bound = s.bound
        /\ f[0].little = l
    BY <1>3, <1>7, PutsWrote
  <1>9. /\ Wrote(u, g[0], E) /\ g[0].offset = Len(E) /\ IsStream(g[0]) /\ g[0].bound = u.bound
        /\ g[0].little = l
    BY <1>3, <1>7, PutsWrote
  <1>10. Twin(f[0], g[0])
    <2>1. Twin(s, u)
      BY <1>4 DEF Twin
    <2>2. QED
      BY <1>3, <1>4, <1>8, <1>9, <2>1, WroteTwin
  <1>11. \A k \in 1..n : K[k] \in FieldKind /\ IsField(K[k], V[k])
    BY <1>1, ObjectFields
  <1>12. g[n].offset <= f[0].bound
    <2>1. CASE object.type = TransactionPeerList
      BY <1>7, <1>8, <2>1 DEF IsPacket
    <2>2. CASE object.type # TransactionPeerList
      <3>1. Room(K) /\ n = Len(K)
        BY <1>1, <2>2, ObjectShape
      <3>2. g[n].offset <= g[0].offset + 145
        BY <1>7, <1>11, <3>1, FixedLength
      <3>3. IsStream(g[n])
        BY <1>2, <1>7 DEF IsRun
      <3>4. g[n].offset \in Nat
        BY <3>3, StreamFields
      <3>5. g[0].offset = 6 /\ f[0].bound = kNetPacketMaxLen
        BY <1>3, <1>8, <1>9 DEF IsPacket
      <3>6. g[n].offset <= 151
        BY <3>2, <3>4, <3>5
      <3>7. 151 <= kNetPacketMaxLen /\ kNetPacketMaxLen \in Nat
        BY RoomAssumption
      <3>8. QED
        BY <3>4, <3>5, <3>6, <3>7
    <2>3. QED
      BY <2>1, <2>2
  <1>13. f[0].bound + 129 <= g[0].bound
    <2>1. f[0].bound = kNetPacketMaxLen /\ g[0].bound = 4 * kNetPacketMaxLen
      BY <1>8, <1>9 DEF IsPacket, IsLarge
    <2>2. QED
      BY <2>1, RoomAssumption
  <1>14. /\ Twin(f[n], g[n])
         /\ \A k \in 1..n : Wrote(f[k - 1], f[k], FieldBytes(l, K[k], V[k]))
    <2>1. n \in Nat
      BY <1>2
    <2>2. QED
      BY <1>7, <1>10, <1>11, <1>12, <1>13, <2>1, FieldsTwin
  <1>15. IsStream(f[n]) /\ IsStream(g[n])
    BY <1>2, <1>7 DEF IsRun
  <1>16. Packed(f[n]) = Packed(g[n])
    BY <1>14, <1>15, TwinPacked
  <1>17. RequestWrites(f, n, s, l, id, object)
    BY <1>1, <1>7, <1>8, <1>14 DEF RequestWrites
  <1>18. QED
    BY <1>7, <1>16, <1>17

\* The bytes of a packet, up to the offset, are those of the memory that it
\* was received in.
Arrives(r, t) ==
  /\ IsStream(r) /\ r.offset = 0 /\ IsStream(t) /\ t.offset <= r.bound /\ r.little = t.little
  /\ \A i \in 1..t.offset : r.data[i] = t.data[i]

LEMMA ArrivesLocated ==
  ASSUME NEW r, NEW t, Arrives(r, t), NEW o \in Nat, NEW E \in Seq(Byte),
         o + Len(E) <= t.offset, Located(t.data, o, E)
  PROVE  Located(r.data, o, E)
  <1>1. IsStream(t) /\ r.data \in Seq(Byte) /\ t.offset <= Len(r.data)
    BY StreamFields DEF Arrives
  <1>2. \A i \in 1..t.offset : r.data[i] = t.data[i]
    BY DEF Arrives
  <1>3. QED
    BY <1>1, <1>2, Arrived

LEMMA RequestArrives ==
  ASSUME NEW l \in BOOLEAN, NEW s, IsPacket(s, l), NEW id \in Byte, NEW object, IsObject(object),
         NEW n, n = Len(Kinds(object)), NEW f, RequestWrites(f, n, s, l, id, object),
         NEW r, Arrives(r, f[n])
  PROVE  \E o : /\ Lies(r, o, n, Kinds(object), object.fields)
                /\ o[0] = 6 /\ o[n] = f[n].offset
  <1>1. PICK K, V : K = Kinds(object) /\ V = object.fields
    OBVIOUS
  <1>2. n \in Nat /\ n \in 0..n /\ 0 \in 0..n
    BY ObjectFields
  <1>3. /\ Wrote(s, f[0], TransactionBytes(id, 1, object.type)) /\ IsRun(f, n, l, K, V)
        /\ \A k \in 1..n : Wrote(f[k - 1], f[k], FieldBytes(l, K[k], V[k]))
    BY <1>1 DEF RequestWrites
  <1>4. PICK o : o = [k \in 0..n |-> f[k].offset]
    OBVIOUS
  <1>5. o[0] = f[0].offset /\ o[n] = f[n].offset /\ \A k \in 0..n : o[k] = f[k].offset
    BY <1>2, <1>4
  <1>6. f[0].offset = 6
    <2>1. Len(TransactionBytes(id, 1, object.type)) = 6
      BY ObjectFields, RequestType
    <2>2. f[0].offset = s.offset + Len(TransactionBytes(id, 1, object.type)) /\ s.offset = 0
      BY <1>3 DEF Wrote, IsPacket
    <2>3. QED
      BY <2>1, <2>2
  <1>7. \A k \in 0..n : o[k] \in Nat
    BY <1>3, <1>5, StreamFields DEF IsRun
  <1>8. \A k \in 1..n : K[k] \in FieldKind /\ IsField(K[k], V[k])
    BY <1>1, ObjectFields
  <1>9. r.little = l
    BY <1>2, <1>3 DEF Arrives, IsRun
  <1>10. ASSUME NEW k \in 1..n
         PROVE  /\ Located(r.data, o[k - 1], FieldBytes(r.little, K[k], V[k]))
                /\ o[k] = o[k - 1] + Len(FieldBytes(r.little, K[k], V[k]))
    <2>1. PICK E : E = FieldBytes(l, K[k], V[k])
      OBVIOUS
    <2>2. E \in Seq(Byte) /\ Len(E) \in Nat
      BY <1>8, <2>1, FieldType
    <2>3. Wrote(f[k - 1], f[k], E)
      BY <1>3, <2>1
    <2>4. k \in 0..n /\ k - 1 \in 0..n
      BY <1>2
    <2>5. o[k - 1] = f[k - 1].offset /\ o[k] = f[k].offset /\ o[k - 1] \in Nat /\ o[k] \in Nat
      BY <1>5, <1>7, <2>4
    <2>6. /\ o[k] = o[k - 1] + Len(E) /\ Located(f[k].data, o[k - 1], E) /\ IsStream(f[k])
      BY <2>3, <2>5 DEF Wrote, Kept
    <2>7. Kept(f[k], f[n])
      <3>1. n \in Nat
        BY <1>2
      <3>2. QED
        BY <1>3, <2>4, <3>1, RunKept
    <2>8. o[k - 1] + Len(E) <= f[k].offset
      BY <2>2, <2>5, <2>6
    <2>9. Located(f[n].data, o[k - 1], E)
      BY <2>2, <2>5, <2>6, <2>7, <2>8, KeptLocated
    <2>10. f[k].offset <= f[n].offset /\ f[n].offset \in Nat
      BY <1>2, <1>5, <1>7, <2>7 DEF Kept
    <2>11. o[k - 1] + Len(E) <= f[n].offset
      BY <2>2, <2>5, <2>8, <2>10
    <2>12. Located(r.data, o[k - 1], E)
      BY <2>2, <2>5, <2>9, <2>11, ArrivesLocated
    <2>13. QED
      BY <1>9, <2>1, <2>6, <2>12
  <1>11. Lies(r, o, n, K, V)
    BY <1>7, <1>8, <1>10 DEF Lies
  <1>12. QED
    BY <1>1, <1>5, <1>6, <1>11

\* A value of a field is one of the values, whatever it is.
LEMMA FieldValues ==
  ASSUME NEW object, IsObject(object), NEW n, n = Len(Kinds(object))
  PROVE  \E S : /\ Byte \subseteq S /\ object.fields \in Seq(S) /\ Len(object.fields) = n
  <1>1. PICK V : V = object.fields
    OBVIOUS
  <1>2. n \in Nat /\ V = [i \in 1..n |-> V[i]]
    BY <1>1, ObjectFields DEF IsObject
  <1>3. PICK S : S = Byte \cup {V[i] : i \in 1..n}
    OBVIOUS
  <1>4. V \in [1..n -> S] /\ Byte \subseteq S
    BY <1>2, <1>3
  <1>5. V \in Seq(S) /\ Len(V) = n
    BY <1>2, <1>4
  <1>6. QED
    BY <1>1, <1>4, <1>5

ObjectResult(x) ==
  IF x \in {f.type : f \in FixedObject} \cup {TransactionPeerList, TransactionEmpty}
  THEN "Valid" ELSE "Unexpected"

\* A sequence and what follows its first element
LEMMA FirstAndRest ==
  ASSUME NEW S, NEW V \in Seq(S), NEW x \in S, NEW m \in Nat, Len(V) = 1 + m
  PROVE  \E W \in Seq(S) : /\ Len(W) = m /\ \A k \in 1..m : W[k] = V[k + 1]
                           /\ (<<x>> \o <<V[1]>>) \o W = <<x>> \o V
                           /\ m = 0 => <<x>> \o <<V[1]>> = <<x>> \o V
                           /\ <<x>> \o <<V[1]>> \in Seq(S) /\ Last(<<x>> \o <<V[1]>>) = V[1]
                           /\ <<V[1]>> \in Seq(S) /\ Len(<<V[1]>>) = 1 /\ <<V[1]>>[1] = V[1]
                           /\ <<x>> \in Seq(S)
  <1>1. PICK W : W = [k \in 1..m |-> V[k + 1]]
    OBVIOUS
  <1>2. \A k \in 1..m : k + 1 \in 1..Len(V)
    OBVIOUS
  <1>3. \A k \in 1..m : V[k + 1] \in S
    BY <1>2, ElementOfSeq
  <1>4. W \in [1..m -> S]
    BY <1>1, <1>3
  <1>5. W \in Seq(S) /\ Len(W) = m /\ \A k \in 1..m : W[k] = V[k + 1]
    BY <1>1, <1>4
  <1>6. PICK c : c = V[1]
    OBVIOUS
  <1>7. c \in S
    <2>1. 1 \in 1..Len(V)
      OBVIOUS
    <2>2. QED
      BY <1>6, <2>1, ElementOfSeq
  <1>8. PICK p : p = <<x>> \o <<c>>
    OBVIOUS
  <1>9. p \in Seq(S) /\ Len(p) = 2 /\ p[1] = x /\ p[2] = c
    BY <1>7, <1>8
  <1>10. Last(p) = c
    BY <1>9 DEF Last
  <1>11. p \o W = <<x>> \o V
    <2>1. PICK a, b : a = p \o W /\ b = <<x>> \o V
      OBVIOUS
    <2>a. /\ a \in Seq(S) /\ Len(a) = Len(p) + Len(W)
          /\ \A i \in 1..(Len(p) + Len(W)) : a[i] = IF i <= Len(p) THEN p[i] ELSE W[i - Len(p)]
      <3>1. p \in Seq(S) /\ W \in Seq(S)
        BY <1>5, <1>9
      <3>2. QED
        BY <2>1, <3>1, ConcatProperties
    <2>b. /\ b \in Seq(S) /\ Len(b) = Len(<<x>>) + Len(V)
          /\ \A i \in 1..(Len(<<x>>) + Len(V)) :
               b[i] = IF i <= Len(<<x>>) THEN <<x>>[i] ELSE V[i - Len(<<x>>)]
      <3>1. <<x>> \in Seq(S)
        BY ShortSeqs
      <3>2. QED
        BY <2>1, <3>1, ConcatProperties
    <2>c. Len(p) = 2 /\ Len(W) = m /\ Len(<<x>>) = 1 /\ <<x>>[1] = x
      BY <1>5, <1>9, ShortSeqs
    <2>d. /\ a \in Seq(S) /\ Len(a) = 2 + m
          /\ \A i \in 1..(2 + m) : a[i] = IF i <= 2 THEN p[i] ELSE W[i - 2]
      BY <2>a, <2>c
    <2>e. b \in Seq(S) /\ Len(b) = 1 + (1 + m)
          /\ \A i \in 1..(1 + (1 + m)) : b[i] = IF i <= 1 THEN <<x>>[i] ELSE V[i - 1]
      BY <2>b, <2>c
    <2>f. 1 + (1 + m) = 2 + m
      OBVIOUS
    <2>2. a \in Seq(S) /\ Len(a) = 2 + m /\ b \in Seq(S) /\ Len(b) = 2 + m
      BY <2>d, <2>e, <2>f
    <2>g. \A i \in 1..(2 + m) : b[i] = IF i <= 1 THEN <<x>>[i] ELSE V[i - 1]
      BY <2>e, <2>f
    <2>3. ASSUME NEW i \in 1..(2 + m) PROVE a[i] = b[i]
      <3>1. CASE i = 1
        <4>1. a[i] = p[1] /\ b[i] = <<x>>[1]
          BY <2>d, <2>g, <3>1
        <4>2. QED
          BY <1>9, <2>c, <4>1
      <3>2. CASE i = 2
        <4>1. a[i] = p[2] /\ b[i] = V[1]
          BY <2>d, <2>g, <3>2
        <4>2. QED
          BY <1>6, <1>9, <4>1
      <3>3. CASE i > 2
        <4>1. i - 2 \in 1..m /\ (i - 2) + 1 = i - 1 /\ i - 1 \in 1..Len(V) /\ ~(i <= 2) /\ ~(i <= 1)
          BY <3>3
        <4>2. a[i] = W[i - 2]
          BY <2>d, <4>1
        <4>3. b[i] = V[i - 1]
          BY <2>g, <4>1
        <4>4. W[i - 2] = V[i - 1]
          BY <1>5, <4>1
        <4>5. QED
          BY <4>2, <4>3, <4>4
      <3>4. QED
        BY <3>1, <3>2, <3>3
    <2>4. a = b
      BY <2>2, <2>3, SeqEqual
    <2>5. QED
      BY <2>1, <2>4
  <1>12. m = 0 => p = <<x>> \o V
    <2>1. CASE m = 0
      <3>1. Len(W) = 0
        BY <1>5, <2>1
      <3>2. W = << >>
        BY <1>5, <3>1, EmptySeq
      <3>3. p \o << >> = p
        BY <1>9
      <3>4. QED
        BY <1>11, <3>2, <3>3
    <2>2. QED
      BY <2>1
  <1>13. <<c>> \in Seq(S) /\ Len(<<c>>) = 1 /\ <<c>>[1] = c /\ <<x>> \in Seq(S)
    BY <1>7, ShortSeqs
  <1>14. QED
    BY <1>5, <1>6, <1>8, <1>9, <1>10, <1>11, <1>12, <1>13

Readable(r, n, o, kinds, values, S, out) ==
  /\ IsStream(r) /\ n \in Nat /\ Len(kinds) = n
  /\ Lies(r, o, n, kinds, values) /\ o[0] = r.offset
  /\ values \in Seq(S) /\ Len(values) = n /\ out \in Seq(S)

LEMMA ReadFields ==
  ASSUME NEW r, NEW n, NEW o, NEW kinds, NEW values, NEW S, NEW out, NEW result,
         Readable(r, n, o, kinds, values, S, out)
  PROVE  UnpackFields(Reader(r, result, out), kinds) = FieldsEnd(r, result, out, o, n, values)
  <1>1. /\ IsStream(r) /\ n \in Nat /\ Len(kinds) = n
        /\ Lies(r, o, n, kinds, values) /\ o[0] = r.offset
        /\ values \in Seq(S) /\ Len(values) = n /\ out \in Seq(S)
    BY DEF Readable
  <1>2. QED
    BY <1>1, FieldsRead

LEMMA Uint16Nat == \A n \in Uint16 : n \in Nat
  BY DEF Uint16

PeersLie(r, V, c, N, o, K, S, x) ==
  /\ IsStream(r) /\ c = V[1] /\ c \in Uint16 /\ N = 1 + c * 3
  /\ K = <<"count">> \o Repeat(<<"peerId", "address", "address">>, c)
  /\ Lies(r, o, N, K, V) /\ o[0] = r.offset
  /\ V \in Seq(S) /\ Len(V) = N /\ x \in S

LEMMA PeerListRead ==
  ASSUME NEW r, NEW V, NEW c, NEW N, NEW o, NEW K, NEW S, NEW x,
         PeersLie(r, V, c, N, o, K, S, x)
  PROVE  transactionProtocolUnpackObjectPeerList(Reader(r, "Valid", <<x>>))
           = Reader(At(r, o[N], V[N]), "Valid", <<x>> \o V)
  <1>0. /\ IsStream(r) /\ c = V[1] /\ c \in Uint16 /\ N = 1 + c * 3
        /\ K = <<"count">> \o Repeat(<<"peerId", "address", "address">>, c)
        /\ Lies(r, o, N, K, V) /\ o[0] = r.offset
        /\ V \in Seq(S) /\ Len(V) = N /\ x \in S
    BY DEF PeersLie
  <1>1. c \in Nat
    BY <1>0, Uint16Nat
  <1>2. PICK m \in Nat : m = c * 3
    BY <1>1
  <1>3. N = 1 + m /\ Len(V) = 1 + m
    BY <1>0, <1>2
  <1>4. PICK W \in Seq(S) : /\ Len(W) = m /\ \A k \in 1..m : W[k] = V[k + 1]
                            /\ (<<x>> \o <<c>>) \o W = <<x>> \o V
                            /\ m = 0 => <<x>> \o <<c>> = <<x>> \o V
                            /\ <<x>> \o <<c>> \in Seq(S) /\ Last(<<x>> \o <<c>>) = c
                            /\ <<c>> \in Seq(S) /\ Len(<<c>>) = 1 /\ <<c>>[1] = c
                            /\ <<x>> \in Seq(S)
    <2>1. x \in S /\ V \in Seq(S) /\ Len(V) = 1 + m
      BY <1>0, <1>3
    <2>2. c = V[1]
      BY <1>0
    <2>3. \E W \in Seq(S) : /\ Len(W) = m /\ \A k \in 1..m : W[k] = V[k + 1]
                            /\ (<<x>> \o <<V[1]>>) \o W = <<x>> \o V
                            /\ m = 0 => <<x>> \o <<V[1]>> = <<x>> \o V
                            /\ <<x>> \o <<V[1]>> \in Seq(S) /\ Last(<<x>> \o <<V[1]>>) = V[1]
                            /\ <<V[1]>> \in Seq(S) /\ Len(<<V[1]>>) = 1 /\ <<V[1]>>[1] = V[1]
                            /\ <<x>> \in Seq(S)
      BY <2>1, FirstAndRest
    <2>4. QED
      BY <2>2, <2>3
  <1> USE <1>0
  <1>5. PICK L, R : L = <<"count">> /\ R = Repeat(<<"peerId", "address", "address">>, c)
    OBVIOUS
  <1>6. Len(R) = m /\ \A k \in 1..m : K[k + 1] = R[k]
    BY <1>1, <1>2, <1>5, PeerListShape
  <1>7. L[1] = "count" /\ Len(L) = 1 /\ K[1] = "count"
    <2>1. K[1] = "count"
      <3>1. PICK S2 : "count" \in S2 /\ "peerId" \in S2 /\ "address" \in S2
        <4>1. "count" \in FieldKind /\ "peerId" \in FieldKind /\ "address" \in FieldKind
          BY DEF FieldKind
        <4>2. QED
          BY <4>1
      <3>2. PICK P : P = <<"peerId", "address", "address">>
        OBVIOUS
      <3>3. P \in Seq(S2) /\ Len(P) = 3
        BY <3>1, <3>2, ShortSeqs
      <3>4. R = Repeat(P, c)
        BY <1>5, <3>2
      <3>5. R \in Seq(S2)
        BY <1>1, <1>2, <3>3, <3>4, RepeatFacts
      <3>6. L \in Seq(S2) /\ Len(L) = 1 /\ L[1] = "count" /\ K = L \o R
        BY <1>5, <3>1, ShortSeqs
      <3>7. QED
        BY <3>5, <3>6
    <2>2. QED
      BY <1>5, <2>1
  <1>8. PICK q1, v1 : q1 = <<c>> /\ v1 = <<x>>
    OBVIOUS
  <1>9. 1 \in 1..N /\ 0 \in 0..N /\ 1 \in 0..N /\ N \in 0..N
    BY <1>2, <1>3
  <1>10. Lies(r, o, 1, L, q1)
    <2>1. /\ o[0] \in Nat /\ o[1] \in Nat
          /\ K[1] \in FieldKind /\ IsField(K[1], V[1])
          /\ Located(r.data, o[1 - 1], FieldBytes(r.little, K[1], V[1]))
          /\ o[1] = o[1 - 1] + Len(FieldBytes(r.little, K[1], V[1]))
      BY <1>9 DEF Lies
    <2>2. K[1] = L[1] /\ V[1] = q1[1]
      BY <1>4, <1>7, <1>8
    <2>3. \A k \in 0..1 : o[k] \in Nat
      BY <2>1
    <2>4. \A k \in 1..1 : k = 1
      OBVIOUS
    <2>5. QED
      BY <2>1, <2>2, <2>3, <2>4 DEF Lies
  <1>11. PICK p : p = v1 \o q1
    OBVIOUS
  <1>12. p \in Seq(S) /\ Last(p) = c /\ q1 \in Seq(S) /\ Len(q1) = 1 /\ q1[1] = c /\ v1 \in Seq(S)
    BY <1>4, <1>8, <1>11
  <1>13. PICK r2 : r2 = At(r, o[1], c)
    OBVIOUS
  <1>14. UnpackFields([stream |-> r, result |-> "Valid", out |-> v1], L)
           = [stream |-> r2, result |-> "Valid", out |-> p]
    <2>1. Len(L) = 1
      BY <1>7
    <2>2. PICK n : n = 1 /\ n \in Nat
      OBVIOUS
    <2>3. n \in Nat /\ Len(L) = n /\ Lies(r, o, n, L, q1) /\ Len(q1) = n
      BY <1>10, <1>12, <2>1, <2>2
    <2>4. q1 \in Seq(S) /\ v1 \in Seq(S)
      BY <1>12
    <2>a. PICK ok : ok = "Valid"
      OBVIOUS
    <2>5. UnpackFields(Reader(r, ok, v1), L) = FieldsEnd(r, ok, v1, o, n, q1)
      <3>1. Readable(r, n, o, L, q1, S, v1)
        BY <2>3, <2>4 DEF Readable
      <3>2. QED
        BY <3>1, ReadFields
    <2>6. n # 0 /\ o[n] = o[1] /\ q1[n] = c
      BY <1>12, <2>2
    <2>7. QED
      BY <1>11, <1>13, <2>a, <2>5, <2>6 DEF Reader, FieldsEnd
  <1>15. IsStream(r2) /\ r2.offset = o[1] /\ r2.data = r.data /\ r2.little = r.little
    <2>1. /\ o[1] \in Nat /\ Located(r.data, o[1 - 1], FieldBytes(r.little, K[1], V[1]))
          /\ o[1] = o[1 - 1] + Len(FieldBytes(r.little, K[1], V[1]))
      BY <1>9 DEF Lies
    <2>2. o[1] <= r.bound
      BY <2>1, LocatedRoom
    <2>3. o[1] \in 0..r.bound
      BY <2>1, <2>2, StreamFields
    <2>4. QED
      BY <1>13, <2>3, AtStream, AtFields
  <1>16. PICK d : d = [k \in 0..m |-> o[k + 1]]
    OBVIOUS
  <1>17. d[0] = o[1] /\ d[m] = o[N] /\ \A k \in 0..m : d[k] = o[k + 1]
    BY <1>3, <1>16
  <1>18. Lies(r2, d, m, R, W)
    <2>1. \A k \in 0..m : d[k] \in Nat
      <3>1. \A k \in 0..m : k + 1 \in 0..N
        BY <1>3
      <3>2. QED
        BY <1>17, <3>1 DEF Lies
    <2>2. ASSUME NEW k \in 1..m
          PROVE  /\ R[k] \in FieldKind /\ IsField(R[k], W[k])
                 /\ Located(r2.data, d[k - 1], FieldBytes(r2.little, R[k], W[k]))
                 /\ d[k] = d[k - 1] + Len(FieldBytes(r2.little, R[k], W[k]))
      <3>1. k + 1 \in 1..N /\ k - 1 \in 0..m /\ k \in 0..m /\ (k + 1) - 1 = k /\ (k - 1) + 1 = k
        BY <1>3
      <3>2. R[k] = K[k + 1] /\ W[k] = V[k + 1] /\ d[k - 1] = o[(k + 1) - 1] /\ d[k] = o[k + 1]
        BY <1>4, <1>6, <1>17, <3>1
      <3>3. /\ K[k + 1] \in FieldKind /\ IsField(K[k + 1], V[k + 1])
            /\ Located(r.data, o[(k + 1) - 1], FieldBytes(r.little, K[k + 1], V[k + 1]))
            /\ o[k + 1] = o[(k + 1) - 1] + Len(FieldBytes(r.little, K[k + 1], V[k + 1]))
        BY <3>1 DEF Lies
      <3>4. QED
        BY <1>15, <3>2, <3>3
    <2>3. QED
      BY <2>1, <2>2 DEF Lies
  <1>19. UnpackFields([stream |-> r2, result |-> "Valid", out |-> p], R)
           = IF m = 0 THEN [stream |-> r2, result |-> "Valid", out |-> p]
             ELSE [stream |-> At(r2, d[m], W[m]), result |-> "Valid", out |-> p \o W]
    <2>1. d[0] = r2.offset /\ Len(R) = m /\ W \in Seq(S) /\ Len(W) = m /\ p \in Seq(S)
          /\ IsStream(r2)
      BY <1>4, <1>6, <1>12, <1>15, <1>17
    <2>2. PICK ok : ok = "Valid"
      OBVIOUS
    <2>3. UnpackFields(Reader(r2, ok, p), R) = FieldsEnd(r2, ok, p, d, m, W)
      <3>1. Readable(r2, m, d, R, W, S, p)
        BY <1>18, <2>1 DEF Readable
      <3>2. QED
        BY <3>1, ReadFields
    <2>4. QED
      BY <2>2, <2>3 DEF Reader, FieldsEnd
  <1>20. UnpackFields([stream |-> r2, result |-> "Valid", out |-> p], R)
           = [stream |-> At(r, o[N], V[N]), result |-> "Valid", out |-> <<x>> \o V]
    <2>1. CASE m = 0
      <3>1. N = 1
        BY <1>3, <2>1
      <3>2. p = <<x>> \o V
        BY <1>4, <1>8, <1>11, <2>1
      <3>3. QED
        BY <1>13, <1>19, <2>1, <3>1, <3>2
    <2>2. CASE m # 0
      <3>1. m \in 1..m
        BY <2>2
      <3>2. W[m] = V[N] /\ d[m] = o[N]
        BY <1>3, <1>4, <1>17, <3>1
      <3>3. At(r2, o[N], V[N]) = At(r, o[N], V[N])
        BY <1>13, AtFields
      <3>4. p \o W = <<x>> \o V
        BY <1>4, <1>8, <1>11
      <3>5. QED
        BY <1>19, <2>2, <3>2, <3>3, <3>4
    <2>3. QED
      BY <2>1, <2>2
  <1>21. PICK a, b : /\ a = [stream |-> r, result |-> "Valid", out |-> v1]
                     /\ b = [stream |-> r2, result |-> "Valid", out |-> p]
    OBVIOUS
  <1>22. b.result = "Valid" /\ b.out = p
    BY <1>21
  <1>23. transactionProtocolUnpackObjectPeerList(a) = UnpackFields(b, R)
    <2>1. UnpackFields(a, <<"count">>) = b
      BY <1>5, <1>14, <1>21
    <2>2. Last(b.out) = c
      BY <1>12, <1>22
    <2>3. QED
      BY <1>5, <1>22, <2>1, <2>2 DEF transactionProtocolUnpackObjectPeerList
  <1>24. QED
    BY <1>8, <1>20, <1>21, <1>23 DEF Reader

LEMMA NoneFollow ==
  ASSUME NEW S, NEW V \in Seq(S), Len(V) = 0, NEW x \in S
  PROVE  <<x>> \o V = <<x>>
  <1>1. V = << >>
    BY EmptySeq
  <1>2. QED
    BY <1>1

LEMMA RequestRead ==
  ASSUME NEW r, IsStream(r), r.offset = 0, NEW id \in Byte, NEW object, IsObject(object),
         NEW x, x = object.type, NEW n, n = Len(Kinds(object)),
         NEW o, Lies(r, o, n, Kinds(object), object.fields), o[0] = 6,
         Located(r.data, 0, TransactionBytes(id, 1, x))
  PROVE  \E q : /\ q = transactionProtocolUnpackRequest(At(r, 5, 1))
                /\ q.stream.offset = o[n] /\ q.result = ObjectResult(x)
                /\ q.out = <<x>> \o object.fields
  <1>1. PICK K, V, one : K = Kinds(object) /\ V = object.fields /\ one = 1
    OBVIOUS
  <1>2. x \in Byte /\ n \in Nat
    BY ObjectFields
  <1>3. PICK w : w = At(r, 6, x)
    OBVIOUS
  <1>4. one \in Byte /\ Located(r.data, 0, TransactionBytes(id, one, x))
    BY <1>1, SomeBytes
  <1>5. bitstream_read_uint8(At(r, 5, one)) = w /\ IsStream(w)
    <2>1. one \in Byte /\ x \in Byte /\ Located(r.data, 0, TransactionBytes(id, one, x))
      BY <1>2, <1>4
    <2>2. QED
      BY <1>3, <2>1, TransactionRead
  <1>6. w.val = x /\ w.offset = 6 /\ w.data = r.data /\ w.little = r.little
    BY <1>3, AtFields
  <1>7. Lies(w, o, n, K, V)
    BY <1>1, <1>6 DEF Lies
  <1>8. PICK S : Byte \subseteq S /\ V \in Seq(S) /\ Len(V) = n
    BY <1>1, FieldValues
  <1>9. x \in S
    BY <1>2, <1>8
  <1>10. <<x>> \in Seq(S)
    BY <1>9, ShortSeqs
  <1>11. PICK reader : reader = Reader(w, "Valid", <<x>>)
    OBVIOUS
  <1>12. reader.stream = w /\ reader.result = "Valid" /\ reader.out = <<x>>
    BY <1>11 DEF Reader
  <1>13. PICK known : known = {f \in FixedObject : f.type = x}
    OBVIOUS
  <1>14. PICK q : q = transactionProtocolUnpackRequest(At(r, 5, one))
    OBVIOUS
  <1>15. q = IF x = TransactionPeerList THEN transactionProtocolUnpackObjectPeerList(reader)
             ELSE IF x = TransactionEmpty THEN reader
             ELSE IF known = {} THEN [reader EXCEPT !.result = "Unexpected"]
             ELSE UnpackFields(reader, (CHOOSE f \in known : TRUE).unpack)
    <2>1. PICK a : a = At(r, 5, one)
      OBVIOUS
    <2>2. bitstream_read_uint8(a) = w /\ q = transactionProtocolUnpackRequest(a)
      BY <1>5, <1>14, <2>1
    <2>3. reader = [stream |-> w, result |-> "Valid", out |-> <<w.val>>]
      BY <1>6, <1>11 DEF Reader
    <2>4. known = {f \in FixedObject : f.type = w.val}
      BY <1>6, <1>13
    <2>5. q = IF w.val = TransactionPeerList THEN transactionProtocolUnpackObjectPeerList(reader)
              ELSE IF w.val = TransactionEmpty THEN reader
              ELSE IF known = {} THEN [reader EXCEPT !.result = "Unexpected"]
              ELSE UnpackFields(reader, (CHOOSE f \in known : TRUE).unpack)
      BY <2>2, <2>3, <2>4 DEF transactionProtocolUnpackRequest
    <2>6. QED
      BY <1>6, <2>5
  <1>16. n = 0 => reader.stream.offset = o[n] /\ reader.out = <<x>> \o V
    <2>1. ASSUME n = 0 PROVE <<x>> \o V = <<x>>
      <3>1. Len(V) = 0 /\ V \in Seq(S)
        BY <1>8, <2>1
      <3>2. QED
        BY <1>9, <3>1, NoneFollow
    <2>2. QED
      BY <1>6, <1>12, <2>1
  <1>17. x # TransactionPeerList /\ known = {} => n = 0
    <2>1. ASSUME x # TransactionPeerList, known = {} PROVE Kinds(object) = << >>
      BY <1>13, <2>1 DEF Kinds
    <2>2. QED
      BY <2>1
  <1>18. x = TransactionEmpty => x # TransactionPeerList /\ known = {}
    <2>1. \A f \in FixedObject : f.type # 1
      BY DEF FixedObject, UserCreate, ResourceCreate, Online, Offline, Connect, ConnectAccept,
             ConnectRefuse, Disconnect
    <2>2. QED
      BY <1>13, <2>1 DEF TransactionEmpty, TransactionPeerList
  <1>19. CASE x = TransactionPeerList
    <2>1. PICK c : c = V[1]
      OBVIOUS
    <2>2. c \in Uint16
      BY <1>1, <1>19, <2>1 DEF IsObject
    <2>3. K = <<"count">> \o Repeat(<<"peerId", "address", "address">>, c)
      BY <1>1, <1>19, <2>1 DEF Kinds
    <2>4. n = 1 + c * 3
      <3>1. c \in Nat
        BY <2>2, Uint16Nat
      <3>2. QED
        BY <1>1, <2>3, <3>1, PeerListShape
    <2>5. PeersLie(w, V, c, n, o, K, S, x)
      BY <1>5, <1>6, <1>7, <1>8, <1>9, <2>1, <2>2, <2>3, <2>4 DEF PeersLie
    <2>6. q = Reader(At(w, o[n], V[n]), "Valid", <<x>> \o V)
      BY <1>11, <1>15, <1>19, <2>5, PeerListRead
    <2>7. q.stream = At(w, o[n], V[n]) /\ q.result = "Valid" /\ q.out = <<x>> \o V
      BY <2>6 DEF Reader
    <2>8. q.stream.offset = o[n]
      BY <2>7, AtFields
    <2>9. ObjectResult(x) = "Valid"
      BY <1>19 DEF ObjectResult
    <2>10. QED
      BY <1>1, <1>14, <2>7, <2>8, <2>9
  <1>20. CASE x = TransactionEmpty
    <2>1. n = 0 /\ q = reader
      BY <1>15, <1>17, <1>18, <1>20
    <2>2. ObjectResult(x) = "Valid"
      BY <1>20 DEF ObjectResult
    <2>3. QED
      BY <1>1, <1>12, <1>14, <1>16, <2>1, <2>2
  <1>21. CASE x # TransactionPeerList /\ x # TransactionEmpty /\ known = {}
    <2>1. n = 0 /\ q = [reader EXCEPT !.result = "Unexpected"]
      BY <1>15, <1>17, <1>21
    <2>2. q.stream = reader.stream /\ q.out = reader.out /\ q.result = "Unexpected"
      BY <1>11, <2>1 DEF Reader
    <2>3. ObjectResult(x) = "Unexpected"
      BY <1>13, <1>21 DEF ObjectResult
    <2>4. QED
      BY <1>1, <1>14, <1>16, <2>1, <2>2, <2>3
  <1>22. CASE x # TransactionPeerList /\ x # TransactionEmpty /\ known # {}
    <2>1. PICK f \in known : f = CHOOSE g \in known : TRUE
      BY <1>22
    <2>2. K = f.unpack
      BY <1>1, <1>13, <1>22, <2>1 DEF Kinds
    <2>3. q = UnpackFields(reader, K)
      BY <1>15, <1>22, <2>1, <2>2
    <2>4. Readable(w, n, o, K, V, S, <<x>>)
      BY <1>1, <1>2, <1>5, <1>6, <1>7, <1>8, <1>10 DEF Readable
    <2>5. q = FieldsEnd(w, "Valid", <<x>>, o, n, V)
      BY <1>11, <2>3, <2>4, ReadFields
    <2>6. ObjectResult(x) = "Valid"
      BY <1>13, <2>1 DEF ObjectResult
    <2>7. CASE n = 0
      <3>1. q = reader
        BY <1>11, <2>5, <2>7 DEF FieldsEnd
      <3>2. QED
        BY <1>1, <1>12, <1>14, <1>16, <2>6, <2>7, <3>1
    <2>8. CASE n # 0
      <3>1. q = Reader(At(w, o[n], V[n]), "Valid", <<x>> \o V)
        BY <2>5, <2>8 DEF FieldsEnd
      <3>2. q.stream = At(w, o[n], V[n]) /\ q.result = "Valid" /\ q.out = <<x>> \o V
        BY <3>1 DEF Reader
      <3>3. q.stream.offset = o[n]
        BY <3>2, AtFields
      <3>4. QED
        BY <1>1, <1>14, <2>6, <3>2, <3>3
    <2>9. QED
      BY <2>7, <2>8
  <1>23. QED
    BY <1>19, <1>20, <1>21, <1>22

\* What a callback makes of a packet
Takes4(g, by, result, out, offset) ==
  g.by = by /\ g.result = result /\ g.out = out /\ g.offset = offset

LEMMA GotFields ==
  ASSUME NEW by, NEW s, NEW result, NEW out
  PROVE  Takes4(Got(by, s, result, out), by, result, out, s.offset)
  BY DEF Got, Takes4

LEMMA Three ==
  ASSUME NEW S, NEW a \in S, NEW b \in S, NEW x \in S
  PROVE  <<a, b>> \o <<x>> = <<a, b, x>> /\ Append(<<a, b>>, x) = <<a, b, x>>
  <1>1. PICK p, q, t : p = <<a, b>> /\ q = <<x>> /\ t = <<a, b, x>>
    OBVIOUS
  <1>2. /\ p \in Seq(S) /\ Len(p) = 2 /\ p[1] = a /\ p[2] = b
        /\ q \in Seq(S) /\ Len(q) = 1 /\ q[1] = x
        /\ t \in Seq(S) /\ Len(t) = 3 /\ t[1] = a /\ t[2] = b /\ t[3] = x
    BY <1>1
  <1>3. PICK u, v : u = p \o q /\ v = Append(p, x)
    OBVIOUS
  <1>4. u \in Seq(S) /\ Len(u) = 3 /\ u[1] = a /\ u[2] = b /\ u[3] = x
    <2>1. p \in Seq(S) /\ q \in Seq(S)
      BY <1>2
    <2>2. /\ u \in Seq(S) /\ Len(u) = Len(p) + Len(q)
          /\ \A i \in 1..(Len(p) + Len(q)) : u[i] = IF i <= Len(p) THEN p[i] ELSE q[i - Len(p)]
      BY <1>3, <2>1, ConcatProperties
    <2>3. \A i \in 1..3 : u[i] = IF i <= 2 THEN p[i] ELSE q[i - 2]
      BY <1>2, <2>2
    <2>4. u[1] = p[1] /\ u[2] = p[2] /\ u[3] = q[1]
      BY <2>3
    <2>5. QED
      BY <1>2, <2>2, <2>4
  <1>5. v \in Seq(S) /\ Len(v) = 3 /\ v[1] = a /\ v[2] = b /\ v[3] = x
    <2>1. p \in Seq(S)
      BY <1>2
    <2>2. /\ v \in Seq(S) /\ Len(v) = Len(p) + 1
          /\ \A i \in 1..Len(p) : v[i] = p[i]
          /\ v[Len(p) + 1] = x
      BY <1>3, <2>1, AppendProperties
    <2>3. QED
      BY <1>2, <2>2
  <1>6. \A i \in 1..3 : u[i] = t[i] /\ v[i] = t[i]
    BY <1>2, <1>4, <1>5
  <1>7. u = t /\ v = t
    <2>1. u = t
      BY <1>2, <1>4, <1>6, SeqEqual
    <2>2. v = t
      BY <1>2, <1>5, <1>6, SeqEqual
    <2>3. QED
      BY <2>1, <2>2
  <1>8. QED
    BY <1>1, <1>3, <1>7

LEMMA RequestReceived ==
  ASSUME NEW l \in BOOLEAN, NEW s, IsPacket(s, l), NEW id \in Byte, NEW object, IsObject(object),
         NEW n, n = Len(Kinds(object)), NEW f, RequestWrites(f, n, s, l, id, object),
         NEW r, Arrives(r, f[n])
  PROVE  Takes4(TransactionReceive(r), "transaction", ObjectResult(object.type),
                <<id, TransactionTypeRequest, object.type>> \o object.fields, f[n].offset)
  <1>1. PICK x, V, one : x = object.type /\ V = object.fields /\ one = 1
    OBVIOUS
  <1>2. x \in Byte /\ one \in Byte
    BY <1>1, ObjectFields, SomeBytes
  <1>3. PICK o : Lies(r, o, n, Kinds(object), V) /\ o[0] = 6 /\ o[n] = f[n].offset
    BY <1>1, RequestArrives
  <1>4. IsStream(r) /\ r.offset = 0
    BY DEF Arrives
  <1>5. Located(r.data, 0, TransactionBytes(id, one, x))
    <2>1. PICK t : t = f[n] /\ t = PackRequest(s, id, object)
      BY DEF RequestWrites
    <2>2. /\ IsStream(t) /\ 6 <= t.offset
          /\ Located(t.data, 0, TransactionBytes(id, 1, x))
      BY <1>1, <2>1, RequestKept
    <2>3. PICK E : E = TransactionBytes(id, 1, x)
      OBVIOUS
    <2>4. E \in Seq(Byte) /\ Len(E) = 6
      BY <1>2, <2>3, RequestType
    <2>5. 0 + Len(E) <= t.offset /\ 0 \in Nat
      BY <2>2, <2>4
    <2>6. Located(r.data, 0, E)
      <3>1. E \in Seq(Byte) /\ Located(t.data, 0, E) /\ Arrives(r, t)
        BY <2>1, <2>2, <2>3, <2>4
      <3>2. QED
        BY <2>5, <3>1, ArrivesLocated
    <2>7. QED
      BY <1>1, <2>3, <2>6
  <1>6. transactionProtocolUnpackHeader(r)
          = [stream |-> At(r, 5, one), result |-> "Valid", out |-> <<id, one>>]
    BY <1>2, <1>4, <1>5, TransactionRead
  <1>7. PICK q : /\ q = transactionProtocolUnpackRequest(At(r, 5, 1))
                 /\ q.stream.offset = o[n] /\ q.result = ObjectResult(x)
                 /\ q.out = <<x>> \o V
    <2>1. Located(r.data, 0, TransactionBytes(id, 1, x))
      BY <1>1, <1>5
    <2>2. QED
      BY <1>1, <1>3, <1>4, <2>1, RequestRead
  <1>8. PICK h : h = transactionProtocolUnpackHeader(r)
    OBVIOUS
  <1>9. h.stream = At(r, 5, 1) /\ h.result = "Valid" /\ h.out = <<id, 1>> /\ h.out[2] = 1
    BY <1>1, <1>6, <1>8
  <1>10. TransactionReceive(r) = Got("transaction", q.stream, q.result, h.out \o q.out)
    BY <1>7, <1>8, <1>9 DEF TransactionReceive, GotRequest, TransactionTypeRequest,
                            TransactionTypeResponse
  <1>11. h.out \o q.out = <<id, TransactionTypeRequest, x>> \o V
    <2>1. PICK S : Byte \subseteq S /\ V \in Seq(S)
      BY <1>1, FieldValues
    <2>2. id \in S /\ one \in S /\ x \in S
      BY <1>2, <2>1
    <2>3. <<id, one>> \o (<<x>> \o V) = <<id, one, x>> \o V
      <3>1. PICK p, c, t : p = <<id, one>> /\ c = <<x>> /\ t = <<id, one, x>>
        OBVIOUS
      <3>2. p \in Seq(S) /\ c \in Seq(S)
        BY <2>2, <3>1
      <3>3. p \o (c \o V) = (p \o c) \o V
        BY <2>1, <3>2, ConcatAssociative
      <3>4. <<id, one>> \o <<x>> = <<id, one, x>>
        BY <2>2, Three, Zenon
      <3>5. QED
        BY <3>1, <3>3, <3>4
    <2>4. QED
      BY <1>1, <1>7, <1>9, <2>3 DEF TransactionTypeRequest
  <1>12. QED
    BY <1>1, <1>3, <1>7, <1>10, <1>11, GotFields

LEMMA ResponseReceived ==
  ASSUME NEW r, IsStream(r), r.offset = 0, NEW id \in Byte, NEW x \in Byte, NEW two,
         two = TransactionTypeResponse, Located(r.data, 0, TransactionBytes(id, two, x))
  PROVE  Takes4(TransactionReceive(r), "transaction", "Valid", <<id, two, x>>, 6)
  <1>1. two \in Byte
    BY SomeBytes DEF TransactionTypeResponse
  <1>2. /\ transactionProtocolUnpackHeader(r)
             = [stream |-> At(r, 5, two), result |-> "Valid", out |-> <<id, two>>]
        /\ bitstream_read_uint8(At(r, 5, two)) = At(r, 6, x)
    BY <1>1, TransactionRead
  <1>3. PICK h, t : h = transactionProtocolUnpackHeader(r) /\ t = At(r, 6, x)
    OBVIOUS
  <1>4. h.stream = At(r, 5, two) /\ h.result = "Valid" /\ h.out = <<id, two>> /\ h.out[2] = two
    BY <1>2, <1>3
  <1>5. t.val = x /\ t.offset = 6
    BY <1>3, AtFields
  <1>6. PICK q : q = transactionProtocolUnpackResponse(h.stream)
    OBVIOUS
  <1>7. q.stream = t /\ q.result = "Valid"
    BY <1>2, <1>3, <1>4, <1>6 DEF transactionProtocolUnpackResponse, Valid
  <1>8. TransactionReceive(r) = Got("transaction", q.stream, q.result, Append(h.out, q.stream.val))
    BY <1>3, <1>4, <1>6 DEF TransactionReceive, GotResponse
  <1>9. Append(h.out, q.stream.val) = <<id, two, x>>
    <2>1. Append(<<id, two>>, x) = <<id, two, x>>
      BY <1>1, Three, Zenon
    <2>2. QED
      BY <1>4, <1>5, <1>7, <2>1
  <1>10. QED
    BY <1>5, <1>7, <1>8, <1>9, GotFields

-----------------------------------------------------------------------------
(* Packets of another protocol *)

LEMMA NotTransaction ==
  ASSUME NEW r, protocolUnpackHeader(r, ProtocolTypeTransaction).result = "Invalid"
  PROVE  TransactionReceive(r).by = "none"
  <1>1. PICK h : h = transactionProtocolUnpackHeader(r)
    OBVIOUS
  <1>2. h.result = "Invalid"
    BY <1>1 DEF transactionProtocolUnpackHeader
  <1>3. TransactionReceive(r) = Got("none", h.stream, h.result, << >>)
    BY <1>1, <1>2 DEF TransactionReceive, Refused
  <1>4. QED
    BY <1>3 DEF Got

LEMMA NotStream ==
  ASSUME NEW r, protocolUnpackHeader(r, ProtocolTypeStream).result = "Invalid"
  PROVE  StreamReceive(r).by = "none"
  <1>1. PICK h : h = streamProtocolUnpackHeader(r)
    OBVIOUS
  <1>2. h.result = "Invalid"
    BY <1>1 DEF streamProtocolUnpackHeader
  <1>3. StreamReceive(r) = Got("none", h.stream, h.result, << >>)
    BY <1>1, <1>2 DEF StreamReceive, Refused
  <1>4. QED
    BY <1>3 DEF Got

LEMMA TransactionNotStream ==
  ASSUME NEW r, IsStream(r), r.offset = 0, Located(r.data, 0, HeaderBytes(1))
  PROVE  StreamReceive(r).by = "none"
  <1>1. PICK one : one = 1 /\ one \in Byte
    BY SomeBytes
  <1>2. one # ProtocolTypeStream
    BY <1>1 DEF ProtocolTypeStream
  <1>3. one \in Byte /\ Located(r.data, r.offset, HeaderBytes(one))
    BY <1>1
  <1>4. protocolUnpackHeader(r, ProtocolTypeStream).result = "Invalid"
    BY <1>2, <1>3, HeaderRead
  <1>5. QED
    BY <1>4, NotStream

LEMMA StreamNotTransaction ==
  ASSUME NEW r, IsStream(r), r.offset = 0, Located(r.data, 0, HeaderBytes(5))
  PROVE  TransactionReceive(r).by = "none"
  <1>1. PICK five : five = 5 /\ five \in Byte
    BY SomeBytes
  <1>2. five # ProtocolTypeTransaction
    BY <1>1 DEF ProtocolTypeTransaction
  <1>3. five \in Byte /\ Located(r.data, r.offset, HeaderBytes(five))
    BY <1>1
  <1>4. protocolUnpackHeader(r, ProtocolTypeTransaction).result = "Invalid"
    BY <1>2, <1>3, HeaderRead
  <1>5. QED
    BY <1>4, NotTransaction

LEMMA NeitherProtocol ==
  ASSUME NEW r, IsStream(r), r.offset = 0, NEW x \in Byte, Located(r.data, 0, <<x>>), x # \hA2
  PROVE  TransactionReceive(r).by = "none" /\ StreamReceive(r).by = "none"
  <1>1. Located(r.data, r.offset, <<x>>)
    OBVIOUS
  <1>2. /\ protocolUnpackHeader(r, ProtocolTypeTransaction).result = "Invalid"
        /\ protocolUnpackHeader(r, ProtocolTypeStream).result = "Invalid"
    BY <1>1, HeaderOther
  <1>3. QED
    BY <1>2, NotTransaction, NotStream

\* Reads change the offset and what was read.
LEMMA ReadsAt ==
  ASSUME NEW r, NEW s, NEW o, NEW v, s = At(r, o, v), NEW n
  PROVE  /\ \E p, w : ReadWord(s, n) = At(r, p, w)
         /\ \E p, w : bitstream_read_uint16(s) = At(r, p, w)
         /\ \E p, w : bitstream_read_bytes(s, n) = At(r, p, w)
         /\ bitstream_reset(s) = At(r, 0, v)
  <1>2. s.offset = o /\ s.val = v /\ \A p, w : At(s, p, w) = At(r, p, w)
    BY AtFields
  <1>3. s = At(s, s.offset, s.val)
    BY <1>2
  <1>4. \A k, w : Take(s, k, w) = At(r, o + k, w)
    BY <1>2, <1>3, TakeAt
  <1>5. \E p, w : ReadWord(s, n) = At(r, p, w)
    BY <1>4 DEF ReadWord
  <1>6. \E p, w : bitstream_read_uint16(s) = At(r, p, w)
    <2>1. PICK w : ReadWord(s, 2) = At(r, o + 2, w)
      BY <1>4 DEF ReadWord
    <2>2. PICK t : t = ReadWord(s, 2)
      OBVIOUS
    <2>3. t.val = w /\ t.offset = o + 2 /\ \A p, z : At(t, p, z) = At(r, p, z)
      BY <2>1, <2>2, AtFields
    <2>4. t = At(t, t.offset, t.val)
      BY <2>1, <2>2, <2>3
    <2>5. PICK z : z = Number16(t.val)
      OBVIOUS
    <2>6. [t EXCEPT !.val = z] = At(t, t.offset, z)
      BY <2>4, SetVal
    <2>7. bitstream_read_uint16(s) = [t EXCEPT !.val = z]
      BY <2>2, <2>5 DEF bitstream_read_uint16
    <2>8. QED
      BY <2>3, <2>6, <2>7
  <1>7. \E p, w : bitstream_read_bytes(s, n) = At(r, p, w)
    <2>1. [s EXCEPT !.val = Unset] = At(r, o, Unset)
      <3>1. PICK z : z = Unset
        OBVIOUS
      <3>2. [s EXCEPT !.val = z] = At(s, s.offset, z)
        BY <1>3, SetVal
      <3>3. QED
        BY <1>2, <3>1, <3>2
    <2>2. PICK w : w = ArrayOrder(s, Peek(s, n))
      OBVIOUS
    <2>3. bitstream_read_bytes(s, n) = IF Fits(s, n) THEN Take(s, n, w) ELSE [s EXCEPT !.val = Unset]
      BY <2>2 DEF bitstream_read_bytes
    <2>4. CASE Fits(s, n)
      BY <1>4, <2>3, <2>4
    <2>5. CASE ~Fits(s, n)
      BY <2>1, <2>3, <2>5
    <2>6. QED
      BY <2>4, <2>5
  <1>8. bitstream_reset(s) = At(r, 0, v)
    <2>1. PICK z : z = 0
      OBVIOUS
    <2>2. [s EXCEPT !.offset = z] = At(s, z, s.val)
      BY <1>3, SetOffset
    <2>3. QED
      BY <1>2, <2>1, <2>2 DEF bitstream_reset
  <1>9. QED
    BY <1>5, <1>6, <1>7, <1>8

LEMMA StunHeaderShape ==
  ASSUME NEW r, IsStream(r), NEW h, h = stunProtocolUnpackHeader(r),
         NEW t, t = bitstream_read_uint16(r)
  PROVE  /\ \E p, w : h.stream = At(r, p, w)
         /\ \/ h.result = "Invalid"
            \/ h.result = "Valid" /\ h.msgType = SplitType(t.val)
  <1>1. r = At(r, r.offset, r.val)
    BY DEF IsStream
  <1>2. PICK p1, w1 : t = At(r, p1, w1)
    BY <1>1, ReadsAt
  <1>3. PICK u : u = bitstream_read_uint16(t)
    OBVIOUS
  <1>4. PICK p2, w2 : u = At(r, p2, w2)
    BY <1>2, <1>3, ReadsAt
  <1>5. PICK c : c = bitstream_read_uint32(u)
    OBVIOUS
  <1>6. PICK p3, w3 : c = At(r, p3, w3)
    BY <1>4, <1>5, ReadsAt DEF bitstream_read_uint32
  <1>7. PICK i : i = bitstream_read_bytes(c, kStunTransactionIdLen)
    OBVIOUS
  <1>8. PICK p4, w4 : i = At(r, p4, w4)
    BY <1>6, <1>7, ReadsAt
  <1>9. h = IF c.val # kStunProtocolMagicCookie THEN [stream |-> c, result |-> "Invalid"]
            ELSE [stream |-> i, result |-> "Valid", msgType |-> SplitType(t.val),
                  msgClass |-> SplitClass(t.val), length |-> u.val, transactionId |-> i.val]
    BY <1>3, <1>5, <1>7 DEF stunProtocolUnpackHeader
  <1>10. CASE c.val # kStunProtocolMagicCookie
    BY <1>6, <1>9, <1>10
  <1>11. CASE c.val = kStunProtocolMagicCookie
    <2>1. h.stream = i /\ h.result = "Valid" /\ h.msgType = SplitType(t.val)
      BY <1>9, <1>11
    <2>2. QED
      BY <1>8, <2>1
  <1>12. QED
    BY <1>10, <1>11

\* What is not a binding response is left to the transactions.
LEMMA StunForwards ==
  ASSUME NEW r, IsStream(r), bitstream_read_uint16(r).val \in Nat,
         SplitType(bitstream_read_uint16(r).val) # 1
  PROVE  \E w : StunReceive(r) = TransactionReceive(At(r, 0, w))
  <1>1. PICK h, t : h = stunProtocolUnpackHeader(r) /\ t = bitstream_read_uint16(r)
    OBVIOUS
  <1>a. /\ \E p, w : h.stream = At(r, p, w)
        /\ \/ h.result = "Invalid"
           \/ h.result = "Valid" /\ h.msgType = SplitType(t.val)
    BY <1>1, StunHeaderShape
  <1>2. PICK p, w : h.stream = At(r, p, w)
    BY <1>a
  <1>3. h.result = "Invalid" \/ (h.result = "Valid" /\ h.msgType = SplitType(t.val))
    BY <1>a
  <1>4. PICK q : q = stunProtocolUnpackBindingResponse(r)
    OBVIOUS
  <1>5. q.result # "Valid" /\ q.stream = h.stream
    <2>1. CASE h.result = "Invalid"
      <3>1. q = [stream |-> h.stream, result |-> "Invalid", out |-> << >>]
        BY <1>1, <1>4, <2>1 DEF stunProtocolUnpackBindingResponse
      <3>2. QED
        BY <3>1
    <2>2. CASE h.result # "Invalid"
      <3>1. h.msgType # StunMsgTypeBinding
        BY <1>1, <1>3, <2>2 DEF StunMsgTypeBinding
      <3>2. q = [stream |-> h.stream, result |-> "Unexpected", out |-> << >>]
        BY <1>1, <1>4, <2>2, <3>1 DEF stunProtocolUnpackBindingResponse
      <3>3. QED
        BY <3>2
    <2>3. QED
      BY <2>1, <2>2
  <1>6. StunReceive(r) = TransactionReceive(bitstream_reset(h.stream))
    BY <1>4, <1>5 DEF StunReceive
  <1>7. bitstream_reset(h.stream) = At(r, 0, w)
    <2>1. PICK s : s = h.stream
      OBVIOUS
    <2>2. s = At(r, p, w)
      BY <1>2, <2>1
    <2>3. bitstream_reset(s) = At(r, 0, w)
      BY <2>2, ReadsAt
    <2>4. QED
      BY <2>1, <2>3
  <1>8. QED
    BY <1>6, <1>7

LEMMA TwoBytes ==
  ASSUME NEW E \in Seq(Byte), NEW F \in Seq(Byte), Len(E) = 2, Len(F) = 2, E[1] = F[1], E[2] = F[2]
  PROVE  E = F
  <1>1. \A i \in 1..2 : i = 1 \/ i = 2
    OBVIOUS
  <1>2. \A i \in 1..2 : E[i] = F[i]
    BY <1>1
  <1>3. QED
    BY <1>2, SeqEqual

Pair(x, y) == <<x, y>>
Joined(x, y) == <<x>> \o <<y>>

LEMMA WOPair ==
  ASSUME NEW l \in BOOLEAN, NEW x \in Byte, NEW y \in Byte
  PROVE  /\ WO(l, Pair(x, y)) \in Seq(Byte) /\ Len(WO(l, Pair(x, y))) = 2
         /\ WO(l, Pair(x, y))[1] = (IF l THEN x ELSE y)
         /\ WO(l, Pair(x, y))[2] = (IF l THEN y ELSE x)
         /\ WO(l, Pair(x, y)) = IF l THEN Joined(x, y) ELSE Joined(y, x)
  <1>1. PICK b : b = <<x, y>>
    OBVIOUS
  <1>2. b \in Seq(Byte) /\ Len(b) = 2 /\ b[1] = x /\ b[2] = y
    BY <1>1, ByteSeqs
  <1>3. PICK c : c = WO(l, b)
    OBVIOUS
  <1>4. c \in Seq(Byte) /\ Len(c) = 2
    <2>1. b \in Seq(Byte)
      BY <1>2
    <2>2. c \in Seq(Byte) /\ Len(c) = Len(b)
      BY <1>3, <2>1, OrderFacts
    <2>3. QED
      BY <1>2, <2>2
  <1>5. c[1] = (IF l THEN x ELSE y) /\ c[2] = (IF l THEN y ELSE x)
    <2>1. CASE l
      BY <1>2, <1>3, <2>1 DEF WO
    <2>2. CASE ~l
      <3>1. c = [i \in 1..2 |-> b[(2 - i) + 1]]
        BY <1>2, <1>3, <2>2 DEF WO, Reverse
      <3>2. QED
        BY <1>2, <2>2, <3>1
    <2>3. QED
      BY <2>1, <2>2
  <1>6. ASSUME NEW p \in Byte, NEW q \in Byte, c[1] = p, c[2] = q PROVE c = <<p>> \o <<q>>
    <2>1. PICK e, f : e = <<p>> /\ f = <<q>>
      OBVIOUS
    <2>2. e \in Seq(Byte) /\ f \in Seq(Byte) /\ Len(e) = 1 /\ Len(f) = 1 /\ e[1] = p /\ f[1] = q
      BY <2>1, ByteSeqs
    <2>3. PICK g : g = e \o f
      OBVIOUS
    <2>4. e \in Seq(Byte) /\ f \in Seq(Byte)
      BY <2>2
    <2>5. /\ g \in Seq(Byte) /\ Len(g) = Len(e) + Len(f)
          /\ \A i \in 1..Len(e) : g[i] = e[i]
          /\ \A i \in 1..Len(f) : g[Len(e) + i] = f[i]
      BY <2>3, <2>4, Cat
    <2>6. Len(g) = 2 /\ g[1] = p /\ g[2] = q
      BY <2>2, <2>5
    <2>7. c = g
      BY <1>4, <1>6, <2>5, <2>6, TwoBytes
    <2>8. QED
      BY <2>1, <2>3, <2>7
  <1>7. c = IF l THEN <<x>> \o <<y>> ELSE <<y>> \o <<x>>
    <2>1. CASE l
      <3>1. c[1] = x /\ c[2] = y
        BY <1>5, <2>1
      <3>2. QED
        BY <1>6, <2>1, <3>1
    <2>2. CASE ~l
      <3>1. c[1] = y /\ c[2] = x
        BY <1>5, <2>2
      <3>2. QED
        BY <1>6, <2>2, <3>1
    <2>3. QED
      BY <2>1, <2>2
  <1>8. QED
    BY <1>1, <1>3, <1>4, <1>5, <1>7 DEF Pair, Joined

LEMMA WOJoined ==
  ASSUME NEW l \in BOOLEAN, NEW x \in Byte, NEW y \in Byte
  PROVE  WO(l, Pair(x, y)) = IF l THEN Joined(x, y) ELSE Joined(y, x)
  BY WOPair

\* The type that STUN reads in a header of the other protocols is not its own.
LEMMA HeaderForwards ==
  ASSUME NEW r, IsStream(r), r.offset = 0, NEW x \in Byte, Located(r.data, 0, HeaderBytes(x))
  PROVE  \E w : StunReceive(r) = TransactionReceive(At(r, 0, w))
  <1>1. PICK l \in BOOLEAN : l = r.little
    BY StreamFields
  <1>2. PICK y, z : y = \hA2 /\ z = 1 /\ y \in Byte /\ z \in Byte
    BY SomeBytes
  <1>3. PICK n \in Uint16 : /\ n = (IF l THEN 41473 ELSE 418)
                            /\ Bytes16(n) = IF l THEN <<y, z>> ELSE <<z, y>>
    <2>1. Bytes16(41473) = <<162, 1>> /\ Bytes16(418) = <<1, 162>>
      BY DEF Bytes16
    <2>2. 41473 \in Uint16 /\ 418 \in Uint16
      BY DEF Uint16
    <2>3. QED
      BY <1>2, <2>1, <2>2
  <1>4. WO(l, Bytes16(n)) = <<y>> \o <<z>>
    <2>1. y \in Byte /\ z \in Byte
      BY <1>2
    <2>a. /\ WO(l, <<y, z>>) = IF l THEN <<y>> \o <<z>> ELSE <<z>> \o <<y>>
          /\ WO(l, <<z, y>>) = IF l THEN <<z>> \o <<y>> ELSE <<y>> \o <<z>>
      <3>1. /\ WO(l, Pair(y, z)) = IF l THEN Joined(y, z) ELSE Joined(z, y)
            /\ WO(l, Pair(z, y)) = IF l THEN Joined(z, y) ELSE Joined(y, z)
        BY <2>1, WOJoined
      <3>2. QED
        BY <3>1 DEF Pair, Joined
    <2>b. Bytes16(n) = IF l THEN <<y, z>> ELSE <<z, y>>
      BY <1>3
    <2>2. CASE l
      BY <2>a, <2>b, <2>2
    <2>3. CASE ~l
      BY <2>a, <2>b, <2>3
    <2>4. QED
      BY <2>2, <2>3
  <1>5. Located(r.data, 0, <<y>> \o <<z>>)
    <2>1. PICK e, f : e = <<\hA2>> \o <<1>> /\ f = <<x>>
      OBVIOUS
    <2>2. e \in Seq(Byte) /\ f \in Seq(Byte) /\ Len(r.data) \in Nat /\ 0 \in Nat
      BY <2>1, HeaderType, ByteSeqs, StreamFields
    <2>3. Located(r.data, 0, e \o f)
      BY <2>1 DEF HeaderBytes
    <2>4. Located(r.data, 0, e)
      BY <2>2, <2>3, LocatedCat
    <2>5. QED
      BY <1>2, <2>1, <2>4
  <1>6. Located(r.data, r.offset, WO(r.little, Bytes16(n)))
    BY <1>1, <1>4, <1>5
  <1>7. bitstream_read_uint16(r) = At(r, r.offset + 2, n)
    BY <1>6, Read16
  <1>8. bitstream_read_uint16(r).val = n
    BY <1>7, AtFields
  <1>9. SplitType(n) # 1 /\ n \in Nat
    <2>1. SplitType(41473) = 2177 /\ SplitType(418) = 82
      BY DEF SplitType, Bits
    <2>2. n \in Nat
      BY Uint16Nat
    <2>3. QED
      BY <1>3, <2>1, <2>2
  <1>10. bitstream_read_uint16(r).val \in Nat /\ SplitType(bitstream_read_uint16(r).val) # 1
    BY <1>8, <1>9
  <1>11. QED
    BY <1>10, StunForwards

-----------------------------------------------------------------------------
(* Streams *)

\* The data of an update is never longer than an object may be.
LEMMA UpdateFacts ==
  ASSUME NEW m, m.parts \in Seq(Seq(Byte)), m.tag \in Word(8)
  PROVE  /\ UpdateObject(m).tag = m.tag /\ UpdateObject(m).data \in Seq(Byte)
         /\ Len(UpdateObject(m).data) <= kNetPacketMaxLen - 25
  <1>1. PICK P, n, c : P = m.parts /\ n = Len(P) /\ c = m.tag
    OBVIOUS
  <1>2. n \in Nat /\ \A k \in 1..n : P[k] \in Seq(Byte)
    BY <1>1, LenProperties, ElementOfSeq
  <1> DEFINE S == {o \in [data : Seq(Byte), tag : {c}] : Len(o.data) <= kNetPacketMaxLen - 25}
             T == [k \in 1..n |-> [o \in S |-> streamObjectCopyData(o, P[k])]]
             a == [streamObjectSetup EXCEPT !.tag = c]
             Steps(g) == [k \in 0..n |-> IF k = 0 THEN a ELSE streamObjectCopyData(g[k - 1], P[k])]
  <1>3. kStreamObjectDataMaxLength = kNetPacketMaxLen - 25 /\ kNetPacketMaxLen - 25 \in Nat
    BY RoomAssumption DEF kStreamObjectDataMaxLength, kProtocolMaxLength
  <1>4. a = [data |-> << >>, tag |-> c]
    BY DEF streamObjectSetup
  <1>5. a \in S
    <2>1. PICK z : z = << >>
      OBVIOUS
    <2>2. z \in Seq(Byte) /\ Len(z) = 0
      BY <2>1
    <2>3. a = [data |-> z, tag |-> c] /\ Len(z) <= kNetPacketMaxLen - 25
      BY <1>3, <1>4, <2>1, <2>2
    <2>4. a \in [data : Seq(Byte), tag : {c}] /\ a.data = z
      BY <2>2, <2>3
    <2>5. QED
      BY <2>3, <2>4
  <1>6. ASSUME NEW o \in S, NEW d \in Seq(Byte)
        PROVE  streamObjectCopyData(o, d) \in S
    <2>1. CASE Len(o.data) + Len(d) <= kStreamObjectDataMaxLength
      <3>1. PICK b : b = o.data
        OBVIOUS
      <3>2. b \in Seq(Byte)
        BY <3>1
      <3>3. b \o d \in Seq(Byte) /\ Len(b \o d) = Len(b) + Len(d)
        BY <3>2, Cat
      <3>4. o = [data |-> b, tag |-> c]
        BY <3>1
      <3>5. PICK e : e = b \o d
        OBVIOUS
      <3>6. [o EXCEPT !.data = e] = [data |-> e, tag |-> c]
        BY <3>4
      <3>7. streamObjectCopyData(o, d) = [o EXCEPT !.data = e]
        BY <2>1, <3>1, <3>5 DEF streamObjectCopyData
      <3>8. e \in Seq(Byte) /\ Len(e) <= kNetPacketMaxLen - 25
        BY <1>3, <2>1, <3>1, <3>3, <3>5
      <3>9. QED
        BY <3>6, <3>7, <3>8
    <2>2. CASE ~(Len(o.data) + Len(d) <= kStreamObjectDataMaxLength)
      BY <2>2 DEF streamObjectCopyData
    <2>3. QED
      BY <2>1, <2>2
  <1>7. \A o \in S : o.tag = c /\ o.data \in Seq(Byte) /\ Len(o.data) <= kNetPacketMaxLen - 25
    OBVIOUS
  <1> HIDE DEF S, a
  <1>8. \A k \in 1..n : \A o \in S : streamObjectCopyData(o, P[k]) \in S
    BY <1>2, <1>6
  <1>9. /\ T \in [1..n -> [S -> S]]
        /\ \A k \in 1..n : \A o \in S : T[k][o] = streamObjectCopyData(o, P[k])
    BY <1>8
  <1> HIDE DEF T
  <1>10. PICK f : Takes(f, T, n, S, a)
    <2>1. IsSteps(T, n, S)
      BY <1>9 DEF IsSteps
    <2>2. QED
      BY <1>2, <1>5, <2>1, StepsExist, Zenon
  <1>11. f = Steps(f)
    <2>1. \A k \in 1..n : k - 1 \in 0..n /\ f[k - 1] \in S
      <3>1. \A k \in 1..n : k - 1 \in 0..n
        BY <1>2
      <3>2. QED
        BY <1>10, <3>1 DEF Takes
    <2>2. \A k \in 1..n : f[k] = streamObjectCopyData(f[k - 1], P[k])
      BY <1>9, <1>10, <2>1 DEF Takes
    <2>3. \A k \in 0..n : f[k] = IF k = 0 THEN a ELSE streamObjectCopyData(f[k - 1], P[k])
      BY <1>10, <2>2 DEF Takes
    <2>4. f = [k \in 0..n |-> f[k]]
      BY <1>10 DEF Takes
    <2>5. QED
      BY <2>3, <2>4
  <1>12. PICK g : g = (CHOOSE h : h = Steps(h))
    OBVIOUS
  <1>13. g = Steps(g)
    <2> HIDE DEF Steps
    <2>1. QED
      BY <1>11, <1>12
  <1>14. UpdateObject(m) = g[n]
    BY <1>1, <1>12 DEF UpdateObject, a
  <1>15. g[0] = a /\ \A k \in 1..n : g[k] = streamObjectCopyData(g[k - 1], P[k])
    BY <1>2, <1>13
  <1>16. \A k \in 0..n : k \in {j \in 0..n : g[j] \in S}
    <2>1. \A k \in 1..n : k - 1 \in {j \in 0..n : g[j] \in S} => k \in {j \in 0..n : g[j] \in S}
      BY <1>8, <1>15
    <2>2. 0 \in {j \in 0..n : g[j] \in S}
      BY <1>2, <1>5, <1>15
    <2>3. QED
      BY <1>2, <2>1, <2>2, UpTo
  <1>17. g[n] \in S
    BY <1>2, <1>16
  <1>18. QED
    BY <1>1, <1>7, <1>14, <1>17

LEMMA Grow ==
  ASSUME NEW E \in Seq(Byte), NEW F \in Seq(Byte)
  PROVE  E \o F \in Seq(Byte) /\ Len(E \o F) = Len(E) + Len(F)
  BY Cat

\* One more word, or the bytes of an array
LEMMA PutsWord ==
  ASSUME NEW s, IsStream(s), NEW t, NEW E \in Seq(Byte), Puts(s, t, E), NEW b \in Seq(Byte)
  PROVE  /\ Puts(s, WriteWord(t, b), E \o WO(s.little, b))
         /\ Puts(s, bitstream_write_bytes(t, b), E \o AO(s.little, b))
  <1>1. IsStream(t) /\ t.little = s.little /\ s.little \in BOOLEAN
    BY PutsStream, StreamFields
  <1>2. WO(s.little, b) \in Seq(Byte) /\ AO(s.little, b) \in Seq(Byte)
    BY <1>1, OrderFacts
  <1>3. Puts(t, WriteWord(t, b), WO(s.little, b)) /\ Puts(t, bitstream_write_bytes(t, b), AO(s.little, b))
    BY <1>1, WritesWord, WriteBytes
  <1>4. QED
    BY <1>2, <1>3, PutsTwice

S1(l, a) == HeaderBytes(5) \o WO(l, a)
S2(l, a, b) == S1(l, a) \o WO(l, b)
S3(l, a, b, c) == S2(l, a, b) \o WO(l, c)
S4(l, a, b, c, tag) == S3(l, a, b, c) \o WO(l, tag)
S5(l, a, b, c, tag, n) == S4(l, a, b, c, tag) \o WO(l, Bytes16(n))
StreamBytes(l, a, b, c, tag, n, d) == S5(l, a, b, c, tag, n) \o AO(l, d)

LEMMA StreamType ==
  ASSUME NEW l \in BOOLEAN, NEW a \in Word(4), NEW b \in Word(4), NEW c \in Word(4),
         NEW tag \in Word(8), NEW n \in Uint16, NEW d \in Seq(Byte), n = Len(d)
  PROVE  /\ HeaderBytes(5) \in Seq(Byte) /\ Len(HeaderBytes(5)) = 3
         /\ a \in Seq(Byte) /\ b \in Seq(Byte) /\ c \in Seq(Byte) /\ tag \in Seq(Byte)
         /\ Bytes16(n) \in Seq(Byte)
         /\ WO(l, a) \in Seq(Byte) /\ WO(l, b) \in Seq(Byte) /\ WO(l, c) \in Seq(Byte)
         /\ WO(l, tag) \in Seq(Byte) /\ WO(l, Bytes16(n)) \in Seq(Byte) /\ AO(l, d) \in Seq(Byte)
         /\ S1(l, a) \in Seq(Byte) /\ Len(S1(l, a)) = 7
         /\ S2(l, a, b) \in Seq(Byte) /\ Len(S2(l, a, b)) = 11
         /\ S3(l, a, b, c) \in Seq(Byte) /\ Len(S3(l, a, b, c)) = 15
         /\ S4(l, a, b, c, tag) \in Seq(Byte) /\ Len(S4(l, a, b, c, tag)) = 23
         /\ S5(l, a, b, c, tag, n) \in Seq(Byte) /\ Len(S5(l, a, b, c, tag, n)) = 25
         /\ StreamBytes(l, a, b, c, tag, n, d) \in Seq(Byte)
         /\ Len(StreamBytes(l, a, b, c, tag, n, d)) = 25 + n
  <1>1. PICK h : h = HeaderBytes(5)
    OBVIOUS
  <1>2. h \in Seq(Byte) /\ Len(h) = 3
    <2>1. PICK five : five = 5 /\ five \in Byte
      BY SomeBytes
    <2>2. five \in Byte
      BY <2>1
    <2>3. HeaderBytes(five) \in Seq(Byte) /\ Len(HeaderBytes(five)) = 3
      BY <2>2, HeaderType
    <2>4. QED
      BY <1>1, <2>1, <2>3
  <1>3. /\ a \in Seq(Byte) /\ Len(a) = 4 /\ b \in Seq(Byte) /\ Len(b) = 4
        /\ c \in Seq(Byte) /\ Len(c) = 4 /\ tag \in Seq(Byte) /\ Len(tag) = 8
    BY Words
  <1>4. Bytes16(n) \in Seq(Byte) /\ Len(Bytes16(n)) = 2
    BY Pair16
  <1>5. PICK A, B, C, D, F, G : /\ A = WO(l, a) /\ B = WO(l, b) /\ C = WO(l, c) /\ D = WO(l, tag)
                                /\ F = WO(l, Bytes16(n)) /\ G = AO(l, d)
    OBVIOUS
  <1>6. /\ A \in Seq(Byte) /\ Len(A) = Len(a) /\ B \in Seq(Byte) /\ Len(B) = Len(b)
        /\ C \in Seq(Byte) /\ Len(C) = Len(c) /\ D \in Seq(Byte) /\ Len(D) = Len(tag)
    <2>1. a \in Seq(Byte) /\ b \in Seq(Byte) /\ c \in Seq(Byte) /\ tag \in Seq(Byte)
      BY <1>3
    <2>2. QED
      BY <1>5, <2>1, OrderFacts
  <1>7. F \in Seq(Byte) /\ Len(F) = 2 /\ G \in Seq(Byte) /\ Len(G) = n
    <2>1. Bytes16(n) \in Seq(Byte)
      BY <1>4
    <2>2. F \in Seq(Byte) /\ Len(F) = Len(Bytes16(n)) /\ G \in Seq(Byte) /\ Len(G) = Len(d)
      BY <1>5, <2>1, OrderFacts
    <2>3. QED
      BY <1>4, <2>2
  <1>8. /\ A \in Seq(Byte) /\ B \in Seq(Byte) /\ C \in Seq(Byte) /\ D \in Seq(Byte)
        /\ F \in Seq(Byte) /\ G \in Seq(Byte) /\ h \in Seq(Byte)
    BY <1>2, <1>6, <1>7
  <1>9. PICK e1 : e1 = h \o A
    OBVIOUS
  <1>10. e1 \in Seq(Byte) /\ Len(e1) = Len(h) + Len(A)
    BY <1>8, <1>9, Grow
  <1>11. PICK e2 : e2 = e1 \o B
    OBVIOUS
  <1>12. e2 \in Seq(Byte) /\ Len(e2) = Len(e1) + Len(B)
    <2>1. e1 \in Seq(Byte)
      BY <1>10
    <2>2. QED
      BY <1>8, <1>11, <2>1, Grow
  <1>13. PICK e3 : e3 = e2 \o C
    OBVIOUS
  <1>14. e3 \in Seq(Byte) /\ Len(e3) = Len(e2) + Len(C)
    <2>1. e2 \in Seq(Byte)
      BY <1>12
    <2>2. QED
      BY <1>8, <1>13, <2>1, Grow
  <1>15. PICK e4 : e4 = e3 \o D
    OBVIOUS
  <1>16. e4 \in Seq(Byte) /\ Len(e4) = Len(e3) + Len(D)
    <2>1. e3 \in Seq(Byte)
      BY <1>14
    <2>2. QED
      BY <1>8, <1>15, <2>1, Grow
  <1>17. PICK e5 : e5 = e4 \o F
    OBVIOUS
  <1>18. e5 \in Seq(Byte) /\ Len(e5) = Len(e4) + Len(F)
    <2>1. e4 \in Seq(Byte)
      BY <1>16
    <2>2. QED
      BY <1>8, <1>17, <2>1, Grow
  <1>19. PICK e6 : e6 = e5 \o G
    OBVIOUS
  <1>20. e6 \in Seq(Byte) /\ Len(e6) = Len(e5) + Len(G)
    <2>1. e5 \in Seq(Byte)
      BY <1>18
    <2>2. QED
      BY <1>8, <1>19, <2>1, Grow
  <1>21. /\ S1(l, a) = e1 /\ S2(l, a, b) = e2 /\ S3(l, a, b, c) = e3 /\ S4(l, a, b, c, tag) = e4
         /\ S5(l, a, b, c, tag, n) = e5 /\ StreamBytes(l, a, b, c, tag, n, d) = e6
    BY <1>1, <1>5, <1>9, <1>11, <1>13, <1>15, <1>17, <1>19 DEF S1, S2, S3, S4, S5, StreamBytes
  <1>22. Len(e1) = 7
    BY <1>2, <1>3, <1>6, <1>10
  <1>23. Len(e2) = 11
    BY <1>3, <1>6, <1>12, <1>22
  <1>24. Len(e3) = 15
    BY <1>3, <1>6, <1>14, <1>23
  <1>25. Len(e4) = 23
    BY <1>3, <1>6, <1>16, <1>24
  <1>26. Len(e5) = 25
    BY <1>7, <1>18, <1>25
  <1>27. Len(e6) = 25 + n
    BY <1>7, <1>20, <1>26
  <1>28. QED
    BY <1>1, <1>2, <1>3, <1>4, <1>5, <1>8, <1>10, <1>12, <1>14, <1>16, <1>18, <1>20, <1>21,
       <1>22, <1>23, <1>24, <1>25, <1>26, <1>27

LEMMA StreamPuts ==
  ASSUME NEW s, IsStream(s), NEW l, l = s.little, NEW a \in Word(4), NEW b \in Word(4),
         NEW c \in Word(4), NEW tag \in Word(8), NEW n \in Uint16, NEW d \in Seq(Byte), n = Len(d),
         NEW object, object.tag = tag, object.data = d
  PROVE  Puts(s, streamProtocolPackData(streamProtocolPackHeader(s, a, b, c), object),
              StreamBytes(l, a, b, c, tag, n, d))
  <1>1. l \in BOOLEAN
    BY StreamFields
  <1>2. /\ HeaderBytes(5) \in Seq(Byte)
        /\ a \in Seq(Byte) /\ b \in Seq(Byte) /\ c \in Seq(Byte) /\ tag \in Seq(Byte)
        /\ Bytes16(n) \in Seq(Byte) /\ S1(l, a) \in Seq(Byte) /\ S2(l, a, b) \in Seq(Byte)
        /\ S3(l, a, b, c) \in Seq(Byte) /\ S4(l, a, b, c, tag) \in Seq(Byte)
        /\ S5(l, a, b, c, tag, n) \in Seq(Byte)
    BY <1>1, StreamType
  <1>3. PICK t : t = protocolPackHeader(s, ProtocolTypeStream)
    OBVIOUS
  <1>4. Puts(s, t, HeaderBytes(5))
    <2>1. PICK five : five = 5 /\ five \in Byte
      BY SomeBytes
    <2>2. five \in Byte
      BY <2>1
    <2>3. Puts(s, protocolPackHeader(s, five), HeaderBytes(five))
      BY <2>2, HeaderPuts
    <2>4. QED
      BY <1>3, <2>1, <2>3 DEF ProtocolTypeStream
  <1>5. PICK t1 : t1 = WriteWord(t, a)
    OBVIOUS
  <1>6. Puts(s, t1, S1(l, a))
    BY <1>2, <1>4, <1>5, PutsWord DEF S1
  <1>7. PICK t2 : t2 = WriteWord(t1, b)
    OBVIOUS
  <1>8. Puts(s, t2, S2(l, a, b))
    BY <1>2, <1>6, <1>7, PutsWord DEF S2
  <1>9. PICK t3 : t3 = WriteWord(t2, c)
    OBVIOUS
  <1>10. Puts(s, t3, S3(l, a, b, c))
    BY <1>2, <1>8, <1>9, PutsWord DEF S3
  <1>11. PICK t4 : t4 = WriteWord(t3, tag)
    OBVIOUS
  <1>12. Puts(s, t4, S4(l, a, b, c, tag))
    BY <1>2, <1>10, <1>11, PutsWord DEF S4
  <1>13. PICK t5 : t5 = WriteWord(t4, Bytes16(n))
    OBVIOUS
  <1>14. Puts(s, t5, S5(l, a, b, c, tag, n))
    BY <1>2, <1>12, <1>13, PutsWord DEF S5
  <1>15. PICK t6 : t6 = bitstream_write_bytes(t5, d)
    OBVIOUS
  <1>16. Puts(s, t6, StreamBytes(l, a, b, c, tag, n, d))
    BY <1>2, <1>14, <1>15, PutsWord DEF StreamBytes
  <1>17. streamProtocolPackHeader(s, a, b, c) = t3
    BY <1>3, <1>5, <1>7, <1>9 DEF streamProtocolPackHeader, bitstream_write_uint32
  <1>18. streamProtocolPackData(t3, object) = t6
    BY <1>11, <1>13, <1>15
       DEF streamProtocolPackData, bitstream_write_uint64, bitstream_write_uint16
  <1>19. QED
    BY <1>16, <1>17, <1>18

LEMMA Read16Here ==
  ASSUME NEW r, IsStream(r), NEW o, o \in Nat, NEW n \in Uint16, NEW p, p = o + 2, NEW v,
         Located(r.data, o, WO(r.little, Bytes16(n)))
  PROVE  bitstream_read_uint16(At(r, o, v)) = At(r, p, n) /\ p <= r.bound
  <1>1. PICK q : q = At(r, o, v)
    OBVIOUS
  <1>2. /\ q.data = r.data /\ q.offset = o /\ q.little = r.little /\ q.bound = r.bound
        /\ At(q, p, n) = At(r, p, n)
    BY <1>1, AtFields
  <1>3. r.little \in BOOLEAN /\ r.bound \in Nat
    BY StreamFields
  <1>4. Bytes16(n) \in Seq(Byte) /\ Len(Bytes16(n)) = 2
    BY Pair16
  <1>5. Len(WO(r.little, Bytes16(n))) = 2
    <2>1. Bytes16(n) \in Seq(Byte)
      BY <1>4
    <2>2. Len(WO(r.little, Bytes16(n))) = Len(Bytes16(n))
      BY <1>3, <2>1, OrderFacts
    <2>3. QED
      BY <1>4, <2>2
  <1>6. o + 2 <= r.bound
    BY <1>5, LocatedRoom
  <1>7. IsStream(q)
    <2>1. o \in 0..r.bound
      BY <1>3, <1>6
    <2>2. QED
      BY <1>1, <2>1, AtStream
  <1>8. Located(q.data, q.offset, WO(q.little, Bytes16(n)))
    BY <1>2
  <1>9. bitstream_read_uint16(q) = At(q, q.offset + 2, n)
    BY <1>7, <1>8, Read16
  <1>10. QED
    BY <1>1, <1>2, <1>6, <1>9

\* A word, the two bytes of a number or an array lies at o and ends before p.
WordLies(r, o, n, p, b) ==
  /\ IsStream(r) /\ o \in Nat /\ b \in Seq(Byte) /\ n = Len(b) /\ p = o + n
  /\ Located(r.data, o, WO(r.little, b))
PairLies(r, o, p, n) ==
  /\ IsStream(r) /\ o \in Nat /\ n \in Uint16 /\ p = o + 2
  /\ Located(r.data, o, WO(r.little, Bytes16(n)))
ArrayLies(r, o, n, p, b) ==
  /\ IsStream(r) /\ o \in Nat /\ b \in Seq(Byte) /\ n = Len(b) /\ p = o + n
  /\ Located(r.data, o, AO(r.little, b))

LEMMA WordRead ==
  ASSUME NEW r, NEW o, NEW n, NEW p, NEW b, WordLies(r, o, n, p, b), NEW v
  PROVE  ReadWord(At(r, o, v), n) = At(r, p, b) /\ p <= r.bound
  <1>1. /\ IsStream(r) /\ o \in Nat /\ b \in Seq(Byte) /\ n = Len(b) /\ p = o + n
        /\ Located(r.data, o, WO(r.little, b))
    BY DEF WordLies
  <1>2. PICK q : q = At(r, o, v)
    OBVIOUS
  <1>3. /\ q.data = r.data /\ q.offset = o /\ q.little = r.little /\ q.bound = r.bound
        /\ At(q, p, b) = At(r, p, b)
    BY <1>2, AtFields
  <1>4. r.little \in BOOLEAN /\ r.bound \in Nat /\ n \in Nat
    BY <1>1, StreamFields, LenProperties
  <1>5. Len(WO(r.little, b)) = n
    BY <1>1, <1>4, OrderFacts
  <1>6. o + n <= r.bound
    BY <1>1, <1>5, LocatedRoom
  <1>7. IsStream(q)
    <2>1. o \in 0..r.bound
      BY <1>1, <1>4, <1>6
    <2>2. QED
      BY <1>1, <1>2, <2>1, AtStream
  <1>8. b \in Seq(Byte) /\ Located(q.data, q.offset, WO(q.little, b))
    BY <1>1, <1>3
  <1>9. ReadWord(q, Len(b)) = At(q, q.offset + Len(b), b)
    BY <1>7, <1>8, ReadsWord
  <1>10. ReadWord(q, n) = At(q, p, b)
    BY <1>1, <1>3, <1>9
  <1>11. QED
    BY <1>1, <1>2, <1>3, <1>6, <1>10

LEMMA ArrayRead ==
  ASSUME NEW r, NEW o, NEW n, NEW p, NEW b, ArrayLies(r, o, n, p, b), NEW v
  PROVE  bitstream_read_bytes(At(r, o, v), n) = At(r, p, b) /\ p <= r.bound
  <1>1. /\ IsStream(r) /\ o \in Nat /\ b \in Seq(Byte) /\ n = Len(b) /\ p = o + n
        /\ Located(r.data, o, AO(r.little, b))
    BY DEF ArrayLies
  <1>2. PICK q : q = At(r, o, v)
    OBVIOUS
  <1>3. /\ q.data = r.data /\ q.offset = o /\ q.little = r.little /\ q.bound = r.bound
        /\ At(q, p, b) = At(r, p, b)
    BY <1>2, AtFields
  <1>4. r.little \in BOOLEAN /\ r.bound \in Nat /\ n \in Nat
    BY <1>1, StreamFields, LenProperties
  <1>5. Len(AO(r.little, b)) = n
    BY <1>1, <1>4, OrderFacts
  <1>6. o + n <= r.bound
    BY <1>1, <1>5, LocatedRoom
  <1>7. IsStream(q)
    <2>1. o \in 0..r.bound
      BY <1>1, <1>4, <1>6
    <2>2. QED
      BY <1>1, <1>2, <2>1, AtStream
  <1>8. b \in Seq(Byte) /\ Located(q.data, q.offset, AO(q.little, b))
    BY <1>1, <1>3
  <1>9. bitstream_read_bytes(q, Len(b)) = At(q, q.offset + Len(b), b)
    BY <1>7, <1>8, ReadBytes
  <1>10. bitstream_read_bytes(q, n) = At(q, p, b)
    BY <1>1, <1>3, <1>9
  <1>11. QED
    BY <1>1, <1>2, <1>3, <1>6, <1>10

LEMMA PairRead ==
  ASSUME NEW r, NEW o, NEW p, NEW n, PairLies(r, o, p, n), NEW v
  PROVE  bitstream_read_uint16(At(r, o, v)) = At(r, p, n) /\ p <= r.bound
  BY Read16Here DEF PairLies

\* The parts of a stream's packet
LEMMA StreamLocated ==
  ASSUME NEW D \in Seq(Byte), NEW l \in BOOLEAN, NEW a \in Word(4), NEW b \in Word(4),
         NEW c \in Word(4), NEW tag \in Word(8), NEW n \in Uint16, NEW d \in Seq(Byte), n = Len(d),
         Located(D, 0, StreamBytes(l, a, b, c, tag, n, d))
  PROVE  /\ Located(D, 0, HeaderBytes(5)) /\ Located(D, 3, WO(l, a)) /\ Located(D, 7, WO(l, b))
         /\ Located(D, 11, WO(l, c)) /\ Located(D, 15, WO(l, tag))
         /\ Located(D, 23, WO(l, Bytes16(n))) /\ Located(D, 25, AO(l, d))
  <1>1. PICK h, A, B, C, T, F, G : /\ h = HeaderBytes(5) /\ A = WO(l, a) /\ B = WO(l, b)
                                   /\ C = WO(l, c) /\ T = WO(l, tag)
                                   /\ F = WO(l, Bytes16(n)) /\ G = AO(l, d)
    OBVIOUS
  <1>2. PICK e1, e2, e3, e4, e5 : /\ e1 = S1(l, a) /\ e2 = S2(l, a, b) /\ e3 = S3(l, a, b, c)
                                  /\ e4 = S4(l, a, b, c, tag) /\ e5 = S5(l, a, b, c, tag, n)
    OBVIOUS
  <1>3. /\ h \in Seq(Byte) /\ A \in Seq(Byte) /\ B \in Seq(Byte) /\ C \in Seq(Byte)
        /\ T \in Seq(Byte) /\ F \in Seq(Byte) /\ G \in Seq(Byte) /\ Len(D) \in Nat /\ 0 \in Nat
        /\ e1 \in Seq(Byte) /\ e2 \in Seq(Byte) /\ e3 \in Seq(Byte) /\ e4 \in Seq(Byte)
        /\ e5 \in Seq(Byte)
    BY <1>1, <1>2, StreamType, LenProperties
  <1>4. /\ 0 + Len(h) = 3 /\ 0 + Len(e1) = 7 /\ 0 + Len(e2) = 11 /\ 0 + Len(e3) = 15
        /\ 0 + Len(e4) = 23 /\ 0 + Len(e5) = 25
    BY <1>1, <1>2, StreamType
  <1>5. Located(D, 0, e5 \o G)
    BY <1>1, <1>2 DEF StreamBytes
  <1>6. Located(D, 0, e5) /\ Located(D, 0 + Len(e5), G)
    BY <1>3, <1>5, LocatedCat
  <1>7. Located(D, 0, e4 \o F)
    BY <1>1, <1>2, <1>6 DEF S5
  <1>8. Located(D, 0, e4) /\ Located(D, 0 + Len(e4), F)
    BY <1>3, <1>7, LocatedCat
  <1>9. Located(D, 0, e3 \o T)
    BY <1>1, <1>2, <1>8 DEF S4
  <1>10. Located(D, 0, e3) /\ Located(D, 0 + Len(e3), T)
    BY <1>3, <1>9, LocatedCat
  <1>11. Located(D, 0, e2 \o C)
    BY <1>1, <1>2, <1>10 DEF S3
  <1>12. Located(D, 0, e2) /\ Located(D, 0 + Len(e2), C)
    BY <1>3, <1>11, LocatedCat
  <1>13. Located(D, 0, e1 \o B)
    BY <1>1, <1>2, <1>12 DEF S2
  <1>14. Located(D, 0, e1) /\ Located(D, 0 + Len(e1), B)
    BY <1>3, <1>13, LocatedCat
  <1>15. Located(D, 0, h \o A)
    BY <1>1, <1>2, <1>14 DEF S1
  <1>16. Located(D, 0, h) /\ Located(D, 0 + Len(h), A)
    BY <1>3, <1>15, LocatedCat
  <1>17. QED
    BY <1>1, <1>4, <1>6, <1>8, <1>10, <1>12, <1>14, <1>16

LEMMA Five ==
  ASSUME NEW a, NEW b, NEW c, NEW d, NEW e
  PROVE  <<a, b, c>> \o <<d, e>> = <<a, b, c, d, e>>
  <1>1. PICK S : a \in S /\ b \in S /\ c \in S /\ d \in S /\ e \in S
    <2>1. a \in {a, b, c, d, e} /\ b \in {a, b, c, d, e} /\ c \in {a, b, c, d, e}
          /\ d \in {a, b, c, d, e} /\ e \in {a, b, c, d, e}
      OBVIOUS
    <2>2. QED
      BY <2>1
  <1>2. PICK p, q, t : p = <<a, b, c>> /\ q = <<d, e>> /\ t = <<a, b, c, d, e>>
    OBVIOUS
  <1>3. /\ p \in Seq(S) /\ Len(p) = 3 /\ p[1] = a /\ p[2] = b /\ p[3] = c
        /\ q \in Seq(S) /\ Len(q) = 2 /\ q[1] = d /\ q[2] = e
        /\ t \in Seq(S) /\ Len(t) = 5 /\ t[1] = a /\ t[2] = b /\ t[3] = c /\ t[4] = d /\ t[5] = e
    BY <1>1, <1>2
  <1>4. PICK u : u = p \o q
    OBVIOUS
  <1>5. /\ u \in Seq(S) /\ Len(u) = Len(p) + Len(q)
        /\ \A i \in 1..(Len(p) + Len(q)) : u[i] = IF i <= Len(p) THEN p[i] ELSE q[i - Len(p)]
    <2>1. p \in Seq(S) /\ q \in Seq(S)
      BY <1>3
    <2>2. QED
      BY <1>4, <2>1, ConcatProperties
  <1>6. Len(u) = 5 /\ \A i \in 1..5 : u[i] = IF i <= 3 THEN p[i] ELSE q[i - 3]
    BY <1>3, <1>5
  <1>7. u[1] = p[1] /\ u[2] = p[2] /\ u[3] = p[3] /\ u[4] = q[1] /\ u[5] = q[2]
    BY <1>6
  <1>8. \A i \in 1..5 : u[i] = t[i]
    BY <1>3, <1>7
  <1>9. u = t
    BY <1>3, <1>5, <1>6, <1>8, SeqEqual
  <1>10. QED
    BY <1>2, <1>4, <1>9

LEMMA StreamRead ==
  ASSUME NEW r, IsStream(r), r.offset = 0, NEW a \in Word(4), NEW b \in Word(4),
         NEW c \in Word(4), NEW tag \in Word(8), NEW n \in Uint16, NEW d \in Seq(Byte), n = Len(d),
         Located(r.data, 0, StreamBytes(r.little, a, b, c, tag, n, d))
  PROVE  Takes4(StreamReceive(r), "stream", "Valid", <<a, b, c, tag, d>>, 25 + n)
  <1>1. PICK l : l = r.little
    OBVIOUS
  <1>2. l \in BOOLEAN /\ r.data \in Seq(Byte) /\ n \in Nat
    BY <1>1, StreamFields, Uint16Nat
  <1>3. /\ Located(r.data, 0, HeaderBytes(5)) /\ Located(r.data, 3, WO(l, a))
        /\ Located(r.data, 7, WO(l, b)) /\ Located(r.data, 11, WO(l, c))
        /\ Located(r.data, 15, WO(l, tag)) /\ Located(r.data, 23, WO(l, Bytes16(n)))
        /\ Located(r.data, 25, AO(l, d))
    BY <1>1, <1>2, StreamLocated
  <1>4. protocolUnpackHeader(r, ProtocolTypeStream) = Valid(At(r, 3, 5))
    <2>1. PICK five : five = 5 /\ five \in Byte
      BY SomeBytes
    <2>2. five \in Byte /\ Located(r.data, r.offset, HeaderBytes(five))
      BY <1>3, <2>1
    <2>3. protocolUnpackHeader(r, five) = Valid(At(r, r.offset + 3, five))
      BY <2>2, HeaderRead
    <2>4. r.offset + 3 = 3
      OBVIOUS
    <2>5. QED
      BY <2>1, <2>3, <2>4 DEF ProtocolTypeStream
  <1>5. /\ a \in Seq(Byte) /\ 4 = Len(a) /\ b \in Seq(Byte) /\ 4 = Len(b)
        /\ c \in Seq(Byte) /\ 4 = Len(c) /\ tag \in Seq(Byte) /\ 8 = Len(tag)
    BY Words
  <1>6. PICK q0, q1, q2, q3, q4, q5, q6 :
          /\ q0 = At(r, 3, 5) /\ q1 = At(r, 7, a) /\ q2 = At(r, 11, b) /\ q3 = At(r, 15, c)
          /\ q4 = At(r, 23, tag) /\ q5 = At(r, 25, n) /\ q6 = At(r, 25 + n, d)
    OBVIOUS
  <1>7. /\ q1.val = a /\ q2.val = b /\ q3.val = c /\ q4.val = tag /\ q5.val = n /\ q6.val = d
        /\ q6.offset = 25 + n
    BY <1>6, AtFields
  <1>8. /\ WordLies(r, 3, 4, 7, a) /\ WordLies(r, 7, 4, 11, b) /\ WordLies(r, 11, 4, 15, c)
        /\ WordLies(r, 15, 8, 23, tag)
    BY <1>1, <1>3, <1>5 DEF WordLies
  <1>9. PairLies(r, 23, 25, n)
    BY <1>1, <1>3 DEF PairLies
  <1>10. ArrayLies(r, 25, n, 25 + n, d)
    BY <1>1, <1>2, <1>3 DEF ArrayLies
  <1>11. ReadWord(q0, 4) = q1 /\ ReadWord(q1, 4) = q2 /\ ReadWord(q2, 4) = q3 /\ ReadWord(q3, 8) = q4
    <2>0. PICK five : five = 5
      OBVIOUS
    <2>1. ReadWord(At(r, 3, five), 4) = At(r, 7, a)
      BY <1>8, WordRead
    <2>2. ReadWord(At(r, 7, a), 4) = At(r, 11, b)
      BY <1>8, WordRead
    <2>3. ReadWord(At(r, 11, b), 4) = At(r, 15, c)
      BY <1>8, WordRead
    <2>4. ReadWord(At(r, 15, c), 8) = At(r, 23, tag)
      BY <1>8, WordRead
    <2>5. QED
      BY <1>6, <2>0, <2>1, <2>2, <2>3, <2>4
  <1>12. bitstream_read_uint16(q4) = q5
    BY <1>6, <1>9, PairRead
  <1>13. bitstream_read_bytes(q5, n) = q6
    BY <1>6, <1>10, ArrayRead
  <1>14. PICK h : h = streamProtocolUnpackHeader(r)
    OBVIOUS
  <1>15. h = [stream |-> q3, result |-> "Valid", out |-> <<a, b, c>>]
    <2>1. Valid(q0).stream = q0 /\ Valid(q0).result = "Valid"
      BY DEF Valid
    <2>2. QED
      BY <1>4, <1>6, <1>7, <1>11, <1>14, <2>1
         DEF streamProtocolUnpackHeader, bitstream_read_uint32
  <1>16. PICK g : g = streamProtocolUnpackData(q3)
    OBVIOUS
  <1>17. g = [stream |-> q6, result |-> "Valid", out |-> <<tag, d>>]
    BY <1>7, <1>11, <1>12, <1>13, <1>16 DEF streamProtocolUnpackData, bitstream_read_uint64
  <1>18. h.stream = q3 /\ h.result = "Valid" /\ h.out = <<a, b, c>>
    BY <1>15
  <1>19. g.stream = q6 /\ g.result = "Valid" /\ g.out = <<tag, d>>
    BY <1>17
  <1>20. StreamReceive(r) = Got("stream", g.stream, g.result, h.out \o g.out)
    BY <1>14, <1>16, <1>18 DEF StreamReceive
  <1>21. h.out \o g.out = <<a, b, c, tag, d>>
    BY <1>18, <1>19, Five
  <1>22. QED
    BY <1>7, <1>19, <1>20, <1>21, GotFields

-----------------------------------------------------------------------------
(* Messages that are packed into bytes of a fixed layout *)

IsUpdate(m) ==
  /\ m.sequence \in Word(4) /\ m.ack \in Word(4) /\ m.ackBits \in Word(4)
  /\ m.tag \in Word(8) /\ m.parts \in Seq(Seq(Byte))

UpdateBytes(l, m) ==
  StreamBytes(l, m.sequence, m.ack, m.ackBits, m.tag,
              Len(UpdateObject(m).data), UpdateObject(m).data)

LEMMA AsUint16 == \A k \in Nat : k <= 65535 => k \in Uint16
  BY DEF Uint16

LEMMA UpdateType ==
  ASSUME NEW l \in BOOLEAN, NEW m, IsUpdate(m), NEW d, d = UpdateObject(m).data
  PROVE  /\ UpdateObject(m).tag = m.tag /\ d \in Seq(Byte) /\ Len(d) \in Uint16
         /\ UpdateBytes(l, m) \in Seq(Byte) /\ Len(UpdateBytes(l, m)) = 25 + Len(d)
         /\ Len(UpdateBytes(l, m)) <= kNetPacketMaxLen
  <1>1. /\ m.sequence \in Word(4) /\ m.ack \in Word(4) /\ m.ackBits \in Word(4)
        /\ m.tag \in Word(8) /\ m.parts \in Seq(Seq(Byte))
    BY DEF IsUpdate
  <1>2. /\ UpdateObject(m).tag = m.tag /\ d \in Seq(Byte) /\ Len(d) <= kNetPacketMaxLen - 25
    BY <1>1, UpdateFacts
  <1>3. PICK n : n = Len(d)
    OBVIOUS
  <1>4. Len(d) \in Uint16
    <2>1. Len(d) \in Nat
      BY <1>2, LenProperties
    <2>2. kNetPacketMaxLen \in Nat /\ kNetPacketMaxLen <= 65535
      BY RoomAssumption
    <2>3. Len(d) <= 65535
      BY <1>2, <2>1, <2>2
    <2>4. QED
      BY <2>1, <2>3, AsUint16
  <1>5. n \in Uint16
    BY <1>3, <1>4
  <1>6. PICK E : E = StreamBytes(l, m.sequence, m.ack, m.ackBits, m.tag, n, d)
    OBVIOUS
  <1>7. E \in Seq(Byte) /\ Len(E) = 25 + n
    <2>1. PICK a, b, c, tag : a = m.sequence /\ b = m.ack /\ c = m.ackBits /\ tag = m.tag
      OBVIOUS
    <2>2. /\ a \in Word(4) /\ b \in Word(4) /\ c \in Word(4) /\ tag \in Word(8)
          /\ n \in Uint16 /\ d \in Seq(Byte) /\ n = Len(d)
      BY <1>1, <1>2, <1>3, <1>5, <2>1
    <2>3. E = StreamBytes(l, a, b, c, tag, n, d)
      BY <1>6, <2>1
    <2>4. QED
      BY <2>2, <2>3, StreamType
  <1>8. E = UpdateBytes(l, m)
    BY <1>3, <1>6 DEF UpdateBytes
  <1>9. 25 + n <= kNetPacketMaxLen
    <2>1. n \in Nat /\ n <= kNetPacketMaxLen - 25
      BY <1>2, <1>3, LenProperties
    <2>2. QED
      BY <2>1, RoomAssumption
  <1>10. QED
    BY <1>2, <1>3, <1>4, <1>7, <1>8, <1>9

LEMMA UpdatePuts ==
  ASSUME NEW s, IsStream(s), NEW m, IsUpdate(m)
  PROVE  Puts(s, PackStream(s, m), UpdateBytes(s.little, m))
  <1>1. /\ m.sequence \in Word(4) /\ m.ack \in Word(4) /\ m.ackBits \in Word(4)
        /\ m.tag \in Word(8)
    BY DEF IsUpdate
  <1>2. PICK object : object = UpdateObject(m)
    OBVIOUS
  <1>3. PICK d, n, l : d = UpdateObject(m).data /\ n = Len(d) /\ l = s.little
    OBVIOUS
  <1>4. l \in BOOLEAN
    BY <1>3, StreamFields
  <1>5. object.tag = m.tag /\ object.data = d /\ d \in Seq(Byte) /\ n \in Uint16 /\ n = Len(d)
    BY <1>2, <1>3, <1>4, UpdateType
  <1>6. PICK a, b, c, tag : a = m.sequence /\ b = m.ack /\ c = m.ackBits /\ tag = m.tag
    OBVIOUS
  <1>7. /\ a \in Word(4) /\ b \in Word(4) /\ c \in Word(4) /\ tag \in Word(8)
        /\ object.tag = tag /\ l = s.little
    BY <1>1, <1>3, <1>5, <1>6
  <1>8. Puts(s, streamProtocolPackData(streamProtocolPackHeader(s, a, b, c), object),
             StreamBytes(l, a, b, c, tag, n, d))
    BY <1>5, <1>7, StreamPuts
  <1>9. QED
    BY <1>2, <1>3, <1>6, <1>8 DEF PackStream, UpdateBytes

LEMMA UpdateReceived ==
  ASSUME NEW r, IsStream(r), r.offset = 0, NEW m, IsUpdate(m),
         Located(r.data, 0, UpdateBytes(r.little, m))
  PROVE  /\ Takes4(StreamReceive(r), "stream", "Valid",
                   <<m.sequence, m.ack, m.ackBits, m.tag, UpdateObject(m).data>>,
                   Len(UpdateBytes(r.little, m)))
         /\ TransactionReceive(r).by = "none" /\ StunReceive(r).by = "none"
  <1>1. PICK d, n, l : d = UpdateObject(m).data /\ n = Len(d) /\ l = r.little
    OBVIOUS
  <1>2. PICK a, b, c, tag : a = m.sequence /\ b = m.ack /\ c = m.ackBits /\ tag = m.tag
    OBVIOUS
  <1>3. /\ a \in Word(4) /\ b \in Word(4) /\ c \in Word(4) /\ tag \in Word(8)
    BY <1>2 DEF IsUpdate
  <1>4. l \in BOOLEAN /\ r.data \in Seq(Byte) /\ r.bound \in Nat
    BY <1>1, StreamFields
  <1>5. d \in Seq(Byte) /\ n \in Uint16 /\ n = Len(d)
    BY <1>1, <1>4, UpdateType
  <1>6. Len(UpdateBytes(r.little, m)) = 25 + n
    BY <1>1, <1>4, UpdateType
  <1>7. Located(r.data, 0, StreamBytes(l, a, b, c, tag, n, d))
    BY <1>1, <1>2 DEF UpdateBytes
  <1>8. Located(r.data, 0, HeaderBytes(5))
    BY <1>3, <1>4, <1>5, <1>7, StreamLocated
  <1>9. Takes4(StreamReceive(r), "stream", "Valid", <<a, b, c, tag, d>>, 25 + n)
    <2>1. Located(r.data, 0, StreamBytes(r.little, a, b, c, tag, n, d))
      BY <1>1, <1>7
    <2>2. QED
      BY <1>3, <1>5, <2>1, StreamRead
  <1>10. TransactionReceive(r).by = "none"
    BY <1>8, StreamNotTransaction
  <1>11. StunReceive(r).by = "none"
    <2>1. PICK five : five = 5 /\ five \in Byte
      BY SomeBytes
    <2>2. five \in Byte /\ Located(r.data, 0, HeaderBytes(five))
      BY <1>8, <2>1
    <2>3. PICK w : StunReceive(r) = TransactionReceive(At(r, 0, w))
      BY <2>2, HeaderForwards
    <2>4. PICK q : q = At(r, 0, w)
      OBVIOUS
    <2>5. 0 \in 0..r.bound
      BY <1>4
    <2>6. IsStream(q)
      BY <2>4, <2>5, AtStream
    <2>7. q.offset = 0 /\ Located(q.data, 0, HeaderBytes(5))
      BY <1>8, <2>4, AtFields
    <2>8. TransactionReceive(q).by = "none"
      BY <2>6, <2>7, StreamNotTransaction
    <2>9. QED
      BY <2>3, <2>4, <2>8
  <1>12. QED
    BY <1>1, <1>2, <1>6, <1>9, <1>10, <1>11

\* The requests of the STUN client
Covers(d, o, E, i, j) ==
  /\ d \in Seq(Byte) /\ o \in Nat /\ E \in Seq(Byte) /\ Located(d, o, E)
  /\ i = o + 1 /\ j = o + Len(E)

LEMMA SubSeqLocated ==
  ASSUME NEW d, NEW o, NEW E, NEW i, NEW j, Covers(d, o, E, i, j)
  PROVE  SubSeq(d, i, j) = E
  <1>0. /\ d \in Seq(Byte) /\ o \in Nat /\ E \in Seq(Byte) /\ Located(d, o, E)
        /\ i = o + 1 /\ j = o + Len(E)
    BY DEF Covers
  <1> USE <1>0
  <1>1. Len(E) \in Nat /\ Len(d) \in Nat /\ o + Len(E) <= Len(d)
        /\ \A k \in 1..Len(E) : d[o + k] = E[k]
    BY LenProperties DEF Located
  <1>2. PICK F : F = SubSeq(d, i, j)
    OBVIOUS
  <1>3. Len(F) = Len(E) /\ \A k \in 1..Len(E) : F[k] = d[o + k]
    BY <1>1, <1>2
  <1>4. F \in Seq(Byte)
    BY <1>1, <1>2
  <1>5. \A k \in 1..Len(E) : F[k] = E[k]
    BY <1>1, <1>3
  <1>6. F = E
    BY <1>3, <1>4, <1>5, SeqEqual
  <1>7. QED
    BY <1>2, <1>6

LEMMA LocatedSelf ==
  ASSUME NEW E \in Seq(Byte)
  PROVE  Located(E, 0, E)
  <1>1. Len(E) \in Nat
    BY LenProperties
  <1>2. QED
    BY <1>1 DEF Located

\* A packet that was written in one go holds these bytes and no others.
LEMMA PackedIs ==
  ASSUME NEW s, IsStream(s), s.offset = 0, NEW t, NEW E \in Seq(Byte), Wrote(s, t, E)
  PROVE  Packed(t) = E /\ IsStream(t) /\ t.offset = Len(E) /\ Located(t.data, 0, E)
  <1>1. IsStream(t) /\ t.offset = s.offset + Len(E) /\ Located(t.data, s.offset, E)
    BY DEF Wrote, Kept
  <1>2. Len(E) \in Nat
    BY LenProperties
  <1>3. t.offset = Len(E) /\ Located(t.data, 0, E)
    BY <1>1, <1>2
  <1>4. /\ Packed(t) \in Seq(Byte) /\ Len(Packed(t)) = Len(E)
        /\ \A i \in 1..Len(E) : Packed(t)[i] = t.data[i]
    BY <1>1, <1>3, PackedFacts
  <1>5. \A i \in 1..Len(E) : Packed(t)[i] = E[i]
    BY <1>2, <1>3, <1>4 DEF Located
  <1>6. Packed(t) = E
    BY <1>4, <1>5, SeqEqual
  <1>7. QED
    BY <1>1, <1>3, <1>6

Cookie == kStunProtocolMagicCookie
B2(x, y) == Bytes16(x) \o Bytes16(y)
B3(x, y) == B2(x, y) \o Cookie
StunBytes(x, y, id) == B3(x, y) \o id

LEMMA StunType ==
  ASSUME NEW x \in Uint16, NEW y \in Uint16, NEW id \in Seq(Byte), Len(id) = 12
  PROVE  /\ Bytes16(x) \in Seq(Byte) /\ Len(Bytes16(x)) = 2
         /\ Bytes16(y) \in Seq(Byte) /\ Len(Bytes16(y)) = 2
         /\ Cookie \in Seq(Byte) /\ Len(Cookie) = 4
         /\ B2(x, y) \in Seq(Byte) /\ Len(B2(x, y)) = 4
         /\ B3(x, y) \in Seq(Byte) /\ Len(B3(x, y)) = 8
         /\ StunBytes(x, y, id) \in Seq(Byte) /\ Len(StunBytes(x, y, id)) = 20
  <1>1. PICK X, Y : X = Bytes16(x) /\ Y = Bytes16(y)
    OBVIOUS
  <1>2. X \in Seq(Byte) /\ Len(X) = 2 /\ Y \in Seq(Byte) /\ Len(Y) = 2
    BY <1>1, Pair16
  <1>3. Cookie \in Seq(Byte) /\ Len(Cookie) = 4
    BY DEF Cookie, kStunProtocolMagicCookie, Byte
  <1>4. PICK P : P = X \o Y
    OBVIOUS
  <1>5. P \in Seq(Byte) /\ Len(P) = Len(X) + Len(Y)
    <2>1. X \in Seq(Byte) /\ Y \in Seq(Byte)
      BY <1>2
    <2>2. QED
      BY <1>4, <2>1, Grow
  <1>6. PICK Q : Q = P \o Cookie
    OBVIOUS
  <1>7. Q \in Seq(Byte) /\ Len(Q) = Len(P) + Len(Cookie)
    <2>1. P \in Seq(Byte) /\ Cookie \in Seq(Byte)
      BY <1>3, <1>5
    <2>2. QED
      BY <1>6, <2>1, Grow
  <1>8. PICK R : R = Q \o id
    OBVIOUS
  <1>9. R \in Seq(Byte) /\ Len(R) = Len(Q) + Len(id)
    <2>1. Q \in Seq(Byte) /\ id \in Seq(Byte)
      BY <1>7
    <2>2. QED
      BY <1>8, <2>1, Grow
  <1>10. Len(P) = 4 /\ Len(Q) = 8 /\ Len(R) = 20
    BY <1>2, <1>3, <1>5, <1>7, <1>9
  <1>11. P = B2(x, y) /\ Q = B3(x, y) /\ R = StunBytes(x, y, id)
    BY <1>1, <1>4, <1>6, <1>8 DEF B2, B3, StunBytes
  <1>12. QED
    BY <1>1, <1>2, <1>3, <1>5, <1>7, <1>9, <1>10, <1>11

LEMMA StunLocated ==
  ASSUME NEW D \in Seq(Byte), NEW x \in Uint16, NEW y \in Uint16, NEW id \in Seq(Byte),
         Len(id) = 12, Located(D, 0, StunBytes(x, y, id))
  PROVE  /\ Located(D, 0, Bytes16(x)) /\ Located(D, 2, Bytes16(y)) /\ Located(D, 4, Cookie)
         /\ Located(D, 8, id)
  <1>1. PICK X, Y, P, Q, C : /\ X = Bytes16(x) /\ Y = Bytes16(y) /\ P = B2(x, y) /\ Q = B3(x, y)
                             /\ C = Cookie
    OBVIOUS
  <1>2. /\ X \in Seq(Byte) /\ Y \in Seq(Byte) /\ P \in Seq(Byte) /\ Q \in Seq(Byte)
        /\ C \in Seq(Byte) /\ Len(D) \in Nat /\ 0 \in Nat
    BY <1>1, StunType, LenProperties
  <1>3. 0 + Len(X) = 2 /\ 0 + Len(P) = 4 /\ 0 + Len(Q) = 8
    BY <1>1, StunType
  <1>4. Located(D, 0, Q \o id)
    BY <1>1 DEF StunBytes
  <1>5. Located(D, 0, Q) /\ Located(D, 0 + Len(Q), id)
    BY <1>2, <1>4, LocatedCat
  <1>6. Located(D, 0, P \o C)
    BY <1>1, <1>5 DEF B3
  <1>7. Located(D, 0, P) /\ Located(D, 0 + Len(P), C)
    BY <1>2, <1>6, LocatedCat
  <1>8. Located(D, 0, X \o Y)
    BY <1>1, <1>7 DEF B2
  <1>9. Located(D, 0, X) /\ Located(D, 0 + Len(X), Y)
    BY <1>2, <1>8, LocatedCat
  <1>10. QED
    BY <1>1, <1>3, <1>5, <1>7, <1>9

LEMMA SmallNumbers ==
  /\ 0 \in Uint16 /\ 1 \in Uint16 /\ 3 \in Uint16 /\ 4 \in Uint16 /\ 8 \in Uint16
  /\ Bytes16(0) = <<0, 0>> /\ Bytes16(1) = <<0, 1>> /\ Bytes16(3) = <<0, 3>>
  /\ Bytes16(4) = <<0, 4>> /\ Bytes16(8) = <<0, 8>>
  BY DEF Uint16, Bytes16

LEMMA PutsPair ==
  ASSUME NEW s, IsStream(s), s.little = TRUE, NEW t, NEW E \in Seq(Byte), Puts(s, t, E),
         NEW x \in Uint16
  PROVE  Puts(s, bitstream_write_uint16(t, x), E \o Bytes16(x))
  <1>1. PICK b : b = Bytes16(x)
    OBVIOUS
  <1>2. b \in Seq(Byte)
    BY <1>1, Pair16
  <1>3. Puts(s, WriteWord(t, b), E \o WO(s.little, b))
    BY <1>2, PutsWord
  <1>4. QED
    BY <1>1, <1>3 DEF WO, bitstream_write_uint16

LEMMA StunHeaderPuts ==
  ASSUME NEW s, IsStream(s), s.little = TRUE, NEW id \in Word(12), NEW y \in Uint16
  PROVE  Puts(s, stunProtocolPackHeader(s, 1, 0, id, y), StunBytes(1, y, Reverse(id)))
  <1>1. PICK x : x = 1
    OBVIOUS
  <1>2. x \in Uint16
    BY <1>1, SmallNumbers
  <1>3. MergedType(1, 0) = x
    BY <1>1 DEF MergedType, Bits
  <1>4. id \in Seq(Byte) /\ Len(id) = 12
    BY Words
  <1>5. Reverse(id) \in Seq(Byte) /\ Len(Reverse(id)) = 12
    BY <1>4, ReverseFacts
  <1>6. /\ Bytes16(x) \in Seq(Byte) /\ Cookie \in Seq(Byte)
        /\ B2(x, y) \in Seq(Byte) /\ B3(x, y) \in Seq(Byte)
    BY <1>2, <1>5, StunType
  <1>7. PICK t1 : t1 = bitstream_write_uint16(s, x)
    OBVIOUS
  <1>8. Puts(s, t1, Bytes16(x))
    <2>1. Puts(s, t1, WO(s.little, Bytes16(x)))
      BY <1>2, <1>7, Write16
    <2>2. QED
      BY <2>1 DEF WO
  <1>9. PICK t2 : t2 = bitstream_write_uint16(t1, y)
    OBVIOUS
  <1>10. Puts(s, t2, B2(x, y))
    <2>1. Puts(s, t2, Bytes16(x) \o Bytes16(y))
      BY <1>6, <1>8, <1>9, PutsPair
    <2>2. QED
      BY <2>1 DEF B2
  <1>11. PICK t3 : t3 = WriteWord(t2, Cookie)
    OBVIOUS
  <1>12. Puts(s, t3, B3(x, y))
    <2>1. Puts(s, t3, B2(x, y) \o WO(s.little, Cookie))
      BY <1>6, <1>10, <1>11, PutsWord
    <2>2. QED
      BY <2>1 DEF B3, WO
  <1>13. PICK t4 : t4 = bitstream_write_bytes(t3, id)
    OBVIOUS
  <1>14. Puts(s, t4, StunBytes(x, y, Reverse(id)))
    <2>1. Puts(s, t4, B3(x, y) \o AO(s.little, id))
      BY <1>4, <1>6, <1>12, <1>13, PutsWord
    <2>2. QED
      BY <2>1 DEF StunBytes, AO
  <1>15. stunProtocolPackHeader(s, 1, 0, id, y) = t4
    BY <1>3, <1>7, <1>9, <1>11, <1>13
       DEF stunProtocolPackHeader, bitstream_write_uint32, Cookie
  <1>16. QED
    BY <1>1, <1>14, <1>15

Flags(host, port) == (IF host THEN 4 ELSE 0) + (IF port THEN 2 ELSE 0)
FlagWord(f) == <<0, 0, 0, f>>
ChangeBytes(f) == B2(3, 4) \o FlagWord(f)

LEMMA ChangeType ==
  ASSUME NEW f \in Byte
  PROVE  /\ FlagWord(f) \in Seq(Byte) /\ B2(3, 4) \in Seq(Byte) /\ Bytes16(3) \in Seq(Byte)
         /\ ChangeBytes(f) \in Seq(Byte) /\ Len(ChangeBytes(f)) = 8
         /\ ChangeBytes(f) = <<0, 3>> \o <<0, 4, 0, 0, 0, f>>
  <1>1. FlagWord(f) \in Seq(Byte) /\ Len(FlagWord(f)) = 4
    BY SomeBytes DEF FlagWord
  <1>2. B2(3, 4) = <<0, 3>> \o <<0, 4>> /\ Bytes16(3) = <<0, 3>>
    BY SmallNumbers DEF B2
  <1>3. PICK a, b, c : a = <<0, 3>> /\ b = <<0, 4>> /\ c = <<0, 3, 0, 4>>
    OBVIOUS
  <1>4. /\ a \in Seq(Byte) /\ Len(a) = 2 /\ b \in Seq(Byte) /\ Len(b) = 2 /\ c \in Seq(Byte)
        /\ Len(c) = 4
    BY <1>3, SomeBytes
  <1>5. PICK p : p = a \o b
    OBVIOUS
  <1>6. /\ p \in Seq(Byte) /\ Len(p) = Len(a) + Len(b)
        /\ \A i \in 1..Len(a) : p[i] = a[i]
        /\ \A i \in 1..Len(b) : p[Len(a) + i] = b[i]
    <2>1. a \in Seq(Byte) /\ b \in Seq(Byte)
      BY <1>4
    <2>2. QED
      BY <1>5, <2>1, Cat
  <1>7. Len(p) = 4 /\ p[1] = 0 /\ p[2] = 3 /\ p[3] = 0 /\ p[4] = 4
    <2>1. /\ \A i \in 1..2 : p[i] = a[i]
          /\ \A i \in 1..2 : p[2 + i] = b[i]
      BY <1>4, <1>6
    <2>2. p[1] = a[1] /\ p[2] = a[2] /\ p[3] = b[1] /\ p[4] = b[2]
      BY <2>1
    <2>3. QED
      BY <1>3, <1>4, <1>6, <2>2
  <1>8. PICK w : w = FlagWord(f)
    OBVIOUS
  <1>9. w \in Seq(Byte) /\ Len(w) = 4 /\ w[1] = 0 /\ w[2] = 0 /\ w[3] = 0 /\ w[4] = f
    BY <1>1, <1>8 DEF FlagWord
  <1>10. PICK q : q = p \o w
    OBVIOUS
  <1>11. /\ q \in Seq(Byte) /\ Len(q) = Len(p) + Len(w)
         /\ \A i \in 1..Len(p) : q[i] = p[i]
         /\ \A i \in 1..Len(w) : q[Len(p) + i] = w[i]
    <2>1. p \in Seq(Byte) /\ w \in Seq(Byte)
      BY <1>6, <1>9
    <2>2. QED
      BY <1>10, <2>1, Cat
  <1>12. /\ Len(q) = 8 /\ q[1] = p[1] /\ q[2] = p[2] /\ q[3] = p[3] /\ q[4] = p[4]
         /\ q[5] = w[1] /\ q[6] = w[2] /\ q[7] = w[3] /\ q[8] = w[4]
    <2>1. /\ Len(q) = 8
          /\ \A i \in 1..4 : q[i] = p[i]
          /\ \A i \in 1..4 : q[4 + i] = w[i]
      BY <1>7, <1>9, <1>11
    <2>2. QED
      BY <2>1
  <1>13. PICK g : g = <<0, 4, 0, 0, 0, f>>
    OBVIOUS
  <1>14. /\ g \in Seq(Byte) /\ Len(g) = 6 /\ g[1] = 0 /\ g[2] = 4 /\ g[3] = 0 /\ g[4] = 0
         /\ g[5] = 0 /\ g[6] = f
    BY <1>13, SomeBytes
  <1>15. PICK h : h = a \o g
    OBVIOUS
  <1>16. /\ h \in Seq(Byte) /\ Len(h) = Len(a) + Len(g)
         /\ \A i \in 1..Len(a) : h[i] = a[i]
         /\ \A i \in 1..Len(g) : h[Len(a) + i] = g[i]
    <2>1. a \in Seq(Byte) /\ g \in Seq(Byte)
      BY <1>4, <1>14
    <2>2. QED
      BY <1>15, <2>1, Cat
  <1>17. /\ Len(h) = 8 /\ h[1] = a[1] /\ h[2] = a[2] /\ h[3] = g[1] /\ h[4] = g[2]
         /\ h[5] = g[3] /\ h[6] = g[4] /\ h[7] = g[5] /\ h[8] = g[6]
    <2>1. /\ Len(h) = 8
          /\ \A i \in 1..2 : h[i] = a[i]
          /\ \A i \in 1..6 : h[2 + i] = g[i]
      BY <1>4, <1>14, <1>16
    <2>2. QED
      BY <2>1
  <1>18. a[1] = 0 /\ a[2] = 3
    BY <1>3
  <1>19. \A i \in 1..8 : q[i] = h[i]
    BY <1>7, <1>9, <1>12, <1>14, <1>17, <1>18
  <1>20. q = h
    BY <1>11, <1>12, <1>16, <1>17, <1>19, SeqEqual
  <1>21. B2(3, 4) = p /\ Bytes16(3) = a
    BY <1>2, <1>3, <1>5
  <1>22. ChangeBytes(f) = q
    BY <1>8, <1>10, <1>21 DEF ChangeBytes
  <1>23. QED
    BY <1>1, <1>3, <1>4, <1>6, <1>11, <1>12, <1>13, <1>15, <1>20, <1>21, <1>22

IsStunRequest(m) ==
  /\ m.kind \in {"binding", "change"} /\ m.transactionId \in Word(12)
  /\ m.host \in BOOLEAN /\ m.port \in BOOLEAN

RequestBytes(m) ==
  IF m.kind = "binding" THEN StunBytes(1, 0, Reverse(m.transactionId))
  ELSE StunBytes(1, 8, Reverse(m.transactionId)) \o ChangeBytes(Flags(m.host, m.port))

LEMMA FlagsByte ==
  ASSUME NEW host, NEW port
  PROVE  Flags(host, port) \in Byte
  BY DEF Flags, Byte

LEMMA ChangePuts ==
  ASSUME NEW s, IsStream(s), s.little = TRUE, NEW t, NEW E \in Seq(Byte), Puts(s, t, E),
         NEW host, NEW port
  PROVE  Puts(s, stunProtocolPackAttributeChangeAddr(t, host, port),
              E \o ChangeBytes(Flags(host, port)))
  <1>1. IsStream(t) /\ t.little = TRUE
    BY PutsStream
  <1>2. PICK f : f = Flags(host, port)
    OBVIOUS
  <1>3. f \in Byte
    BY <1>2, FlagsByte
  <1>4. /\ FlagWord(f) \in Seq(Byte) /\ B2(3, 4) \in Seq(Byte) /\ Bytes16(3) \in Seq(Byte)
        /\ ChangeBytes(f) \in Seq(Byte)
    BY <1>3, ChangeType
  <1>5. PICK x, y : x = 3 /\ y = 4 /\ x \in Uint16 /\ y \in Uint16
    BY SmallNumbers
  <1>6. x \in Uint16 /\ y \in Uint16 /\ Bytes16(x) \in Seq(Byte) /\ B2(x, y) \in Seq(Byte)
    BY <1>4, <1>5
  <1>7. PICK t1 : t1 = bitstream_write_uint16(t, x)
    OBVIOUS
  <1>8. Puts(t, t1, Bytes16(x))
    <2>1. Puts(t, t1, WO(t.little, Bytes16(x)))
      BY <1>1, <1>6, <1>7, Write16
    <2>2. QED
      BY <1>1, <2>1 DEF WO
  <1>9. PICK t2 : t2 = bitstream_write_uint16(t1, y)
    OBVIOUS
  <1>10. Puts(t, t2, B2(x, y))
    <2>1. Puts(t, t2, Bytes16(x) \o Bytes16(y))
      BY <1>1, <1>6, <1>8, <1>9, PutsPair
    <2>2. QED
      BY <2>1 DEF B2
  <1>11. PICK t3 : t3 = WriteWord(t2, FlagWord(f))
    OBVIOUS
  <1>12. Puts(t, t3, ChangeBytes(f))
    <2>1. Puts(t, t3, B2(x, y) \o WO(t.little, FlagWord(f)))
      BY <1>1, <1>4, <1>6, <1>10, <1>11, PutsWord
    <2>2. QED
      BY <1>1, <1>5, <2>1 DEF ChangeBytes, WO
  <1>13. stunProtocolPackAttributeChangeAddr(t, host, port) = t3
    BY <1>2, <1>5, <1>7, <1>9, <1>11
       DEF stunProtocolPackAttributeChangeAddr, bitstream_write_uint32, FlagWord, Flags,
           StunAttributeChangeRequest
  <1>14. Puts(s, t3, E \o ChangeBytes(f))
    BY <1>4, <1>12, PutsTwice
  <1>15. QED
    BY <1>2, <1>13, <1>14

LEMMA StunPuts ==
  ASSUME NEW s, IsStream(s), s.little = TRUE, NEW m, IsStunRequest(m)
  PROVE  Puts(s, Pack(s, m), RequestBytes(m))
  <1>1. PICK id, host, port : id = m.transactionId /\ host = m.host /\ port = m.port
    OBVIOUS
  <1>2. id \in Word(12) /\ m.kind \in {"binding", "change"}
    BY <1>1 DEF IsStunRequest
  <1>3. PICK zero, eight : /\ zero = 0 /\ eight = 8 /\ zero \in Uint16 /\ eight \in Uint16
    BY SmallNumbers
  <1>4. zero \in Uint16 /\ eight \in Uint16
    BY <1>3
  <1>5. CASE m.kind = "binding"
    <2>1. Puts(s, stunProtocolPackHeader(s, 1, 0, id, zero), StunBytes(1, zero, Reverse(id)))
      BY <1>2, <1>4, StunHeaderPuts
    <2>2. Pack(s, m) = stunProtocolPackBindingRequest(s, id)
      BY <1>1, <1>5 DEF Pack
    <2>3. Pack(s, m) = stunProtocolPackHeader(s, 1, 0, id, zero)
      BY <1>3, <2>2 DEF stunProtocolPackBindingRequest, StunMsgTypeBinding, StunMsgClassRequest
    <2>4. RequestBytes(m) = StunBytes(1, zero, Reverse(id))
      BY <1>1, <1>3, <1>5 DEF RequestBytes
    <2>5. QED
      BY <2>1, <2>3, <2>4
  <1>6. CASE m.kind = "change"
    <2>1. PICK t, E : /\ t = stunProtocolPackHeader(s, 1, 0, id, eight)
                      /\ E = StunBytes(1, eight, Reverse(id))
      OBVIOUS
    <2>2. Puts(s, t, E)
      BY <1>2, <1>4, <2>1, StunHeaderPuts
    <2>3. E \in Seq(Byte)
      <3>1. PICK one : one = 1 /\ one \in Uint16
        BY SmallNumbers
      <3>2. id \in Seq(Byte) /\ Len(id) = 12
        BY <1>2, Words
      <3>3. Reverse(id) \in Seq(Byte) /\ Len(Reverse(id)) = 12 /\ one \in Uint16
        BY <3>1, <3>2, ReverseFacts
      <3>4. StunBytes(one, eight, Reverse(id)) \in Seq(Byte)
        BY <1>4, <3>3, StunType
      <3>5. QED
        BY <2>1, <3>1, <3>4
    <2>4. Puts(s, stunProtocolPackAttributeChangeAddr(t, host, port),
               E \o ChangeBytes(Flags(host, port)))
      BY <2>2, <2>3, ChangePuts
    <2>5. Pack(s, m) = stunProtocolPackBindingChangeRequest(s, id, host, port)
      BY <1>1, <1>6 DEF Pack
    <2>6. Pack(s, m) = stunProtocolPackAttributeChangeAddr(t, host, port)
      BY <1>3, <2>1, <2>5
         DEF stunProtocolPackBindingChangeRequest, StunMsgTypeBinding, StunMsgClassRequest
    <2>7. RequestBytes(m) = E \o ChangeBytes(Flags(host, port))
      BY <1>1, <1>3, <1>6, <2>1 DEF RequestBytes
    <2>8. QED
      BY <2>4, <2>6, <2>7
  <1>7. QED
    BY <1>2, <1>5, <1>6

Headed(E, x, y, id) ==
  /\ E \in Seq(Byte) /\ x \in Uint16 /\ y \in Uint16 /\ id \in Seq(Byte) /\ Len(id) = 12
  /\ Located(E, 0, StunBytes(x, y, id))

LEMMA PartsOfRequest ==
  ASSUME NEW E, NEW x, NEW y, NEW id, Headed(E, x, y, id)
  PROVE  /\ SubSeq(E, 1, 2) = Bytes16(x) /\ SubSeq(E, 3, 4) = Bytes16(y)
         /\ SubSeq(E, 5, 8) = Cookie /\ SubSeq(E, 9, 20) = id
  <1>0. /\ E \in Seq(Byte) /\ x \in Uint16 /\ y \in Uint16 /\ id \in Seq(Byte) /\ Len(id) = 12
        /\ Located(E, 0, StunBytes(x, y, id))
    BY DEF Headed
  <1> USE <1>0
  <1>1. PICK X, Y, C : X = Bytes16(x) /\ Y = Bytes16(y) /\ C = Cookie
    OBVIOUS
  <1>2. /\ X \in Seq(Byte) /\ Y \in Seq(Byte) /\ C \in Seq(Byte)
        /\ Len(X) = 2 /\ Len(Y) = 2 /\ Len(C) = 4
    BY <1>1, StunType
  <1>3. /\ Located(E, 0, X) /\ Located(E, 2, Y) /\ Located(E, 4, C) /\ Located(E, 8, id)
    BY <1>1, StunLocated
  <1>4. SubSeq(E, 1, 2) = X
    <2>1. Covers(E, 0, X, 1, 2)
      BY <1>2, <1>3 DEF Covers
    <2>2. QED
      BY <2>1, SubSeqLocated
  <1>5. SubSeq(E, 3, 4) = Y
    <2>1. Covers(E, 2, Y, 3, 4)
      BY <1>2, <1>3 DEF Covers
    <2>2. QED
      BY <2>1, SubSeqLocated
  <1>6. SubSeq(E, 5, 8) = C
    <2>1. Covers(E, 4, C, 5, 8)
      BY <1>2, <1>3 DEF Covers
    <2>2. QED
      BY <2>1, SubSeqLocated
  <1>7. SubSeq(E, 9, 20) = id
    <2>1. Covers(E, 8, id, 9, 20)
      BY <1>3 DEF Covers
    <2>2. QED
      BY <2>1, SubSeqLocated
  <1>8. QED
    BY <1>1, <1>4, <1>5, <1>6, <1>7

LEMMA StunRequestFacts ==
  ASSUME NEW m, IsStunRequest(m), NEW E, E = RequestBytes(m)
  PROVE  /\ E \in Seq(Byte) /\ Len(E) <= kNetPacketMaxLen
         /\ SubSeq(E, 9, 20) = Reverse(m.transactionId)
         /\ ServerReads(E).type = StunMsgTypeBinding
         /\ ServerReads(E).cookie = kStunProtocolMagicCookie
         /\ ServerReads(E).length = ServerReads(E).body
         /\ m.kind = "change" =>
              ServerReads(E).flags = Bytes16(StunAttributeChangeRequest)
                                       \o <<0, 4, 0, 0, 0, Flags(m.host, m.port)>>
  <1>1. PICK id, d, f : /\ id = m.transactionId /\ d = Reverse(id) /\ f = Flags(m.host, m.port)
    OBVIOUS
  <1>2. m.kind \in {"binding", "change"} /\ id \in Word(12)
    BY <1>1 DEF IsStunRequest
  <1>3. id \in Seq(Byte) /\ Len(id) = 12
    BY <1>2, Words
  <1>4. d \in Seq(Byte) /\ Len(d) = 12
    BY <1>1, <1>3, ReverseFacts
  <1>5. f \in Byte
    BY <1>1, FlagsByte
  <1>6. PICK one, y : /\ one = 1 /\ one \in Uint16
                      /\ y = (IF m.kind = "binding" THEN 0 ELSE 8) /\ y \in Uint16
    BY SmallNumbers
  <1>7. one \in Uint16 /\ y \in Uint16
    BY <1>6
  <1>8. PICK H, G : H = StunBytes(one, y, d) /\ G = ChangeBytes(f)
    OBVIOUS
  <1>9. H \in Seq(Byte) /\ Len(H) = 20
    BY <1>4, <1>7, <1>8, StunType
  <1>10. G \in Seq(Byte) /\ Len(G) = 8 /\ G = <<0, 3>> \o <<0, 4, 0, 0, 0, f>>
    BY <1>5, <1>8, ChangeType
  <1>11. E = IF m.kind = "binding" THEN H ELSE H \o G
    BY <1>1, <1>6, <1>8 DEF RequestBytes
  <1>12. H \o G \in Seq(Byte) /\ Len(H \o G) = Len(H) + Len(G)
    <2>1. H \in Seq(Byte) /\ G \in Seq(Byte)
      BY <1>9, <1>10
    <2>2. QED
      BY <2>1, Grow
  <1>13. E \in Seq(Byte) /\ Len(E) = IF m.kind = "binding" THEN 20 ELSE 28
    BY <1>9, <1>10, <1>11, <1>12
  <1>14. Located(E, 0, E)
    BY <1>13, LocatedSelf
  <1>15. /\ Located(E, 0, H)
         /\ m.kind = "change" => Located(E, 20, G)
    <2>1. CASE m.kind = "binding"
      BY <1>11, <1>14, <2>1
    <2>2. CASE m.kind = "change"
      <3>1. Located(E, 0, H \o G)
        BY <1>11, <1>14, <2>2
      <3>2. Len(E) \in Nat /\ 0 \in Nat /\ H \in Seq(Byte) /\ G \in Seq(Byte)
        BY <1>9, <1>10, <1>13, LenProperties
      <3>3. Located(E, 0, H) /\ Located(E, 0 + Len(H), G)
        BY <3>1, <3>2, LocatedCat
      <3>4. 0 + Len(H) = 20
        BY <1>9
      <3>5. QED
        BY <3>3, <3>4
    <2>3. QED
      BY <1>2, <2>1, <2>2
  <1>16. Located(E, 0, StunBytes(one, y, d))
    BY <1>8, <1>15
  <1>17. /\ SubSeq(E, 1, 2) = Bytes16(one) /\ SubSeq(E, 3, 4) = Bytes16(y)
         /\ SubSeq(E, 5, 8) = Cookie /\ SubSeq(E, 9, 20) = d
    <2>1. Headed(E, one, y, d)
      BY <1>4, <1>7, <1>13, <1>16 DEF Headed
    <2>2. QED
      BY <2>1, PartsOfRequest
  <1>18. Number16(Bytes16(one)) = one /\ Number16(Bytes16(y)) = y
    BY <1>7, Pair16
  <1>19. /\ ServerReads(E).type = Number16(SubSeq(E, 1, 2))
         /\ ServerReads(E).length = Number16(SubSeq(E, 3, 4))
         /\ ServerReads(E).cookie = SubSeq(E, 5, 8)
         /\ ServerReads(E).body = Len(E) - 20
         /\ ServerReads(E).flags = IF Len(E) > 20 THEN SubSeq(E, 21, Len(E)) ELSE << >>
    BY DEF ServerReads
  <1>20. y = Len(E) - 20
    BY <1>2, <1>6, <1>13
  <1>21. ASSUME m.kind = "change"
         PROVE  ServerReads(E).flags = G
    <2>1. Len(E) = 28
      BY <1>13, <1>21
    <2>2. Covers(E, 20, G, 21, 28)
      BY <1>10, <1>13, <1>15, <1>21 DEF Covers
    <2>3. SubSeq(E, 21, 28) = G
      BY <2>2, SubSeqLocated
    <2>4. QED
      BY <1>19, <2>1, <2>3
  <1>22. Len(E) <= kNetPacketMaxLen
    BY <1>13, RoomAssumption
  <1>23. Bytes16(StunAttributeChangeRequest) = <<0, 3>>
    BY SmallNumbers DEF StunAttributeChangeRequest
  <1>24. ServerReads(E).type = 1 /\ ServerReads(E).length = ServerReads(E).body
    BY <1>6, <1>17, <1>18, <1>19, <1>20
  <1>25. QED
    BY <1>1, <1>10, <1>13, <1>17, <1>19, <1>21, <1>22, <1>23, <1>24
       DEF StunMsgTypeBinding, Cookie

-----------------------------------------------------------------------------
(* Numbers: a number is filled in before a float that was written first *)

LEMMA PutRest ==
  ASSUME NEW s, IsStream(s), NEW b \in Seq(Byte), s.offset + Len(b) <= s.bound, NEW t, t = Put(s, b)
  PROVE  \A i \in (s.offset + Len(b) + 1)..s.bound : t.data[i] = s.data[i]
  <1>1. /\ s.data \in Seq(Byte) /\ s.bound = Len(s.data) /\ s.bound \in Nat
        /\ s.offset \in Nat /\ s.offset <= s.bound /\ Len(b) \in Nat
    BY StreamFields, LenProperties
  <1>2. PICK d, n, k, o : d = s.data /\ n = s.bound /\ k = Len(b) /\ o = s.offset
    OBVIOUS
  <1>3. /\ d \in Seq(Byte) /\ n = Len(d) /\ n \in Nat /\ o \in Nat /\ k \in Nat /\ o + k <= n
        /\ o <= n
    BY <1>1, <1>2
  <1>4. PICK P, Q : P = SubSeq(d, 1, o) /\ Q = SubSeq(d, o + k + 1, n)
    OBVIOUS
  <1>5. P \in Seq(Byte) /\ Len(P) = o
    BY <1>3, <1>4
  <1>6. /\ Q \in Seq(Byte) /\ Len(Q) = n - (o + k)
        /\ \A i \in 1..(n - (o + k)) : Q[i] = d[(o + k) + i]
    BY <1>3, <1>4
  <1>7. PICK R : R = P \o b
    OBVIOUS
  <1>8. R \in Seq(Byte) /\ Len(R) = o + k
    <2>1. P \in Seq(Byte)
      BY <1>5
    <2>2. R \in Seq(Byte) /\ Len(R) = Len(P) + Len(b)
      BY <1>7, <2>1, Grow
    <2>3. QED
      BY <1>2, <1>5, <2>2
  <1>9. \A i \in 1..Len(Q) : (R \o Q)[Len(R) + i] = Q[i]
    <2>1. R \in Seq(Byte) /\ Q \in Seq(Byte)
      BY <1>6, <1>8
    <2>2. QED
      BY <2>1, Cat
  <1>10. t.data = R \o Q
    <2>1. Len(b) <= s.bound - s.offset
      BY <1>1
    <2>2. t = After(s, SubSeq(s.data, 1, s.offset) \o b
                         \o SubSeq(s.data, s.offset + Len(b) + 1, Len(s.data)),
                    s.offset + Len(b))
      BY <2>1, PutFields
    <2>3. PICK D : D = SubSeq(s.data, 1, s.offset) \o b
                         \o SubSeq(s.data, s.offset + Len(b) + 1, Len(s.data))
      OBVIOUS
    <2>4. t.data = D
      <3>1. PICK x : x = s.offset + Len(b)
        OBVIOUS
      <3>2. t = After(s, D, x)
        BY <2>2, <2>3, <3>1
      <3>3. QED
        BY <3>2 DEF After
    <2>5. D = R \o Q
      BY <1>2, <1>3, <1>4, <1>7, <2>3
    <2>6. QED
      BY <2>4, <2>5
  <1>11. ASSUME NEW i \in (o + k + 1)..n
         PROVE  (R \o Q)[i] = d[i]
    <2>1. PICK j : j = i - (o + k)
      OBVIOUS
    <2>2. j \in 1..(n - (o + k)) /\ (o + k) + j = i
      BY <1>3, <1>11, <2>1
    <2>3. (R \o Q)[(o + k) + j] = Q[j]
      BY <1>6, <1>8, <1>9, <2>2
    <2>4. Q[j] = d[(o + k) + j]
      BY <1>6, <2>2
    <2>5. QED
      BY <2>2, <2>3, <2>4
  <1>12. QED
    BY <1>2, <1>10, <1>11

LEMMA SkipFour ==
  ASSUME NEW s, IsStream(s), s.offset = 0, 8 <= s.bound
  PROVE  \E q : q = bitstream_skip_bytes(s, 4) /\ q = At(s, 4, s.val) /\ IsStream(q)
  <1>1. s.bound \in Nat /\ s = At(s, s.offset, s.val)
    BY StreamFields DEF IsStream
  <1>2. PICK four : four = 4
    OBVIOUS
  <1>3. [s EXCEPT !.offset = four] = At(s, four, s.val)
    BY <1>1, SetOffset
  <1>4. Fits(s, 4) /\ ~(s.offset + 4 > s.bound) /\ s.offset + 4 = 4
    BY <1>1 DEF Fits
  <1>5. bitstream_skip_bytes(s, 4) = [s EXCEPT !.offset = four]
    BY <1>2, <1>4 DEF bitstream_skip_bytes
  <1>6. four \in 0..s.bound
    BY <1>1, <1>2
  <1>7. IsStream(At(s, four, s.val))
    BY <1>6, AtStream
  <1>8. QED
    BY <1>2, <1>3, <1>5, <1>7

FloatWord(f) ==
  Bytes16((f.whole % 32768) + (IF f.negative THEN 32768 ELSE 0))
    \o Bytes16(FractionBits(f.fraction))

IsFloat(f) ==
  f \in [negative : BOOLEAN, whole : Byte, fraction : Uint16] /\ f.fraction < 65408

LEMMA FloatFacts ==
  ASSUME NEW f, IsFloat(f), NEW w, w = FloatWord(f)
  PROVE  /\ w \in Seq(Byte) /\ Len(w) = 4
         /\ f = [negative |-> Number16(SubSeq(w, 1, 2)) >= 32768,
                 whole |-> Number16(SubSeq(w, 1, 2)) % 32768,
                 fraction |-> Number16(SubSeq(w, 3, 4))]
  <1>1. PICK neg, whole, k : neg = f.negative /\ whole = f.whole /\ k = f.fraction
    OBVIOUS
  <1>2. /\ neg \in BOOLEAN /\ whole \in Byte /\ k \in Uint16 /\ k < 65408
        /\ f = [negative |-> neg, whole |-> whole, fraction |-> k]
    BY <1>1 DEF IsFloat
  <1>3. PICK h : h = (whole % 32768) + (IF neg THEN 32768 ELSE 0)
    OBVIOUS
  <1>3a. PICK K, L : K = 32768 /\ L = 65535
    OBVIOUS
  <1>4. /\ h \in Nat /\ h <= L /\ h % K = whole
        /\ neg = TRUE => h >= K
        /\ neg = FALSE => ~(h >= K)
    <2>1. whole \in Nat /\ whole < 256
      BY <1>2 DEF Byte
    <2>2. whole % 32768 = whole
      BY <2>1
    <2>3. CASE neg = TRUE
      <3>1. h = whole + 32768
        BY <1>3, <2>2, <2>3
      <3>2. QED
        BY <1>3a, <2>1, <2>3, <3>1
    <2>4. CASE neg = FALSE
      <3>1. h = whole
        BY <1>3, <2>1, <2>2, <2>4
      <3>2. QED
        BY <1>3a, <2>1, <2>4, <3>1
    <2>5. neg = TRUE \/ neg = FALSE
      BY <1>2
    <2>6. QED
      BY <2>3, <2>4, <2>5, Zenon
  <1>4a. (h >= K) = neg
    <2>2. neg = TRUE => (h >= K) = TRUE
      BY <1>4
    <2>3. neg = FALSE => (h >= K) = FALSE
      BY <1>4
    <2>4. neg = TRUE \/ neg = FALSE
      BY <1>2
    <2>5. (h >= K) = neg
      <3>1. PICK z : z = (h >= K)
        OBVIOUS
      <3>2. neg = TRUE => z = TRUE
        BY <2>2, <3>1
      <3>3. neg = FALSE => z = FALSE
        BY <2>3, <3>1
      <3>4. z = neg
        BY <2>4, <3>2, <3>3, Zenon
      <3>5. QED
        BY <3>1, <3>4, Zenon
    <2>6. QED
      BY <2>5
  <1>5. h \in Uint16
    BY <1>3a, <1>4, AsUint16
  <1>6. FractionBits(k) = k
    <2>1. k \in Nat
      BY <1>2, Uint16Nat
    <2>2. k < 65408
      BY <1>2
    <2>3. QED
      BY <2>1, <2>2 DEF FractionBits
  <1>7. PICK A, B : A = Bytes16(h) /\ B = Bytes16(k)
    OBVIOUS
  <1>8. /\ A \in Seq(Byte) /\ Len(A) = 2 /\ Number16(A) = h
    BY <1>5, <1>7, Pair16
  <1>9. /\ B \in Seq(Byte) /\ Len(B) = 2 /\ Number16(B) = k
    BY <1>2, <1>7, Pair16
  <1>10. w = A \o B
    BY <1>1, <1>3, <1>6, <1>7 DEF FloatWord
  <1>11. w \in Seq(Byte) /\ Len(w) = Len(A) + Len(B)
    <2>1. A \in Seq(Byte) /\ B \in Seq(Byte)
      BY <1>8, <1>9
    <2>2. QED
      BY <1>10, <2>1, Grow
  <1>12. Len(w) = 4
    BY <1>8, <1>9, <1>11
  <1>13. Located(w, 0, A) /\ Located(w, 2, B)
    <2>1. Located(w, 0, A \o B)
      BY <1>10, <1>11, LocatedSelf
    <2>2. Len(w) \in Nat /\ 0 \in Nat /\ A \in Seq(Byte) /\ B \in Seq(Byte)
      BY <1>8, <1>9, <1>12
    <2>3. Located(w, 0, A) /\ Located(w, 0 + Len(A), B)
      BY <2>1, <2>2, LocatedCat
    <2>4. 0 + Len(A) = 2
      BY <1>8
    <2>5. QED
      BY <2>3, <2>4
  <1>14. Covers(w, 0, A, 1, 2) /\ Covers(w, 2, B, 3, 4)
    BY <1>8, <1>9, <1>11, <1>13 DEF Covers
  <1>15. SubSeq(w, 1, 2) = A /\ SubSeq(w, 3, 4) = B
    BY <1>14, SubSeqLocated
  <1>16. Number16(SubSeq(w, 1, 2)) = h /\ Number16(SubSeq(w, 3, 4)) = k
    BY <1>8, <1>9, <1>15
  <1>17. QED
    BY <1>2, <1>3a, <1>4, <1>4a, <1>11, <1>12, <1>16

NumbersBytes(l, m) == WO(l, m.word) \o WO(l, FloatWord(m.float))
IsNumbers(m) == m.word \in Word(4) /\ IsFloat(m.float)

LEMMA NumbersType ==
  ASSUME NEW l \in BOOLEAN, NEW m, IsNumbers(m)
  PROVE  /\ m.word \in Seq(Byte) /\ Len(m.word) = 4
         /\ FloatWord(m.float) \in Seq(Byte) /\ Len(FloatWord(m.float)) = 4
         /\ WO(l, m.word) \in Seq(Byte) /\ Len(WO(l, m.word)) = 4
         /\ WO(l, FloatWord(m.float)) \in Seq(Byte) /\ Len(WO(l, FloatWord(m.float))) = 4
         /\ NumbersBytes(l, m) \in Seq(Byte) /\ Len(NumbersBytes(l, m)) = 8
  <1>1. PICK a, b : a = m.word /\ b = FloatWord(m.float)
    OBVIOUS
  <1>2. a \in Seq(Byte) /\ Len(a) = 4
    BY <1>1, Words DEF IsNumbers
  <1>3. b \in Seq(Byte) /\ Len(b) = 4
    BY <1>1, FloatFacts DEF IsNumbers
  <1>4. PICK A, B : A = WO(l, a) /\ B = WO(l, b)
    OBVIOUS
  <1>5. A \in Seq(Byte) /\ Len(A) = 4 /\ B \in Seq(Byte) /\ Len(B) = 4
    BY <1>2, <1>3, <1>4, OrderFacts
  <1>6. A \o B \in Seq(Byte) /\ Len(A \o B) = Len(A) + Len(B)
    <2>1. A \in Seq(Byte) /\ B \in Seq(Byte)
      BY <1>5
    <2>2. QED
      BY <2>1, Grow
  <1>7. Len(A \o B) = 8
    BY <1>5, <1>6
  <1>8. NumbersBytes(l, m) = A \o B
    BY <1>1, <1>4 DEF NumbersBytes
  <1>9. QED
    BY <1>1, <1>2, <1>3, <1>4, <1>5, <1>6, <1>7, <1>8

LEMMA NumbersWrote ==
  ASSUME NEW s, IsStream(s), s.offset = 0, 8 <= s.bound, NEW m, IsNumbers(m)
  PROVE  Wrote(s, PackNumbers(s, m), NumbersBytes(s.little, m))
  <1>1. PICK l, n, W, G : /\ l = s.little /\ n = s.bound
                          /\ W = WO(l, m.word) /\ G = WO(l, FloatWord(m.float))
    OBVIOUS
  <1>2. /\ l \in BOOLEAN /\ n \in Nat /\ 8 <= n
    BY <1>1, StreamFields
  <1>3. W \in Seq(Byte) /\ Len(W) = 4 /\ G \in Seq(Byte) /\ Len(G) = 4
    BY <1>1, <1>2, NumbersType
  <1>4. PICK q : q = bitstream_skip_bytes(s, 4) /\ q = At(s, 4, s.val) /\ IsStream(q)
    BY SkipFour
  <1>5. /\ q.data = s.data /\ q.offset = 4 /\ q.bound = n /\ q.little = l /\ q.past = s.past
        /\ q.val = s.val
    BY <1>1, <1>4, AtFields
  <1>6. PICK f : f = Put(q, G)
    OBVIOUS
  <1>7. Wrote(q, f, G)
    <2>1. q.offset + Len(G) <= q.bound
      BY <1>2, <1>3, <1>5
    <2>2. IsStream(q) /\ G \in Seq(Byte)
      BY <1>3, <1>4
    <2>3. QED
      BY <1>6, <2>1, <2>2, PutKept
  <1>8. IsStream(f) /\ Kept(q, f) /\ f.offset = 8 /\ Located(f.data, 4, G)
    BY <1>3, <1>5, <1>7 DEF Wrote, Kept
  <1>9. /\ f.bound = n /\ f.little = l /\ f.past = s.past /\ f.val = s.val
    BY <1>4, <1>5, <1>8, KeptFields
  <1>10. PICK b : b = [f EXCEPT !.offset = 0]
    OBVIOUS
  <1>11. b = At(f, 0, f.val) /\ IsStream(b)
    <2>1. f = At(f, f.offset, f.val)
      BY <1>8 DEF IsStream
    <2>2. PICK zero : zero = 0
      OBVIOUS
    <2>3. [f EXCEPT !.offset = zero] = At(f, zero, f.val)
      BY <2>1, SetOffset
    <2>4. zero \in 0..f.bound
      BY <1>2, <1>9, <2>2
    <2>5. IsStream(At(f, zero, f.val))
      BY <1>8, <2>4, AtStream
    <2>6. QED
      BY <1>10, <2>2, <2>3, <2>5
  <1>12. /\ b.data = f.data /\ b.offset = 0 /\ b.bound = n /\ b.little = l /\ b.past = s.past
         /\ b.val = s.val
    BY <1>9, <1>11, AtFields
  <1>13. PICK t : t = Put(b, W)
    OBVIOUS
  <1>14. b.offset + Len(W) <= b.bound /\ W \in Seq(Byte)
    BY <1>2, <1>3, <1>12
  <1>15. Wrote(b, t, W)
    BY <1>11, <1>13, <1>14, PutKept
  <1>16. \A i \in (b.offset + Len(W) + 1)..b.bound : t.data[i] = b.data[i]
    BY <1>11, <1>13, <1>14, PutRest
  <1>17. IsStream(t) /\ Kept(b, t) /\ t.offset = 4 /\ Located(t.data, 0, W)
    BY <1>3, <1>12, <1>15 DEF Wrote, Kept
  <1>18. /\ t.bound = n /\ t.little = l /\ t.past = s.past /\ t.val = s.val
         /\ Len(t.data) = n /\ Len(f.data) = n
    <2>1. /\ t.bound = n /\ t.little = l /\ t.past = s.past /\ t.val = s.val
      BY <1>11, <1>12, <1>17, KeptFields
    <2>2. Len(t.data) = t.bound /\ Len(f.data) = f.bound
      BY <1>8, <1>17, StreamFields
    <2>3. QED
      BY <1>9, <2>1, <2>2
  <1>19. Located(t.data, 4, G)
    <2>1. \A i \in 5..n : t.data[i] = f.data[i]
      BY <1>3, <1>12, <1>16
    <2>2. \A i \in 1..4 : f.data[4 + i] = G[i]
      BY <1>3, <1>8 DEF Located
    <2>3. \A i \in 1..4 : t.data[4 + i] = G[i]
      <3>1. ASSUME NEW i \in 1..4
            PROVE  t.data[4 + i] = G[i]
        <4>1. 4 + i \in 5..n
          BY <1>2
        <4>2. t.data[4 + i] = f.data[4 + i]
          BY <2>1, <4>1
        <4>3. f.data[4 + i] = G[i]
          BY <2>2
        <4>4. QED
          BY <4>2, <4>3
      <3>2. QED
        BY <3>1
    <2>4. QED
      BY <1>2, <1>3, <1>18, <2>3 DEF Located
  <1>20. Located(t.data, 0, W \o G)
    <2>1. Len(t.data) \in Nat /\ 0 \in Nat /\ W \in Seq(Byte) /\ G \in Seq(Byte)
      BY <1>2, <1>3, <1>18
    <2>2. 0 + Len(W) = 4
      BY <1>3
    <2>3. Located(t.data, 0, W) /\ Located(t.data, 0 + Len(W), G)
      BY <1>17, <1>19, <2>2
    <2>4. QED
      BY <2>1, <2>3, LocatedCat
  <1>21. PICK v : v = [t EXCEPT !.offset = 8]
    OBVIOUS
  <1>22. v = At(t, 8, t.val) /\ IsStream(v)
    <2>1. t = At(t, t.offset, t.val)
      BY <1>17 DEF IsStream
    <2>2. PICK eight : eight = 8
      OBVIOUS
    <2>3. [t EXCEPT !.offset = eight] = At(t, eight, t.val)
      BY <2>1, SetOffset
    <2>4. eight \in 0..t.bound
      BY <1>2, <1>18, <2>2
    <2>5. IsStream(At(t, eight, t.val))
      BY <1>17, <2>4, AtStream
    <2>6. QED
      BY <1>21, <2>2, <2>3, <2>5
  <1>23. v.data = t.data /\ v.offset = 8
    BY <1>22, AtFields
  <1>24. v = After(s, t.data, 8)
    BY <1>1, <1>18, <1>22 DEF At, After
  <1>25. Kept(s, v)
    <2>1. v = After(s, v.data, v.offset)
      BY <1>23, <1>24
    <2>2. s.offset <= v.offset
      BY <1>23
    <2>3. \A i \in 1..s.offset : v.data[i] = s.data[i]
      OBVIOUS
    <2>4. QED
      BY <1>22, <2>1, <2>2, <2>3 DEF Kept
  <1>26. PICK E : E = NumbersBytes(s.little, m)
    OBVIOUS
  <1>27. E = W \o G /\ Len(E) = 8
    <2>1. E = W \o G
      BY <1>1, <1>26 DEF NumbersBytes
    <2>2. Len(NumbersBytes(l, m)) = 8
      BY <1>2, NumbersType
    <2>3. QED
      BY <1>1, <1>26, <2>1, <2>2
  <1>28. Wrote(s, v, E)
    <2>1. v.offset = s.offset + Len(E)
      BY <1>23, <1>27
    <2>2. Located(v.data, s.offset, E)
      BY <1>20, <1>23, <1>27
    <2>3. QED
      BY <1>25, <2>1, <2>2 DEF Wrote
  <1>29. PackNumbers(s, m) = v
    <2>1. bitstream_write_float32(q, m.float) = f
      BY <1>1, <1>5, <1>6
         DEF bitstream_write_float32, bitstream_write_uint32, WriteWord, WordOrder, WO, FloatWord
    <2>2. PICK sn : sn = bitstream_snapshot(s)
      OBVIOUS
    <2>3. sn = [rollover |-> 0, rollback |-> 0]
      BY <2>2 DEF bitstream_snapshot
    <2>4. PICK k : k = bitstream_rollback(f, sn)
      OBVIOUS
    <2>5. k.stream = b /\ k.snapshot.rollover = 8
      BY <1>8, <1>10, <2>3, <2>4 DEF bitstream_rollback
    <2>6. bitstream_write_uint32(b, m.word) = t
      BY <1>1, <1>12, <1>13 DEF bitstream_write_uint32, WriteWord, WordOrder, WO
    <2>7. bitstream_rollover(t, k.snapshot).stream = v
      BY <1>21, <2>5 DEF bitstream_rollover
    <2>8. QED
      BY <1>4, <2>1, <2>2, <2>4, <2>5, <2>6, <2>7 DEF PackNumbers
  <1>30. QED
    BY <1>26, <1>28, <1>29

LEMMA NumbersRead ==
  ASSUME NEW r, IsStream(r), r.offset = 0, NEW m, IsNumbers(m),
         Located(r.data, 0, NumbersBytes(r.little, m))
  PROVE  Takes4(ApplicationReceive(r), "application", "Valid", <<m.word, m.float>>, 8)
  <1>1. PICK l, a, b : l = r.little /\ a = m.word /\ b = FloatWord(m.float)
    OBVIOUS
  <1>2. l \in BOOLEAN /\ r.data \in Seq(Byte) /\ Len(r.data) \in Nat
    BY <1>1, StreamFields, LenProperties
  <1>3. /\ a \in Seq(Byte) /\ Len(a) = 4 /\ b \in Seq(Byte) /\ Len(b) = 4
        /\ WO(l, a) \in Seq(Byte) /\ Len(WO(l, a)) = 4 /\ WO(l, b) \in Seq(Byte)
    BY <1>1, <1>2, NumbersType
  <1>4. Located(r.data, 0, WO(l, a)) /\ Located(r.data, 4, WO(l, b))
    <2>1. PICK A, B : A = WO(l, a) /\ B = WO(l, b)
      OBVIOUS
    <2>2. A \in Seq(Byte) /\ B \in Seq(Byte) /\ 0 \in Nat
      BY <1>3, <2>1
    <2>3. Located(r.data, 0, A \o B)
      BY <1>1, <2>1 DEF NumbersBytes
    <2>4. Located(r.data, 0, A) /\ Located(r.data, 0 + Len(A), B)
      BY <1>2, <2>2, <2>3, LocatedCat
    <2>5. 0 + Len(A) = 4
      BY <1>3, <2>1
    <2>6. QED
      BY <2>1, <2>4, <2>5
  <1>5. WordLies(r, 0, 4, 4, a) /\ WordLies(r, 4, 4, 8, b)
    BY <1>1, <1>3, <1>4 DEF WordLies
  <1>6. PICK v0 : v0 = r.val
    OBVIOUS
  <1>7. r = At(r, 0, v0)
    BY <1>6 DEF IsStream
  <1>8. ReadWord(At(r, 0, v0), 4) = At(r, 4, a)
    BY <1>5, WordRead
  <1>9. ReadWord(At(r, 4, a), 4) = At(r, 8, b)
    BY <1>5, WordRead
  <1>10. PICK p, q : p = At(r, 4, a) /\ q = At(r, 8, b)
    OBVIOUS
  <1>11. p.val = a /\ q.val = b /\ q.offset = 8 /\ q = At(q, q.offset, q.val)
    BY <1>10, AtFields DEF At
  <1>12. bitstream_read_uint32(r) = p /\ bitstream_read_uint32(p) = q
    BY <1>7, <1>8, <1>9, <1>10 DEF bitstream_read_uint32
  <1>13. PICK f : f = m.float
    OBVIOUS
  <1>14. f = [negative |-> Number16(SubSeq(b, 1, 2)) >= 32768,
              whole |-> Number16(SubSeq(b, 1, 2)) % 32768,
              fraction |-> Number16(SubSeq(b, 3, 4))]
    BY <1>1, <1>13, FloatFacts DEF IsNumbers
  <1>15. PICK g : g = [q EXCEPT !.val = f]
    OBVIOUS
  <1>16. bitstream_read_float32(p) = g
    BY <1>11, <1>12, <1>14, <1>15 DEF bitstream_read_float32
  <1>17. g = At(q, 8, f)
    <2>1. [q EXCEPT !.val = f] = At(q, q.offset, f)
      BY <1>11, SetVal
    <2>2. QED
      BY <1>11, <1>15, <2>1
  <1>18. g.val = f /\ g.offset = 8
    BY <1>17, AtFields
  <1>19. ApplicationReceive(r) = Got("application", g, "Valid", <<a, f>>)
    BY <1>11, <1>12, <1>16, <1>18 DEF ApplicationReceive
  <1>20. QED
    BY <1>1, <1>13, <1>18, <1>19, GotFields

-----------------------------------------------------------------------------
(* Exclusive or, twice *)

IsBit(x) == x = 0 \/ x = 1
Sum8(a, b, c, d, e, f, g, h) ==
  a + 2 * b + 4 * c + 8 * d + 16 * e + 32 * f + 64 * g + 128 * h

LEMMA SumBits ==
  ASSUME NEW a, NEW b, NEW c, NEW d, NEW e, NEW f, NEW g, NEW h,
         IsBit(a), IsBit(b), IsBit(c), IsBit(d), IsBit(e), IsBit(f), IsBit(g), IsBit(h),
         NEW n, n = Sum8(a, b, c, d, e, f, g, h)
  PROVE  /\ Bits(n, 1, 2) = a /\ Bits(n, 2, 2) = b /\ Bits(n, 4, 2) = c /\ Bits(n, 8, 2) = d
         /\ Bits(n, 16, 2) = e /\ Bits(n, 32, 2) = f /\ Bits(n, 64, 2) = g /\ Bits(n, 128, 2) = h
         /\ n \in Byte
  <1>1. /\ a \in Nat /\ a <= 1 /\ b \in Nat /\ b <= 1 /\ c \in Nat /\ c <= 1
        /\ d \in Nat /\ d <= 1 /\ e \in Nat /\ e <= 1 /\ f \in Nat /\ f <= 1
        /\ g \in Nat /\ g <= 1 /\ h \in Nat /\ h <= 1
    BY DEF IsBit
  <1>2. n \in Nat /\ n = a + 2*b + 4*c + 8*d + 16*e + 32*f + 64*g + 128*h
    BY <1>1 DEF Sum8
  <1>3. Bits(n, 1, 2) = a
    <2>1. n \div 1 = a + 2*b + 4*c + 8*d + 16*e + 32*f + 64*g + 128*h
      BY <1>1, <1>2
    <2>2. QED
      BY <1>1, <2>1 DEF Bits
  <1>4. Bits(n, 2, 2) = b
    <2>1. n \div 2 = b + 2*c + 4*d + 8*e + 16*f + 32*g + 64*h
      BY <1>1, <1>2
    <2>2. QED
      BY <1>1, <2>1 DEF Bits
  <1>5. Bits(n, 4, 2) = c
    <2>1. n \div 4 = c + 2*d + 4*e + 8*f + 16*g + 32*h
      BY <1>1, <1>2
    <2>2. QED
      BY <1>1, <2>1 DEF Bits
  <1>6. Bits(n, 8, 2) = d
    <2>1. n \div 8 = d + 2*e + 4*f + 8*g + 16*h
      BY <1>1, <1>2
    <2>2. QED
      BY <1>1, <2>1 DEF Bits
  <1>7. Bits(n, 16, 2) = e
    <2>1. n \div 16 = e + 2*f + 4*g + 8*h
      BY <1>1, <1>2
    <2>2. QED
      BY <1>1, <2>1 DEF Bits
  <1>8. Bits(n, 32, 2) = f
    <2>1. n \div 32 = f + 2*g + 4*h
      BY <1>1, <1>2
    <2>2. QED
      BY <1>1, <2>1 DEF Bits
  <1>9. Bits(n, 64, 2) = g
    <2>1. n \div 64 = g + 2*h
      BY <1>1, <1>2
    <2>2. QED
      BY <1>1, <2>1 DEF Bits
  <1>10. Bits(n, 128, 2) = h
    <2>1. n \div 128 = h
      BY <1>1, <1>2
    <2>2. QED
      BY <1>1, <2>1 DEF Bits
  <1>11. n \in Byte
    BY <1>1, <1>2 DEF Byte
  <1>12. QED
    BY <1>3, <1>4, <1>5, <1>6, <1>7, <1>8, <1>9, <1>10, <1>11

LEMMA BitsSum ==
  ASSUME NEW n \in Byte
  PROVE  n = Sum8(Bits(n, 1, 2), Bits(n, 2, 2), Bits(n, 4, 2), Bits(n, 8, 2),
                  Bits(n, 16, 2), Bits(n, 32, 2), Bits(n, 64, 2), Bits(n, 128, 2))
  BY DEF Bits, Sum8, Byte

LEMMA BitsAreBits ==
  ASSUME NEW n \in Byte
  PROVE  /\ IsBit(Bits(n, 1, 2)) /\ IsBit(Bits(n, 2, 2)) /\ IsBit(Bits(n, 4, 2))
         /\ IsBit(Bits(n, 8, 2)) /\ IsBit(Bits(n, 16, 2)) /\ IsBit(Bits(n, 32, 2))
         /\ IsBit(Bits(n, 64, 2)) /\ IsBit(Bits(n, 128, 2))
  BY DEF Bits, IsBit, Byte

Flip(a, b) == (a + b) % 2

LEMMA FlipTwice ==
  ASSUME NEW a, NEW b, IsBit(a), IsBit(b)
  PROVE  IsBit(Flip(a, b)) /\ Flip(Flip(a, b), b) = a
  BY DEF IsBit, Flip

LEMMA XorSum ==
  ASSUME NEW a \in Byte, NEW b \in Byte
  PROVE  Xor(a, b) = Sum8(Flip(Bits(a, 1, 2), Bits(b, 1, 2)), Flip(Bits(a, 2, 2), Bits(b, 2, 2)),
                          Flip(Bits(a, 4, 2), Bits(b, 4, 2)), Flip(Bits(a, 8, 2), Bits(b, 8, 2)),
                          Flip(Bits(a, 16, 2), Bits(b, 16, 2)), Flip(Bits(a, 32, 2), Bits(b, 32, 2)),
                          Flip(Bits(a, 64, 2), Bits(b, 64, 2)),
                          Flip(Bits(a, 128, 2), Bits(b, 128, 2)))
  BY BitsAreBits DEF Xor, Sum8, Flip, IsBit

LEMMA XorTwice ==
  ASSUME NEW a \in Byte, NEW b \in Byte
  PROVE  Xor(a, b) \in Byte /\ Xor(Xor(a, b), b) = a
  <1>1. PICK a0, a1, a2, a3, a4, a5, a6, a7 :
          /\ a0 = Bits(a, 1, 2) /\ a1 = Bits(a, 2, 2)
          /\ a2 = Bits(a, 4, 2) /\ a3 = Bits(a, 8, 2)
          /\ a4 = Bits(a, 16, 2) /\ a5 = Bits(a, 32, 2)
          /\ a6 = Bits(a, 64, 2) /\ a7 = Bits(a, 128, 2)
    OBVIOUS
  <1>2. PICK b0, b1, b2, b3, b4, b5, b6, b7 :
          /\ b0 = Bits(b, 1, 2) /\ b1 = Bits(b, 2, 2)
          /\ b2 = Bits(b, 4, 2) /\ b3 = Bits(b, 8, 2)
          /\ b4 = Bits(b, 16, 2) /\ b5 = Bits(b, 32, 2)
          /\ b6 = Bits(b, 64, 2) /\ b7 = Bits(b, 128, 2)
    OBVIOUS
  <1>3. /\ IsBit(a0) /\ IsBit(a1) /\ IsBit(a2) /\ IsBit(a3)
        /\ IsBit(a4) /\ IsBit(a5) /\ IsBit(a6) /\ IsBit(a7)
        /\ IsBit(b0) /\ IsBit(b1) /\ IsBit(b2) /\ IsBit(b3)
        /\ IsBit(b4) /\ IsBit(b5) /\ IsBit(b6) /\ IsBit(b7)
    BY <1>1, <1>2, BitsAreBits
  <1>4. PICK c0, c1, c2, c3, c4, c5, c6, c7 :
          /\ c0 = Flip(a0, b0) /\ c1 = Flip(a1, b1)
          /\ c2 = Flip(a2, b2) /\ c3 = Flip(a3, b3)
          /\ c4 = Flip(a4, b4) /\ c5 = Flip(a5, b5)
          /\ c6 = Flip(a6, b6) /\ c7 = Flip(a7, b7)
    OBVIOUS
  <1>5. /\ IsBit(c0) /\ IsBit(c1) /\ IsBit(c2) /\ IsBit(c3)
        /\ IsBit(c4) /\ IsBit(c5) /\ IsBit(c6) /\ IsBit(c7)
        /\ Flip(c0, b0) = a0 /\ Flip(c1, b1) = a1 /\ Flip(c2, b2) = a2 /\ Flip(c3, b3) = a3
        /\ Flip(c4, b4) = a4 /\ Flip(c5, b5) = a5 /\ Flip(c6, b6) = a6 /\ Flip(c7, b7) = a7
    BY <1>3, <1>4, FlipTwice
  <1>6. PICK x : x = Xor(a, b)
    OBVIOUS
  <1>7. x = Sum8(c0, c1, c2, c3, c4, c5, c6, c7)
    BY <1>1, <1>2, <1>4, <1>6, XorSum
  <1>8. x \in Byte
        /\ Bits(x, 1, 2) = c0 /\ Bits(x, 2, 2) = c1 /\ Bits(x, 4, 2) = c2 /\ Bits(x, 8, 2) = c3
        /\ Bits(x, 16, 2) = c4 /\ Bits(x, 32, 2) = c5 /\ Bits(x, 64, 2) = c6 /\ Bits(x, 128, 2) = c7
    BY <1>5, <1>7, SumBits
  <1>9. Xor(x, b) = Sum8(a0, a1, a2, a3, a4, a5, a6, a7)
    BY <1>2, <1>5, <1>8, XorSum
  <1>10. a = Sum8(a0, a1, a2, a3, a4, a5, a6, a7)
    BY <1>1, BitsSum
  <1>11. QED
    BY <1>6, <1>8, <1>9, <1>10

LEMMA XorZero ==
  ASSUME NEW a \in Byte
  PROVE  Xor(a, 0) = a
  <1>1. PICK zero : zero = 0 /\ zero \in Byte
    BY SomeBytes
  <1>2. /\ Bits(zero, 1, 2) = 0 /\ Bits(zero, 2, 2) = 0 /\ Bits(zero, 4, 2) = 0 /\ Bits(zero, 8, 2) = 0
        /\ Bits(zero, 16, 2) = 0 /\ Bits(zero, 32, 2) = 0 /\ Bits(zero, 64, 2) = 0 /\ Bits(zero, 128, 2) = 0
    BY <1>1 DEF Bits
  <1>3. PICK a0, a1, a2, a3, a4, a5, a6, a7 :
          /\ a0 = Bits(a, 1, 2) /\ a1 = Bits(a, 2, 2)
          /\ a2 = Bits(a, 4, 2) /\ a3 = Bits(a, 8, 2)
          /\ a4 = Bits(a, 16, 2) /\ a5 = Bits(a, 32, 2)
          /\ a6 = Bits(a, 64, 2) /\ a7 = Bits(a, 128, 2)
    OBVIOUS
  <1>4. /\ Flip(a0, 0) = a0 /\ Flip(a1, 0) = a1 /\ Flip(a2, 0) = a2 /\ Flip(a3, 0) = a3
        /\ Flip(a4, 0) = a4 /\ Flip(a5, 0) = a5 /\ Flip(a6, 0) = a6 /\ Flip(a7, 0) = a7
    BY <1>3, BitsAreBits DEF IsBit, Flip
  <1>5. zero \in Byte
    BY <1>1
  <1>6. Xor(a, zero) = Sum8(a0, a1, a2, a3, a4, a5, a6, a7)
    BY <1>2, <1>3, <1>4, <1>5, XorSum
  <1>7. a = Sum8(a0, a1, a2, a3, a4, a5, a6, a7)
    BY <1>3, BitsSum
  <1>8. QED
    BY <1>1, <1>6, <1>7

LEMMA XorBytesTwice ==
  ASSUME NEW n \in Nat, NEW w \in Word(n), NEW mask, NEW other,
         \A i \in 1..n : mask[i] \in Byte /\ other[i] = mask[i]
  PROVE  XorBytes(w, mask) \in Word(n) /\ XorBytes(XorBytes(w, mask), other) = w
  <1>1. /\ DOMAIN w = 1..n /\ w = [i \in 1..n |-> w[i]]
        /\ \A i \in 1..n : w[i] \in Byte
    BY DEF Word
  <1>2. PICK x : x = XorBytes(w, mask)
    OBVIOUS
  <1>3. x = [i \in 1..n |-> Xor(w[i], mask[i])]
    BY <1>1, <1>2 DEF XorBytes
  <1>4. \A i \in 1..n : Xor(w[i], mask[i]) \in Byte /\ Xor(Xor(w[i], mask[i]), mask[i]) = w[i]
    BY <1>1, XorTwice
  <1>5. x \in Word(n) /\ DOMAIN x = 1..n
    BY <1>3, <1>4 DEF Word
  <1>6. XorBytes(x, other) = [i \in 1..n |-> Xor(x[i], other[i])]
    BY <1>5 DEF XorBytes
  <1>7. \A i \in 1..n : Xor(x[i], other[i]) = w[i]
    BY <1>3, <1>4
  <1>8. XorBytes(x, other) = w
    BY <1>1, <1>6, <1>7
  <1>9. QED
    BY <1>2, <1>5, <1>8

LEMMA XorBytesZero ==
  ASSUME NEW n \in Nat, NEW w \in Word(n), NEW mask, \A i \in 1..n : mask[i] = 0
  PROVE  XorBytes(w, mask) = w
  <1>1. /\ DOMAIN w = 1..n /\ w = [i \in 1..n |-> w[i]]
        /\ \A i \in 1..n : w[i] \in Byte
    BY DEF Word
  <1>2. \A i \in 1..n : Xor(w[i], mask[i]) = w[i]
    <2>1. ASSUME NEW i \in 1..n
          PROVE  Xor(w[i], mask[i]) = w[i]
      <3>1. Xor(w[i], 0) = w[i]
        BY <1>1, XorZero
      <3>2. mask[i] = 0
        OBVIOUS
      <3>3. QED
        BY <3>1, <3>2
    <2>2. QED
      BY <2>1
  <1>3. XorBytes(w, mask) = [i \in 1..n |-> Xor(w[i], mask[i])]
    BY <1>1 DEF XorBytes
  <1>4. QED
    BY <1>1, <1>2, <1>3

-----------------------------------------------------------------------------
(* The answers of a STUN server *)

Fields == {"mapped", "xorMapped", "alternate", "origin", "error"}

LEMMA FieldCases ==
  ASSUME NEW type
  PROVE  /\ ResponseField(type) \in Fields \cup {"none"}
         /\ type = StunAttributeErrorCode <=> ResponseField(type) = "error"
         /\ type = StunAttributeXorMappedAddress <=> ResponseField(type) = "xorMapped"
  BY DEF ResponseField, Fields, StunAttributeMappedAddress, StunAttributeXorMappedAddress,
         StunAttributeAlternateServer, StunAttributeOtherAddress, StunAttributeOriginServer,
         StunAttributeErrorCode

AddrBytes(p, h) == (Bytes16(1) \o p) \o h

LEMMA AddrType ==
  ASSUME NEW p \in Word(2), NEW h \in Word(4)
  PROVE  /\ p \in Seq(Byte) /\ Len(p) = 2 /\ h \in Seq(Byte) /\ Len(h) = 4
         /\ Bytes16(1) \in Seq(Byte) /\ Len(Bytes16(1)) = 2
         /\ Bytes16(1) \o p \in Seq(Byte) /\ Len(Bytes16(1) \o p) = 4
         /\ AddrBytes(p, h) \in Seq(Byte) /\ Len(AddrBytes(p, h)) = 8
  <1>1. p \in Seq(Byte) /\ Len(p) = 2
    BY ByteSeqs
  <1>2. h \in Seq(Byte) /\ Len(h) = 4
    BY Words
  <1>3. PICK one, f : one = 1 /\ one \in Uint16 /\ f = Bytes16(one)
    BY SmallNumbers
  <1>4. f \in Seq(Byte) /\ Len(f) = 2
    BY <1>3, Pair16
  <1>5. PICK e : e = f \o p
    OBVIOUS
  <1>6. e \in Seq(Byte) /\ Len(e) = Len(f) + Len(p)
    <2>1. f \in Seq(Byte) /\ p \in Seq(Byte)
      BY <1>1, <1>4
    <2>2. QED
      BY <1>5, <2>1, Grow
  <1>7. e \o h \in Seq(Byte) /\ Len(e \o h) = Len(e) + Len(h)
    <2>1. e \in Seq(Byte) /\ h \in Seq(Byte)
      BY <1>2, <1>6
    <2>2. QED
      BY <2>1, Grow
  <1>8. Len(e) = 4 /\ Len(e \o h) = 8
    BY <1>1, <1>2, <1>4, <1>6, <1>7
  <1>9. f = Bytes16(1) /\ AddrBytes(p, h) = e \o h
    BY <1>3, <1>5 DEF AddrBytes
  <1>10. QED
    BY <1>1, <1>2, <1>4, <1>5, <1>6, <1>7, <1>8, <1>9

\* The value of an attribute on the wire
Value(a) ==
  CASE a.type = StunAttributeErrorCode -> a.value
    [] a.type = StunAttributeXorMappedAddress ->
         AddrBytes(XorBytes(a.value.port, Cookie), XorBytes(a.value.host, Cookie))
    [] ResponseField(a.type) = "none" -> a.value
    [] OTHER -> AddrBytes(a.value.port, a.value.host)

LEMMA CookieBytes == Len(Cookie) = 4 /\ \A i \in 1..4 : Cookie[i] \in Byte
  BY DEF Cookie, kStunProtocolMagicCookie, Byte

LEMMA XoredAddress ==
  ASSUME NEW d \in Address
  PROVE  /\ d.port \in Word(2) /\ d.host \in Word(4)
         /\ XorBytes(d.port, Cookie) \in Word(2) /\ XorBytes(d.host, Cookie) \in Word(4)
  <1>1. d.port \in Word(2) /\ d.host \in Word(4)
    BY DEF Address, Word
  <1>2. (\A i \in 1..4 : Cookie[i] \in Byte) /\ (\A i \in 1..2 : Cookie[i] \in Byte)
    BY CookieBytes
  <1>3. PICK two, four : two = 2 /\ two \in Nat /\ four = 4 /\ four \in Nat
    OBVIOUS
  <1>4. /\ two \in Nat /\ d.port \in Word(two)
        /\ \A i \in 1..two : Cookie[i] \in Byte /\ Cookie[i] = Cookie[i]
    BY <1>1, <1>2, <1>3
  <1>5. /\ four \in Nat /\ d.host \in Word(four)
        /\ \A i \in 1..four : Cookie[i] \in Byte /\ Cookie[i] = Cookie[i]
    BY <1>1, <1>2, <1>3
  <1>6. XorBytes(d.port, Cookie) \in Word(two)
    BY <1>4, XorBytesTwice
  <1>7. XorBytes(d.host, Cookie) \in Word(four)
    BY <1>5, XorBytesTwice
  <1>8. QED
    BY <1>1, <1>3, <1>6, <1>7

\* What an attribute is, by the field it fills in
LEMMA AttributeKinds ==
  ASSUME NEW a, IsAttribute(a), NEW f, f = ResponseField(a.type)
  PROVE  /\ a.type \in Uint16
         /\ f = "none" => a.value \in Seq(Byte) /\ Len(a.value) < 65536 /\ Value(a) = a.value
         /\ f = "error" => /\ a.value \in Word(4) /\ a.value[1] = 0 /\ a.value[2] = 0
                           /\ Value(a) = a.value
         /\ f \in Fields \ {"error"} => a.value \in Address
         /\ f = "xorMapped" =>
              Value(a) = AddrBytes(XorBytes(a.value.port, Cookie), XorBytes(a.value.host, Cookie))
         /\ f \in {"mapped", "alternate", "origin"} =>
              Value(a) = AddrBytes(a.value.port, a.value.host)
  <1>1. /\ f \in Fields \cup {"none"}
        /\ a.type = StunAttributeErrorCode <=> f = "error"
        /\ a.type = StunAttributeXorMappedAddress <=> f = "xorMapped"
    BY FieldCases
  <1>2. a.type \in Uint16
    BY DEF IsAttribute
  <1>3. ASSUME f = "none"
        PROVE  a.value \in Seq(Byte) /\ Len(a.value) < 65536 /\ Value(a) = a.value
    <2>1. IsText(a.value, 65536)
      BY <1>3 DEF IsAttribute
    <2>2. Value(a) = a.value
      BY <1>1, <1>3 DEF Value
    <2>3. QED
      BY <2>1, <2>2 DEF IsText
  <1>4. ASSUME f = "error"
        PROVE  a.value \in Word(4) /\ a.value[1] = 0 /\ a.value[2] = 0 /\ Value(a) = a.value
    <2>1. a.value \in Word(4) /\ a.value[1] = 0 /\ a.value[2] = 0
      BY <1>4 DEF IsAttribute
    <2>2. Value(a) = a.value
      BY <1>1, <1>4 DEF Value
    <2>3. QED
      BY <2>1, <2>2
  <1>5. ASSUME f \in Fields \ {"error"}
        PROVE  a.value \in Address
    BY <1>5 DEF IsAttribute, Fields
  <1>6. ASSUME f = "xorMapped"
        PROVE  Value(a) = AddrBytes(XorBytes(a.value.port, Cookie), XorBytes(a.value.host, Cookie))
    BY <1>1, <1>6 DEF Value
  <1>7. ASSUME f \in {"mapped", "alternate", "origin"}
        PROVE  Value(a) = AddrBytes(a.value.port, a.value.host)
    <2>1. f # "error" /\ f # "xorMapped" /\ f # "none"
      BY <1>7
    <2>2. a.type # StunAttributeErrorCode /\ a.type # StunAttributeXorMappedAddress
      BY <1>1, <2>1
    <2>3. QED
      BY <2>1, <2>2 DEF Value
  <1>8. QED
    BY <1>2, <1>3, <1>4, <1>5, <1>6, <1>7

LEMMA AttributeType ==
  ASSUME NEW a, IsAttribute(a), NEW v, v = Value(a), NEW t, t = a.type, NEW n, n = Len(v)
  PROVE  /\ t \in Uint16 /\ v \in Seq(Byte) /\ n \in Uint16
         /\ Bytes16(t) \in Seq(Byte) /\ Len(Bytes16(t)) = 2
         /\ Bytes16(n) \in Seq(Byte) /\ Len(Bytes16(n)) = 2
         /\ B2(t, n) \in Seq(Byte) /\ Len(B2(t, n)) = 4
         /\ AttributeBytes(a) = B2(t, n) \o v
         /\ AttributeBytes(a) \in Seq(Byte) /\ Len(AttributeBytes(a)) = 4 + n
  <1>1. PICK f : f = ResponseField(a.type)
    OBVIOUS
  <1>2. /\ t \in Uint16
        /\ f = "none" => a.value \in Seq(Byte) /\ Len(a.value) < 65536 /\ v = a.value
        /\ f = "error" => a.value \in Word(4) /\ v = a.value
        /\ f \in Fields \ {"error"} => a.value \in Address
        /\ f = "xorMapped" =>
             v = AddrBytes(XorBytes(a.value.port, Cookie), XorBytes(a.value.host, Cookie))
        /\ f \in {"mapped", "alternate", "origin"} => v = AddrBytes(a.value.port, a.value.host)
    BY <1>1, AttributeKinds
  <1>3. f \in Fields \cup {"none"}
    BY <1>1, FieldCases
  <1>4. v \in Seq(Byte) /\ Len(v) <= 65535
    <2>1. CASE f = "none"
      <3>1. v \in Seq(Byte) /\ Len(v) < 65536
        BY <1>2, <2>1
      <3>2. Len(v) \in Nat
        BY <3>1, LenProperties
      <3>3. QED
        BY <3>1, <3>2
    <2>2. CASE f = "error"
      <3>1. v \in Word(4)
        BY <1>2, <2>2
      <3>2. v \in Seq(Byte) /\ Len(v) = 4
        BY <3>1, Words
      <3>3. QED
        BY <3>2
    <2>3. CASE f = "xorMapped"
      <3>1. a.value \in Address
        BY <1>2, <2>3 DEF Fields
      <3>2. PICK p, h : p = XorBytes(a.value.port, Cookie) /\ h = XorBytes(a.value.host, Cookie)
        OBVIOUS
      <3>3. p \in Word(2) /\ h \in Word(4)
        BY <3>1, <3>2, XoredAddress
      <3>4. AddrBytes(p, h) \in Seq(Byte) /\ Len(AddrBytes(p, h)) = 8
        BY <3>3, AddrType
      <3>5. v = AddrBytes(p, h)
        BY <1>2, <2>3, <3>2
      <3>6. v \in Seq(Byte) /\ Len(v) = 8
        BY <3>4, <3>5, Zenon
      <3>7. QED
        BY <3>6
    <2>4. CASE f \in {"mapped", "alternate", "origin"}
      <3>1. a.value \in Address
        BY <1>2, <2>4 DEF Fields
      <3>2. PICK p, h : p = a.value.port /\ h = a.value.host
        OBVIOUS
      <3>3. p \in Word(2) /\ h \in Word(4)
        BY <3>1, <3>2, XoredAddress
      <3>4. AddrBytes(p, h) \in Seq(Byte) /\ Len(AddrBytes(p, h)) = 8
        BY <3>3, AddrType
      <3>5. v = AddrBytes(p, h)
        BY <1>2, <2>4, <3>2
      <3>6. v \in Seq(Byte) /\ Len(v) = 8
        BY <3>4, <3>5, Zenon
      <3>7. QED
        BY <3>6
    <2>5. QED
      BY <1>3, <2>1, <2>2, <2>3, <2>4 DEF Fields
  <1>5. n \in Uint16
    <2>1. Len(v) \in Nat /\ Len(v) <= 65535
      BY <1>4, LenProperties
    <2>2. QED
      BY <2>1, AsUint16
  <1>6. PICK T, N : T = Bytes16(t) /\ N = Bytes16(n)
    OBVIOUS
  <1>7. T \in Seq(Byte) /\ Len(T) = 2 /\ N \in Seq(Byte) /\ Len(N) = 2
    BY <1>2, <1>5, <1>6, Pair16
  <1>8. PICK e : e = T \o N
    OBVIOUS
  <1>9. e \in Seq(Byte) /\ Len(e) = Len(T) + Len(N)
    <2>1. T \in Seq(Byte) /\ N \in Seq(Byte)
      BY <1>7
    <2>2. QED
      BY <1>8, <2>1, Grow
  <1>10. e \o v \in Seq(Byte) /\ Len(e \o v) = Len(e) + Len(v)
    <2>1. e \in Seq(Byte) /\ v \in Seq(Byte)
      BY <1>4, <1>9
    <2>2. QED
      BY <2>1, Grow
  <1>11. Len(e) = 4 /\ Len(e \o v) = 4 + n
    <2>1. Len(e) = 4
      BY <1>7, <1>9
    <2>2. QED
      BY <1>10, <2>1
  <1>12. e = B2(t, n)
    BY <1>6, <1>8 DEF B2
  <1>13. AttributeBytes(a) = e \o v
    BY <1>6, <1>8 DEF AttributeBytes, Value, AddrBytes, Cookie, StunAddrFamilyIPv4
  <1>14. QED
    BY <1>2, <1>4, <1>5, <1>6, <1>7, <1>9, <1>10, <1>11, <1>12, <1>13

AddrLies(r, o, p, q, P, H) ==
  /\ IsStream(r) /\ r.little = TRUE /\ o \in Nat /\ q = o + 8 /\ P \in Word(2) /\ H \in Word(4)
  /\ Located(r.data, o, AddrBytes(P, H))

LEMMA AddrRead ==
  ASSUME NEW r, NEW o, NEW q, NEW P, NEW H, AddrLies(r, o, o, q, P, H), NEW v, NEW mask
  PROVE  UnpackAddr(At(r, o, v), mask)
           = Valid(At(r, q, [host |-> XorBytes(H, mask), port |-> XorBytes(P, SubSeq(mask, 1, 2))]))
  <1>1. /\ IsStream(r) /\ r.little = TRUE /\ o \in Nat /\ q = o + 8 /\ P \in Word(2)
        /\ H \in Word(4) /\ Located(r.data, o, AddrBytes(P, H))
    BY DEF AddrLies
  <1>2. PICK one, F : one = 1 /\ one \in Uint16 /\ F = Bytes16(1)
    BY SmallNumbers
  <1>3. /\ P \in Seq(Byte) /\ Len(P) = 2 /\ H \in Seq(Byte) /\ Len(H) = 4
        /\ F \in Seq(Byte) /\ Len(F) = 2 /\ F \o P \in Seq(Byte) /\ Len(F \o P) = 4
    BY <1>1, <1>2, AddrType
  <1>4. PICK e, o2, o4 : e = F \o P /\ o2 = o + 2 /\ o4 = o + 4
    OBVIOUS
  <1>5. o2 \in Nat /\ o4 \in Nat /\ o + Len(F) = o2 /\ o + Len(e) = o4 /\ o4 = o2 + 2 /\ q = o4 + 4
    BY <1>1, <1>3, <1>4
  <1>6. Len(r.data) \in Nat
    BY <1>1, StreamFields, LenProperties
  <1>7. Located(r.data, o, e \o H)
    BY <1>1, <1>2, <1>4 DEF AddrBytes
  <1>8. Located(r.data, o, e) /\ Located(r.data, o + Len(e), H)
    <2>1. e \in Seq(Byte) /\ H \in Seq(Byte) /\ o \in Nat
      BY <1>1, <1>3, <1>4
    <2>2. QED
      BY <1>6, <1>7, <2>1, LocatedCat
  <1>9. Located(r.data, o, F) /\ Located(r.data, o + Len(F), P)
    <2>1. Located(r.data, o, F \o P)
      BY <1>4, <1>8
    <2>2. F \in Seq(Byte) /\ P \in Seq(Byte) /\ o \in Nat
      BY <1>1, <1>3
    <2>3. QED
      BY <1>6, <2>1, <2>2, LocatedCat
  <1>10. /\ Located(r.data, o, F) /\ Located(r.data, o2, P) /\ Located(r.data, o4, H)
    BY <1>5, <1>8, <1>9
  <1>11. PairLies(r, o, o2, one)
    <2>1. Located(r.data, o, WO(r.little, Bytes16(one)))
      BY <1>1, <1>2, <1>10 DEF WO
    <2>2. QED
      BY <1>1, <1>2, <1>4, <2>1 DEF PairLies
  <1>12. WordLies(r, o2, 2, o4, P) /\ WordLies(r, o4, 4, q, H)
    <2>1. Located(r.data, o2, WO(r.little, P)) /\ Located(r.data, o4, WO(r.little, H))
      BY <1>1, <1>10 DEF WO
    <2>2. QED
      BY <1>1, <1>3, <1>5, <2>1 DEF WordLies
  <1>13. bitstream_read_uint16(At(r, o, v)) = At(r, o2, one)
    BY <1>11, PairRead
  <1>14. ReadWord(At(r, o2, one), 2) = At(r, o4, P)
    BY <1>12, WordRead
  <1>15. ReadWord(At(r, o4, P), 4) = At(r, q, H)
    BY <1>12, WordRead
  <1>16. PICK s, s1, s2, s3 : /\ s = At(r, o, v) /\ s1 = At(r, o2, one) /\ s2 = At(r, o4, P)
                              /\ s3 = At(r, q, H)
    OBVIOUS
  <1>17. /\ s1.val = 1 /\ s2.val = P /\ s3.val = H /\ s3.offset = q
         /\ s3 = At(s3, s3.offset, s3.val) /\ \A x : At(s3, q, x) = At(r, q, x)
    BY <1>2, <1>16, AtFields DEF At
  <1>18. PICK x : x = [host |-> XorBytes(H, mask), port |-> XorBytes(P, SubSeq(mask, 1, 2))]
    OBVIOUS
  <1>19. [s3 EXCEPT !.val = x] = At(r, q, x)
    <2>1. [s3 EXCEPT !.val = x] = At(s3, s3.offset, x)
      BY <1>17, SetVal
    <2>2. QED
      BY <1>17, <2>1
  <1>20. net_addr_set(s, XorBytes(H, mask), XorBytes(P, SubSeq(mask, 1, 2)), TRUE) = x
    BY <1>18 DEF net_addr_set
  <1>21. UnpackAddr(s, mask) = Valid([s3 EXCEPT !.val = x])
    BY <1>13, <1>14, <1>15, <1>16, <1>17, <1>20
       DEF UnpackAddr, bitstream_read_uint32, StunAddrFamilyIPv4
  <1>22. QED
    BY <1>16, <1>18, <1>19, <1>21

\* What is made of an attribute
Given(a) ==
  IF ResponseField(a.type) = "none" THEN Len(Value(a))
  ELSE IF ResponseField(a.type) = "error" THEN 0 ELSE a.value

ValueLies(r, o, n, q, a) ==
  /\ IsStream(r) /\ r.little = TRUE /\ o \in Nat /\ IsAttribute(a) /\ n = Len(Value(a))
  /\ q = o + n /\ q <= r.bound /\ Located(r.data, o, Value(a))

LEMMA Skipped ==
  ASSUME NEW r, NEW o, NEW n, NEW q, NEW a, ValueLies(r, o, n, q, a)
  PROVE  bitstream_skip_bytes(At(r, o, n), n) = At(r, q, n)
  <1>1. /\ IsStream(r) /\ o \in Nat /\ IsAttribute(a) /\ n = Len(Value(a)) /\ q = o + n
        /\ q <= r.bound
    BY DEF ValueLies
  <1>2. n \in Nat /\ r.bound \in Nat
    BY <1>1, AttributeType, Uint16Nat, StreamFields
  <1>3. PICK s : s = At(r, o, n)
    OBVIOUS
  <1>4. s.offset = o /\ s.bound = r.bound /\ s.val = n /\ s = At(s, s.offset, s.val)
        /\ At(s, q, n) = At(r, q, n)
    BY <1>3, AtFields DEF At
  <1>5. [s EXCEPT !.offset = q] = At(s, q, s.val)
    BY <1>4, SetOffset
  <1>6. Fits(s, n) /\ ~(s.offset + n > s.bound) /\ s.offset + n = q
    BY <1>1, <1>2, <1>4 DEF Fits
  <1>7. bitstream_skip_bytes(s, n) = [s EXCEPT !.offset = q]
    BY <1>6 DEF bitstream_skip_bytes
  <1>8. QED
    BY <1>3, <1>4, <1>5, <1>7

LEMMA ErrorRead ==
  ASSUME NEW r, NEW o, NEW n, NEW q, NEW a, ValueLies(r, o, n, q, a),
         ResponseField(a.type) = "error"
  PROVE  stunProtocolUnpackAttributeError(At(r, o, n)) = Valid(At(r, q, 0))
  <1>1. /\ IsStream(r) /\ r.little = TRUE /\ o \in Nat /\ IsAttribute(a) /\ n = Len(Value(a))
        /\ q = o + n /\ Located(r.data, o, Value(a))
    BY DEF ValueLies
  <1>2. a.value \in Word(4) /\ a.value[1] = 0 /\ a.value[2] = 0 /\ Value(a) = a.value
    BY <1>1, AttributeKinds
  <1>3. PICK w : w = a.value
    OBVIOUS
  <1>4. w \in Seq(Byte) /\ Len(w) = 4 /\ w[1] = 0 /\ w[2] = 0
    BY <1>2, <1>3, Words
  <1>5. WordLies(r, o, 4, q, w)
    <2>1. Located(r.data, o, WO(r.little, w))
      BY <1>1, <1>2, <1>3 DEF WO
    <2>2. q = o + 4 /\ 4 = Len(w)
      BY <1>1, <1>2, <1>3, <1>4
    <2>3. QED
      BY <1>1, <1>4, <2>1, <2>2 DEF WordLies
  <1>6. ReadWord(At(r, o, n), 4) = At(r, q, w)
    BY <1>5, WordRead
  <1>7. PICK s : s = At(r, q, w)
    OBVIOUS
  <1>8. s.val = w /\ s.offset = q /\ s = At(s, s.offset, s.val) /\ At(s, q, 0) = At(r, q, 0)
    BY <1>7, AtFields DEF At
  <1>9. (w[2] \div 32) * 100 + w[1] = 0
    BY <1>4
  <1>10. PICK zero : zero = 0
    OBVIOUS
  <1>11. [s EXCEPT !.val = zero] = At(s, s.offset, zero)
    BY <1>8, SetVal
  <1>12. stunProtocolUnpackAttributeError(At(r, o, n)) = Valid([s EXCEPT !.val = zero])
    BY <1>6, <1>7, <1>8, <1>9, <1>10 DEF stunProtocolUnpackAttributeError, bitstream_read_uint32
  <1>13. QED
    BY <1>8, <1>10, <1>11, <1>12

LEMMA MaskedAddress ==
  ASSUME NEW d \in Address
  PROVE  /\ XorBytes(XorBytes(d.host, Cookie), Cookie) = d.host
         /\ XorBytes(XorBytes(d.port, Cookie), SubSeq(Cookie, 1, 2)) = d.port
         /\ XorBytes(d.host, <<0, 0, 0, 0>>) = d.host
         /\ XorBytes(d.port, SubSeq(<<0, 0, 0, 0>>, 1, 2)) = d.port
  <1>1. d.port \in Word(2) /\ d.host \in Word(4)
    BY XoredAddress
  <1>2. PICK two, four : two = 2 /\ two \in Nat /\ four = 4 /\ four \in Nat
    OBVIOUS
  <1>3. two \in Nat /\ four \in Nat /\ d.port \in Word(two) /\ d.host \in Word(four)
    BY <1>1, <1>2
  <1>4. PICK short, zeros, zero2 : /\ short = SubSeq(Cookie, 1, 2) /\ zeros = <<0, 0, 0, 0>>
                                   /\ zero2 = SubSeq(<<0, 0, 0, 0>>, 1, 2)
    OBVIOUS
  <1>5. /\ \A i \in 1..four : Cookie[i] \in Byte /\ Cookie[i] = Cookie[i]
        /\ \A i \in 1..two : Cookie[i] \in Byte
    BY <1>2, CookieBytes
  <1>6. \A i \in 1..two : Cookie[i] \in Byte /\ short[i] = Cookie[i]
    <2>1. Cookie \in Seq(Byte) /\ Len(Cookie) = 4
      BY DEF Cookie, kStunProtocolMagicCookie, Byte
    <2>2. \A i \in 1..2 : short[i] = Cookie[i]
      BY <1>4, <2>1
    <2>3. QED
      BY <1>2, <1>5, <2>2
  <1>7. \A i \in 1..four : zeros[i] = 0
    BY <1>2, <1>4
  <1>8. \A i \in 1..two : zero2[i] = 0
    <2>1. zeros \in Seq(Byte) /\ Len(zeros) = 4 /\ zeros[1] = 0 /\ zeros[2] = 0
      BY <1>4, SomeBytes
    <2>2. \A i \in 1..2 : zero2[i] = zeros[i]
      BY <1>4, <2>1
    <2>3. QED
      BY <1>2, <2>1, <2>2
  <1>9. XorBytes(XorBytes(d.host, Cookie), Cookie) = d.host
    BY <1>3, <1>5, XorBytesTwice
  <1>10. XorBytes(XorBytes(d.port, Cookie), short) = d.port
    BY <1>3, <1>6, XorBytesTwice
  <1>11. XorBytes(d.host, zeros) = d.host
    BY <1>3, <1>7, XorBytesZero
  <1>12. XorBytes(d.port, zero2) = d.port
    BY <1>3, <1>8, XorBytesZero
  <1>13. QED
    BY <1>4, <1>9, <1>10, <1>11, <1>12

LEMMA XorMappedValue ==
  ASSUME NEW a, a.type = StunAttributeXorMappedAddress, a.type # StunAttributeErrorCode,
         ResponseField(a.type) # "none"
  PROVE  Value(a) = AddrBytes(XorBytes(a.value.port, Cookie), XorBytes(a.value.host, Cookie))
  BY DEF Value

LEMMA AttributeRead ==
  ASSUME NEW r, NEW o, NEW n, NEW q, NEW a, ValueLies(r, o, n, q, a)
  PROVE  UnpackAttribute(At(r, o, n), ResponseField(a.type), n) = Valid(At(r, q, Given(a)))
  <1>1. /\ IsStream(r) /\ r.little = TRUE /\ o \in Nat /\ IsAttribute(a) /\ n = Len(Value(a))
        /\ q = o + n /\ Located(r.data, o, Value(a))
    BY DEF ValueLies
  <1>2. PICK f, s : f = ResponseField(a.type) /\ s = At(r, o, n)
    OBVIOUS
  <1>3. f \in Fields \cup {"none"}
    BY <1>2, FieldCases
  <1>4. CASE f = "none"
    <2>1. bitstream_skip_bytes(s, n) = At(r, q, n)
      BY <1>2, Skipped
    <2>2. Given(a) = n
      BY <1>1, <1>2, <1>4 DEF Given
    <2>3. UnpackAttribute(s, f, n) = Valid(bitstream_skip_bytes(s, n))
      BY <1>4 DEF UnpackAttribute
    <2>4. QED
      BY <1>2, <2>1, <2>2, <2>3
  <1>5. CASE f = "error"
    <2>1. stunProtocolUnpackAttributeError(s) = Valid(At(r, q, 0))
      BY <1>2, <1>5, ErrorRead
    <2>2. Given(a) = 0
      BY <1>2, <1>5 DEF Given
    <2>3. UnpackAttribute(s, f, n) = stunProtocolUnpackAttributeError(s)
      BY <1>5 DEF UnpackAttribute
    <2>4. QED
      BY <1>2, <2>1, <2>2, <2>3
  <1>6. ASSUME f \in Fields \ {"error"}
        PROVE  /\ a.value \in Address /\ Given(a) = a.value
               /\ a.value = [host |-> a.value.host, port |-> a.value.port]
    <2>1. a.value \in Address
      BY <1>1, <1>2, <1>6, AttributeKinds
    <2>2. Given(a) = a.value
      BY <1>2, <1>6 DEF Given, Fields
    <2>3. a.value = [host |-> a.value.host, port |-> a.value.port]
      BY <2>1, AddressType
    <2>4. QED
      BY <2>1, <2>2, <2>3
  <1>7. CASE f = "xorMapped"
    <2>1. PICK d : d = a.value
      OBVIOUS
    <2>2. d \in Address /\ Given(a) = d /\ d = [host |-> d.host, port |-> d.port]
      BY <1>6, <1>7, <2>1 DEF Fields
    <2>3. PICK P, H : P = XorBytes(d.port, Cookie) /\ H = XorBytes(d.host, Cookie)
      OBVIOUS
    <2>4. P \in Word(2) /\ H \in Word(4)
      BY <2>2, <2>3, XoredAddress
    <2>5. Value(a) = AddrBytes(P, H)
      <3>1. a.type = StunAttributeXorMappedAddress /\ a.type # StunAttributeErrorCode
        BY <1>2, <1>7, FieldCases
      <3>2. Value(a) = AddrBytes(XorBytes(a.value.port, Cookie), XorBytes(a.value.host, Cookie))
        BY <1>2, <1>7, <3>1, XorMappedValue
      <3>3. QED
        BY <2>1, <2>3, <3>2
    <2>6. AddrLies(r, o, o, q, P, H)
      <3>1. Len(AddrBytes(P, H)) = 8
        BY <2>4, AddrType
      <3>2. q = o + 8
        BY <1>1, <2>5, <3>1
      <3>3. QED
        BY <1>1, <2>4, <2>5, <3>2 DEF AddrLies
    <2>7. UnpackAddr(s, Cookie)
            = Valid(At(r, q, [host |-> XorBytes(H, Cookie), port |-> XorBytes(P, SubSeq(Cookie, 1, 2))]))
      BY <1>2, <2>6, AddrRead
    <2>8. XorBytes(H, Cookie) = d.host /\ XorBytes(P, SubSeq(Cookie, 1, 2)) = d.port
      BY <2>2, <2>3, MaskedAddress
    <2>9. UnpackAttribute(s, f, n) = UnpackAddr(s, Cookie)
      BY <1>7 DEF UnpackAttribute, stunProtocolUnpackAttributeXorAddr, Cookie
    <2>10. QED
      BY <1>2, <2>2, <2>7, <2>8, <2>9
  <1>8. CASE f \in {"mapped", "alternate", "origin"}
    <2>1. PICK d : d = a.value
      OBVIOUS
    <2>2. d \in Address /\ Given(a) = d /\ d = [host |-> d.host, port |-> d.port]
      BY <1>6, <1>8, <2>1 DEF Fields
    <2>3. PICK P, H, Z : P = d.port /\ H = d.host /\ Z = <<0, 0, 0, 0>>
      OBVIOUS
    <2>4. P \in Word(2) /\ H \in Word(4)
      BY <2>2, <2>3, XoredAddress
    <2>5. Value(a) = AddrBytes(P, H)
      BY <1>1, <1>2, <1>8, <2>1, <2>3, AttributeKinds
    <2>6. AddrLies(r, o, o, q, P, H)
      <3>1. Len(AddrBytes(P, H)) = 8
        BY <2>4, AddrType
      <3>2. q = o + 8
        BY <1>1, <2>5, <3>1
      <3>3. QED
        BY <1>1, <2>4, <2>5, <3>2 DEF AddrLies
    <2>7. UnpackAddr(s, Z)
            = Valid(At(r, q, [host |-> XorBytes(H, Z), port |-> XorBytes(P, SubSeq(Z, 1, 2))]))
      BY <1>2, <2>6, AddrRead
    <2>8. XorBytes(H, Z) = d.host /\ XorBytes(P, SubSeq(Z, 1, 2)) = d.port
      BY <2>2, <2>3, MaskedAddress
    <2>9. UnpackAttribute(s, f, n) = UnpackAddr(s, Z)
      BY <1>8, <2>3 DEF UnpackAttribute, stunProtocolUnpackAttributeAddr
    <2>10. QED
      BY <1>2, <2>2, <2>7, <2>8, <2>9
  <1>9. QED
    BY <1>3, <1>4, <1>5, <1>7, <1>8 DEF Fields

\* One turn of the loop
Turn(stream, remaining, response) ==
  [stream |-> stream, result |-> "Valid", remainingBytes |-> remaining, response |-> response]

Filled(response, a) ==
  IF ResponseField(a.type) = "none" THEN response
  ELSE [response EXCEPT ![ResponseField(a.type)] = Given(a)]

AttributeLies(r, o, q, a) ==
  /\ IsStream(r) /\ r.little = TRUE /\ o \in Nat /\ IsAttribute(a)
  /\ q = o + Len(AttributeBytes(a)) /\ Located(r.data, o, AttributeBytes(a))

LEMMA NextAttribute ==
  ASSUME NEW r, NEW o, NEW q, NEW a, AttributeLies(r, o, q, a), NEW v, NEW response, NEW k, NEW j,
         k \in Nat, j \in Nat, k = j + Len(AttributeBytes(a))
  PROVE  UnpackNext(Turn(At(r, o, v), k, response))
           = Turn(At(r, q, Given(a)), j, Filled(response, a))
  <1>1. /\ IsStream(r) /\ r.little = TRUE /\ o \in Nat /\ IsAttribute(a)
        /\ q = o + Len(AttributeBytes(a)) /\ Located(r.data, o, AttributeBytes(a))
    BY DEF AttributeLies
  <1>2. PICK t, V, n : t = a.type /\ V = Value(a) /\ n = Len(V)
    OBVIOUS
  <1>3. /\ t \in Uint16 /\ V \in Seq(Byte) /\ n \in Uint16
        /\ Bytes16(t) \in Seq(Byte) /\ Len(Bytes16(t)) = 2
        /\ Bytes16(n) \in Seq(Byte) /\ Len(Bytes16(n)) = 2
        /\ B2(t, n) \in Seq(Byte) /\ Len(B2(t, n)) = 4
        /\ AttributeBytes(a) = B2(t, n) \o V
        /\ Len(AttributeBytes(a)) = 4 + n
    <2>1. IsAttribute(a) /\ t = a.type /\ V = Value(a) /\ n = Len(V)
      BY <1>1, <1>2
    <2>2. QED
      BY ONLY <2>1, AttributeType
  <1>4. n \in Nat /\ Len(r.data) \in Nat /\ r.bound = Len(r.data)
    BY <1>1, <1>3, Uint16Nat, StreamFields, LenProperties
  <1>5. PICK o2, o4, T, N, e : /\ o2 = o + 2 /\ o4 = o + 4 /\ T = Bytes16(t) /\ N = Bytes16(n)
                               /\ e = B2(t, n)
    OBVIOUS
  <1>6. /\ o2 \in Nat /\ o4 \in Nat /\ o + Len(T) = o2 /\ o + Len(e) = o4 /\ o4 = o2 + 2
    <2>1. Len(T) = 2 /\ Len(e) = 4
      BY <1>3, <1>5
    <2>2. o \in Nat /\ o2 = o + 2 /\ o4 = o + 4
      BY <1>1, <1>5
    <2>3. QED
      BY <2>1, <2>2
  <1>7. Located(r.data, o, e) /\ Located(r.data, o + Len(e), V)
    <2>1. Located(r.data, o, e \o V)
      BY <1>1, <1>3, <1>5
    <2>2. e \in Seq(Byte) /\ V \in Seq(Byte) /\ o \in Nat /\ Len(r.data) \in Nat
      BY <1>1, <1>3, <1>4, <1>5
    <2>3. QED
      BY <2>1, <2>2, LocatedCat
  <1>8. Located(r.data, o, T) /\ Located(r.data, o + Len(T), N)
    <2>1. Located(r.data, o, T \o N)
      BY <1>5, <1>7 DEF B2
    <2>2. T \in Seq(Byte) /\ N \in Seq(Byte) /\ o \in Nat /\ Len(r.data) \in Nat
      BY <1>1, <1>3, <1>4, <1>5
    <2>3. QED
      BY <2>1, <2>2, LocatedCat
  <1>9. Located(r.data, o, T) /\ Located(r.data, o2, N) /\ Located(r.data, o4, V)
    BY <1>6, <1>7, <1>8
  <1>10. PairLies(r, o, o2, t) /\ PairLies(r, o2, o4, n)
    <2>1. /\ Located(r.data, o, WO(r.little, Bytes16(t)))
          /\ Located(r.data, o2, WO(r.little, Bytes16(n)))
      BY <1>1, <1>5, <1>9 DEF WO
    <2>2. QED
      BY <1>1, <1>3, <1>5, <1>6, <2>1 DEF PairLies
  <1>11. q = o4 + n
    BY <1>1, <1>3, <1>4, <1>5
  <1>12. ValueLies(r, o4, n, q, a)
    <2>1. q <= r.bound
      <3>1. o4 + Len(V) <= Len(r.data)
        BY <1>9 DEF Located
      <3>2. QED
        BY <1>2, <1>4, <1>11, <3>1
    <2>2. QED
      BY <1>1, <1>2, <1>6, <1>9, <1>11, <2>1 DEF ValueLies
  <1>13. PICK s0, s1, s2, s3 : /\ s0 = At(r, o, v) /\ s1 = At(r, o2, t) /\ s2 = At(r, o4, n)
                               /\ s3 = At(r, q, Given(a))
    OBVIOUS
  <1>14. bitstream_read_uint16(s0) = s1
    BY <1>10, <1>13, PairRead
  <1>15. bitstream_read_uint16(s1) = s2
    BY <1>10, <1>13, PairRead
  <1>16. s1.val = t /\ s2.val = n /\ s3.val = Given(a)
    BY <1>13, AtFields
  <1>17. PICK f : f = ResponseField(t)
    OBVIOUS
  <1>18. UnpackAttribute(s2, f, n) = Valid(s3)
    BY <1>2, <1>12, <1>13, <1>17, AttributeRead
  <1>19. Valid(s3).stream = s3 /\ Valid(s3).result = "Valid"
    BY DEF Valid
  <1>20. PICK R : R = Turn(s0, k, response)
    OBVIOUS
  <1>21. R.stream = s0 /\ R.result = "Valid" /\ R.remainingBytes = k /\ R.response = response
    BY <1>20 DEF Turn
  <1>22. k - n - 4 = j /\ ~(k <= 0)
    BY <1>3, <1>4
  <1>23. UnpackNext(R) = [stream |-> s3, result |-> "Valid", remainingBytes |-> k - n - 4,
                          response |-> IF f = "none" THEN response
                                       ELSE [response EXCEPT ![f] = Given(a)]]
    BY <1>14, <1>15, <1>16, <1>17, <1>18, <1>19, <1>21, <1>22 DEF UnpackNext
  <1>24. QED
    BY <1>2, <1>13, <1>17, <1>20, <1>22, <1>23 DEF Turn, Filled

Remains(k, j, a) == k \in Nat /\ j \in Nat /\ k = j + Len(AttributeBytes(a))

LEMMA NextTurn ==
  ASSUME NEW r, NEW o, NEW q, NEW a, AttributeLies(r, o, q, a), NEW v, NEW response, NEW k, NEW j,
         Remains(k, j, a)
  PROVE  UnpackNext(Turn(At(r, o, v), k, response))
           = Turn(At(r, q, Given(a)), j, Filled(response, a))
  BY NextAttribute DEF Remains

\* The body of an answer, attribute by attribute
AreAttributes(attributes, n) ==
  n \in Nat /\ n = Len(attributes) /\ \A i \in 1..n : IsAttribute(attributes[i])

BodyRun(g, n, attributes) ==
  /\ g[0] = << >> /\ AnswerBody(attributes) = g[n]
  /\ \A k \in 0..n : g[k] \in Seq(Byte)
  /\ \A k \in 1..n : g[k] = g[k - 1] \o AttributeBytes(attributes[k])

LEMMA BodyExists ==
  ASSUME NEW attributes, NEW n, AreAttributes(attributes, n)
  PROVE  \E g : BodyRun(g, n, attributes)
  <1>1. n \in Nat /\ n = Len(attributes)
    BY DEF AreAttributes
  <1> DEFINE P == [k \in 1..n |-> AttributeBytes(attributes[k])]
  <1>2. \A k \in 1..n : P[k] = AttributeBytes(attributes[k]) /\ P[k] \in Seq(Byte)
    <2>1. ASSUME NEW k \in 1..n
          PROVE  AttributeBytes(attributes[k]) \in Seq(Byte)
      <3>1. PICK a : a = attributes[k]
        OBVIOUS
      <3>2. IsAttribute(a)
        BY <3>1 DEF AreAttributes
      <3>3. AttributeBytes(a) \in Seq(Byte)
        BY <3>2, AttributeType
      <3>4. QED
        BY <3>1, <3>3
    <2>2. QED
      BY <2>1
  <1> HIDE DEF P
  <1> DEFINE S == Seq(Byte)
             T == [k \in 1..n |-> [o \in S |-> o \o P[k]]]
             a == << >>
             Steps(g) == [k \in 0..n |-> IF k = 0 THEN a ELSE g[k - 1] \o AttributeBytes(attributes[k])]
  <1>3. a \in S
    OBVIOUS
  <1>4. ASSUME NEW o \in S, NEW d \in S
        PROVE  o \o d \in S
    BY Grow
  <1> HIDE DEF S, a
  <1>5. \A k \in 1..n : \A o \in S : o \o P[k] \in S
    BY <1>2, <1>4 DEF S
  <1>6. /\ T \in [1..n -> [S -> S]]
        /\ \A k \in 1..n : \A o \in S : T[k][o] = o \o P[k]
    BY <1>5
  <1> HIDE DEF T
  <1>7. PICK f : Takes(f, T, n, S, a)
    <2>1. IsSteps(T, n, S)
      BY <1>6 DEF IsSteps
    <2>2. QED
      BY <1>1, <1>3, <2>1, StepsExist, Zenon
  <1>8. \A k \in 1..n : f[k] = f[k - 1] \o AttributeBytes(attributes[k])
    <2>1. \A k \in 1..n : k - 1 \in 0..n /\ f[k - 1] \in S
      <3>1. \A k \in 1..n : k - 1 \in 0..n
        BY <1>1
      <3>2. QED
        BY <1>7, <3>1 DEF Takes
    <2>2. \A k \in 1..n : f[k] = f[k - 1] \o P[k]
      BY <1>6, <1>7, <2>1 DEF Takes
    <2>3. QED
      BY <1>2, <2>2
  <1>9. f = Steps(f)
    <2>1. \A k \in 0..n :
            f[k] = IF k = 0 THEN a ELSE f[k - 1] \o AttributeBytes(attributes[k])
      <3>1. f[0] = a
        BY <1>7 DEF Takes
      <3>2. \A k \in 0..n : k = 0 \/ k \in 1..n
        BY <1>1
      <3>3. ASSUME NEW k \in 0..n
            PROVE  f[k] = IF k = 0 THEN a ELSE f[k - 1] \o AttributeBytes(attributes[k])
        <4>1. CASE k = 0
          BY <3>1, <4>1
        <4>2. CASE k \in 1..n
          <5>1. PICK y : y = f[k - 1] \o AttributeBytes(attributes[k])
            OBVIOUS
          <5>2. f[k] = y
            BY <1>8, <4>2, <5>1
          <5>3. k # 0
            BY <1>1, <4>2
          <5>4. f[k] = IF k = 0 THEN a ELSE y
            BY <5>2, <5>3
          <5>5. QED
            BY <5>1, <5>4
        <4>3. QED
          BY <3>2, <4>1, <4>2
      <3>4. QED
        BY <3>3
    <2>2. f = [k \in 0..n |-> f[k]]
      BY <1>7 DEF Takes
    <2>3. QED
      BY <2>1, <2>2
  <1>10. PICK g : g = (CHOOSE h : h = Steps(h))
    OBVIOUS
  <1>11. g = Steps(g)
    <2> HIDE DEF Steps
    <2>1. QED
      BY <1>9, <1>10
  <1>12. AnswerBody(attributes) = g[n]
    BY <1>1, <1>10 DEF AnswerBody, a
  <1>13. g[0] = a /\ \A k \in 1..n : g[k] = g[k - 1] \o AttributeBytes(attributes[k])
    BY <1>1, <1>11
  <1>14. \A k \in 0..n : k \in {j \in 0..n : g[j] \in S}
    <2>1. ASSUME NEW k \in 1..n, k - 1 \in {j \in 0..n : g[j] \in S}
          PROVE  k \in {j \in 0..n : g[j] \in S}
      <3>1. PICK e, y : e = g[k - 1] /\ y = e \o P[k]
        OBVIOUS
      <3>2. e \in S
        BY <2>1, <3>1
      <3>3. g[k] = y
        <4>1. P[k] = AttributeBytes(attributes[k])
          BY <1>2
        <4>2. g[k] = g[k - 1] \o AttributeBytes(attributes[k])
          BY <1>13
        <4>3. QED
          BY <3>1, <4>1, <4>2
      <3>4. y \in S
        BY <1>5, <3>1, <3>2
      <3>5. k \in 0..n
        BY <1>1
      <3>6. QED
        BY <3>3, <3>4, <3>5
    <2>2. 0 \in {j \in 0..n : g[j] \in S}
      BY <1>1, <1>3, <1>13
    <2>3. QED
      BY <1>1, <2>1, <2>2, UpTo
  <1>15. QED
    BY <1>12, <1>13, <1>14 DEF BodyRun, S, a

LEMMA BodyLengths ==
  ASSUME NEW attributes, NEW n, AreAttributes(attributes, n), NEW g, BodyRun(g, n, attributes)
  PROVE  /\ \A k \in 0..n : Len(g[k]) \in Nat /\ k <= Len(g[k])
         /\ \A k \in 1..n : Len(g[k]) = Len(g[k - 1]) + Len(AttributeBytes(attributes[k]))
         /\ \A k \in 1..n : Len(AttributeBytes(attributes[k])) \in Nat
         /\ Len(g[0]) = 0
  <1>1. n \in Nat
    BY DEF AreAttributes
  <1>2. ASSUME NEW k \in 1..n
        PROVE  /\ Len(g[k]) = Len(g[k - 1]) + Len(AttributeBytes(attributes[k]))
               /\ Len(AttributeBytes(attributes[k])) \in Nat
               /\ 4 <= Len(AttributeBytes(attributes[k]))
    <2>1. PICK a, e, b : a = attributes[k] /\ e = g[k - 1] /\ b = AttributeBytes(a)
      OBVIOUS
    <2>2. IsAttribute(a)
      BY <2>1 DEF AreAttributes
    <2>3. PICK v, l : v = Value(a) /\ l = Len(v)
      OBVIOUS
    <2>4. b \in Seq(Byte) /\ Len(b) = 4 + l /\ l \in Uint16
      BY <2>1, <2>2, <2>3, AttributeType
    <2>5. l \in Nat
      BY <2>4, Uint16Nat
    <2>6. k - 1 \in 0..n
      BY <1>1
    <2>7. e \in Seq(Byte) /\ g[k] = e \o b
      BY <2>1, <2>6 DEF BodyRun
    <2>8. Len(e \o b) = Len(e) + Len(b)
      <3>1. e \in Seq(Byte) /\ b \in Seq(Byte)
        BY <2>4, <2>7
      <3>2. QED
        BY <3>1, Grow
    <2>9. Len(b) \in Nat /\ 4 <= Len(b)
      BY <2>4, <2>5
    <2>10. QED
      BY <2>1, <2>7, <2>8, <2>9
  <1>3. \A k \in 0..n : Len(g[k]) \in Nat
    BY LenProperties DEF BodyRun
  <1>4. Len(g[0]) = 0
    BY DEF BodyRun
  <1>5. \A k \in 0..n : k \in {j \in 0..n : j <= Len(g[j])}
    <2>1. ASSUME NEW k \in 1..n, k - 1 \in {j \in 0..n : j <= Len(g[j])}
          PROVE  k \in {j \in 0..n : j <= Len(g[j])}
      <3>1. k - 1 \in 0..n /\ k - 1 <= Len(g[k - 1])
        BY <2>1
      <3>2. PICK x, y, z : /\ x = Len(g[k - 1]) /\ y = Len(g[k])
                           /\ z = Len(AttributeBytes(attributes[k]))
        OBVIOUS
      <3>3. x \in Nat /\ y = x + z /\ z \in Nat /\ 4 <= z /\ k - 1 <= x
        BY <1>2, <1>3, <3>1, <3>2
      <3>4. k <= y
        BY <1>1, <3>3
      <3>5. QED
        BY <1>1, <3>2, <3>4
    <2>2. 0 \in {j \in 0..n : j <= Len(g[j])}
      BY <1>1, <1>4
    <2>3. QED
      BY <1>1, <2>1, <2>2, UpTo
  <1>6. QED
    BY <1>2, <1>3, <1>4, <1>5

LEMMA BodyLies ==
  ASSUME NEW attributes, NEW n, AreAttributes(attributes, n), NEW g, BodyRun(g, n, attributes),
         NEW r, IsStream(r), r.little = TRUE, Located(r.data, 20, g[n])
  PROVE  \A k \in 1..n : AttributeLies(r, 20 + Len(g[k - 1]), 20 + Len(g[k]), attributes[k])
  <1>1. n \in Nat
    BY DEF AreAttributes
  <1>2. PICK D, c : D = r.data /\ c = 20
    OBVIOUS
  <1>3. Len(D) \in Nat /\ c \in Nat
    BY <1>2, StreamFields, LenProperties
  <1>4. ASSUME NEW k \in 1..n, Located(D, c, g[k])
        PROVE  /\ Located(D, c, g[k - 1])
               /\ Located(D, c + Len(g[k - 1]), AttributeBytes(attributes[k]))
    <2>1. PICK a, e, b : a = attributes[k] /\ e = g[k - 1] /\ b = AttributeBytes(a)
      OBVIOUS
    <2>2. IsAttribute(a)
      BY <2>1 DEF AreAttributes
    <2>3. b \in Seq(Byte)
      BY <2>1, <2>2, AttributeType
    <2>4. k - 1 \in 0..n
      BY <1>1
    <2>5. e \in Seq(Byte) /\ g[k] = e \o b
      BY <2>1, <2>4 DEF BodyRun
    <2>6. Located(D, c, e \o b)
      BY <1>4, <2>5
    <2>7. Located(D, c, e) /\ Located(D, c + Len(e), b)
      BY <1>3, <2>3, <2>5, <2>6, LocatedCat
    <2>8. QED
      BY <2>1, <2>7
  <1> DEFINE H == {k \in 0..n : Located(D, c, g[n - k])}
  <1>5. 0 \in H
    <2>1. n - 0 = n
      BY <1>1
    <2>2. QED
      BY <1>1, <1>2, <2>1
  <1>6. ASSUME NEW k \in 1..n, k - 1 \in H PROVE k \in H
    <2>1. PICK j \in 1..n : j = n - (k - 1)
      BY <1>1
    <2>2. j - 1 = n - k /\ k \in 0..n
      BY <1>1, <2>1
    <2>3. Located(D, c, g[j])
      BY <1>6, <2>1
    <2>4. Located(D, c, g[j - 1])
      BY <1>4, <2>3
    <2>5. QED
      BY <2>2, <2>4
  <1> HIDE DEF H
  <1>7. \A k \in 0..n : k \in H
    BY <1>1, <1>5, <1>6, UpTo
  <1>8. ASSUME NEW k \in 1..n
        PROVE  AttributeLies(r, 20 + Len(g[k - 1]), 20 + Len(g[k]), attributes[k])
    <2>1. n - k \in 0..n /\ n - (n - k) = k
      BY <1>1
    <2>2. Located(D, c, g[k])
      BY <1>7, <2>1 DEF H
    <2>3. Located(D, c + Len(g[k - 1]), AttributeBytes(attributes[k]))
      BY <1>4, <2>2
    <2>4. PICK x, y, z : /\ x = Len(g[k - 1]) /\ y = Len(g[k])
                         /\ z = Len(AttributeBytes(attributes[k]))
      OBVIOUS
    <2>5. x \in Nat /\ z \in Nat /\ y = x + z
      <3>1. k - 1 \in 0..n
        BY <1>1
      <3>2. QED
        BY <2>4, <3>1, BodyLengths
    <2>6. 20 + x \in Nat /\ 20 + y = (20 + x) + z
      BY <2>5
    <2>7. IsAttribute(attributes[k])
      BY DEF AreAttributes
    <2>8. Located(r.data, 20 + x, AttributeBytes(attributes[k]))
      BY <1>2, <2>3, <2>4
    <2>9. QED
      BY <2>4, <2>6, <2>7, <2>8 DEF AttributeLies
  <1>9. QED
    BY <1>8

\* What the first k attributes fill in
Matches(attributes, k, field) == {i \in 1..k : ResponseField(attributes[i].type) = field}
StandsAt(attributes, k, field) ==
  IF Matches(attributes, k, field) = {} THEN Unset
  ELSE IF field = "error" THEN 0 ELSE attributes[Max(Matches(attributes, k, field))].value
ResponseAt(attributes, k) == [f \in Fields |-> StandsAt(attributes, k, f)]

LEMMA StandsStep ==
  ASSUME NEW attributes, NEW k, k \in Nat, 1 <= k, NEW field, field \in Fields
  PROVE  StandsAt(attributes, k, field)
           = IF ResponseField(attributes[k].type) = field THEN Given(attributes[k])
             ELSE StandsAt(attributes, k - 1, field)
  <1>1. PICK a, A, B : /\ a = attributes[k] /\ A = Matches(attributes, k, field)
                       /\ B = Matches(attributes, k - 1, field)
    OBVIOUS
  <1>2. \A i : i \in 1..k <=> i = k \/ i \in 1..(k - 1)
    OBVIOUS
  <1>3. CASE ResponseField(a.type) = field
    <2>1. k \in A /\ \A i \in A : i \in Nat /\ i <= k
      BY <1>1, <1>3 DEF Matches
    <2>2. Max(A) = k
      <3>1. PICK x : x = Max(A)
        OBVIOUS
      <3>2. x \in A /\ \A y \in A : x >= y
        <4>1. k \in A /\ \A y \in A : k >= y
          BY <2>1
        <4>2. QED
          BY <3>1, <4>1 DEF Max
      <3>3. x >= k /\ x \in Nat /\ x <= k
        BY <2>1, <3>2
      <3>4. QED
        BY <3>1, <3>3
    <2>3. StandsAt(attributes, k, field) = IF field = "error" THEN 0 ELSE a.value
      BY <1>1, <2>1, <2>2 DEF StandsAt
    <2>4. field # "none"
      BY DEF Fields
    <2>5. Given(a) = IF field = "error" THEN 0 ELSE a.value
      BY <1>3, <2>4 DEF Given
    <2>6. QED
      BY <1>1, <1>3, <2>3, <2>5
  <1>4. CASE ResponseField(a.type) # field
    <2>1. A = B
      BY <1>1, <1>2, <1>4 DEF Matches
    <2>2. QED
      BY <1>1, <1>4, <2>1 DEF StandsAt
  <1>5. QED
    BY <1>3, <1>4

LEMMA ResponseStep ==
  ASSUME NEW attributes, NEW k, k \in Nat, 1 <= k
  PROVE  ResponseAt(attributes, k) = Filled(ResponseAt(attributes, k - 1), attributes[k])
  <1>1. PICK a, P, Q, f, v : /\ a = attributes[k] /\ P = ResponseAt(attributes, k - 1)
                             /\ Q = ResponseAt(attributes, k) /\ f = ResponseField(a.type)
                             /\ v = Given(a)
    OBVIOUS
  <1>2. P = [g \in Fields |-> P[g]] /\ Q = [g \in Fields |-> Q[g]]
    BY <1>1 DEF ResponseAt
  <1>3. \A g \in Fields : Q[g] = IF f = g THEN v ELSE P[g]
    <2>1. ASSUME NEW g \in Fields
          PROVE  Q[g] = IF f = g THEN v ELSE P[g]
      <3>1. Q[g] = StandsAt(attributes, k, g) /\ P[g] = StandsAt(attributes, k - 1, g)
        BY <1>1 DEF ResponseAt
      <3>2. StandsAt(attributes, k, g)
              = IF ResponseField(attributes[k].type) = g THEN Given(attributes[k])
                ELSE StandsAt(attributes, k - 1, g)
        BY StandsStep
      <3>3. QED
        BY <1>1, <3>1, <3>2
    <2>2. QED
      BY <2>1
  <1>4. f \in Fields \cup {"none"} /\ "none" \notin Fields
    <2>1. f \in Fields \cup {"none"}
      BY <1>1, FieldCases
    <2>2. QED
      BY <2>1 DEF Fields
  <1> HIDE DEF Fields
  <1>5. Q = IF f = "none" THEN P ELSE [P EXCEPT ![f] = v]
    <2>1. CASE f = "none"
      BY <1>2, <1>3, <1>4, <2>1
    <2>2. CASE f # "none"
      <3>1. f \in Fields
        BY <1>4, <2>2
      <3>2. [P EXCEPT ![f] = v] = [g \in Fields |-> IF f = g THEN v ELSE P[g]]
        BY <1>2, <3>1
      <3>3. Q = [g \in Fields |-> IF f = g THEN v ELSE P[g]]
        BY <1>2, <1>3
      <3>4. QED
        BY <2>2, <3>2, <3>3
    <2>3. QED
      BY <2>1, <2>2
  <1>6. QED
    BY <1>1, <1>5 DEF Filled

LEMMA ResponseNone ==
  ASSUME NEW attributes
  PROVE  ResponseAt(attributes, 0) = NoBindingResponse
  <1>1. \A f \in Fields : StandsAt(attributes, 0, f) = Unset
    <2>1. 1..0 = {}
      OBVIOUS
    <2>2. QED
      BY <2>1 DEF StandsAt, Matches
  <1>2. ResponseAt(attributes, 0) = [f \in Fields |-> Unset]
    BY <1>1 DEF ResponseAt
  <1>3. QED
    BY <1>2 DEF NoBindingResponse, Fields

LEMMA ResponseStands ==
  ASSUME NEW attributes, attributes = [i \in 1..Len(attributes) |-> attributes[i]]
  PROVE  ResponseAt(attributes, Len(attributes))
           = [f \in DOMAIN NoBindingResponse |-> Stands(attributes, f)]
  <1>1. PICK n : n = Len(attributes)
    OBVIOUS
  <1>2. DOMAIN attributes = 1..n
    BY <1>1
  <1>3. DOMAIN NoBindingResponse = Fields
    BY DEF NoBindingResponse, Fields
  <1>4. \A f \in Fields : StandsAt(attributes, n, f) = Stands(attributes, f)
    BY <1>2 DEF StandsAt, Stands, Matches
  <1>5. QED
    BY <1>1, <1>3, <1>4 DEF ResponseAt

\* The loop over the attributes
BodyAt(r, g, n, attributes) ==
  /\ AreAttributes(attributes, n) /\ BodyRun(g, n, attributes)
  /\ IsStream(r) /\ r.little = TRUE /\ Located(r.data, 20, g[n])

LastVal(attributes, id, k) == IF k = 0 THEN id ELSE Given(attributes[k])
TurnAt(r, g, n, attributes, id, k) ==
  Turn(At(r, 20 + Len(g[k]), LastVal(attributes, id, k)), Len(g[n]) - Len(g[k]),
       ResponseAt(attributes, k))

LEMMA BodyGrows ==
  ASSUME NEW attributes, NEW n, AreAttributes(attributes, n), NEW g, BodyRun(g, n, attributes)
  PROVE  \A k \in 0..n : Len(g[k]) <= Len(g[n])
  <1>1. n \in Nat
    BY DEF AreAttributes
  <1> DEFINE H == {k \in 0..n : Len(g[n - k]) <= Len(g[n])}
  <1>2. 0 \in H
    <2>1. n - 0 = n /\ n \in 0..n
      BY <1>1
    <2>2. Len(g[n]) \in Nat
      BY <2>1, BodyLengths
    <2>3. Len(g[n]) <= Len(g[n])
      BY <2>2
    <2>4. QED
      BY <1>1, <2>1, <2>3
  <1>3. ASSUME NEW k \in 1..n, k - 1 \in H PROVE k \in H
    <2>1. PICK j \in 1..n : j = n - (k - 1)
      BY <1>1
    <2>2. j - 1 = n - k /\ k \in 0..n /\ j \in 0..n /\ j - 1 \in 0..n /\ n \in 0..n
      BY <1>1, <2>1
    <2>3. PICK x, y, z, w : /\ x = Len(g[j - 1]) /\ y = Len(g[j]) /\ w = Len(g[n])
                            /\ z = Len(AttributeBytes(attributes[j]))
      OBVIOUS
    <2>4. x \in Nat /\ y \in Nat /\ z \in Nat /\ w \in Nat /\ y = x + z
      BY <2>2, <2>3, BodyLengths
    <2>5. y <= w
      BY <1>3, <2>1, <2>3
    <2>6. x <= w
      BY <2>4, <2>5
    <2>7. QED
      BY <2>2, <2>3, <2>6
  <1> HIDE DEF H
  <1>4. \A k \in 0..n : k \in H
    BY <1>1, <1>2, <1>3, UpTo
  <1>5. \A k \in 0..n : n - k \in 0..n /\ n - (n - k) = k
    BY <1>1
  <1>6. QED
    BY <1>4, <1>5 DEF H

LEMMA TurnStep ==
  ASSUME NEW r, NEW g, NEW n, NEW attributes, BodyAt(r, g, n, attributes), NEW id, NEW k, k \in 1..n
  PROVE  UnpackNext(TurnAt(r, g, n, attributes, id, k - 1)) = TurnAt(r, g, n, attributes, id, k)
  <1>1. /\ AreAttributes(attributes, n) /\ BodyRun(g, n, attributes)
        /\ IsStream(r) /\ r.little = TRUE /\ Located(r.data, 20, g[n])
    BY DEF BodyAt
  <1>2. n \in Nat
    BY <1>1 DEF AreAttributes
  <1>3. k \in Nat /\ 1 <= k /\ k # 0 /\ k \in 0..n /\ k - 1 \in 0..n /\ n \in 0..n
    BY <1>2
  <1>4. PICK x, y, z, w : /\ x = Len(g[k - 1]) /\ y = Len(g[k]) /\ w = Len(g[n])
                          /\ z = Len(AttributeBytes(attributes[k]))
    OBVIOUS
  <1>5. x \in Nat /\ y \in Nat /\ z \in Nat /\ w \in Nat /\ y = x + z
    BY <1>1, <1>3, <1>4, BodyLengths
  <1>6. y <= w
    BY <1>1, <1>3, <1>4, BodyGrows
  <1>7. PICK o, q, a, v, i, j : /\ o = 20 + x /\ q = 20 + y /\ a = attributes[k]
                                /\ v = LastVal(attributes, id, k - 1) /\ i = w - x /\ j = w - y
    OBVIOUS
  <1>8. AttributeLies(r, o, q, a)
    <2>1. AttributeLies(r, 20 + Len(g[k - 1]), 20 + Len(g[k]), attributes[k])
      BY <1>1, BodyLies
    <2>2. QED
      BY <1>4, <1>7, <2>1
  <1>9. i \in Nat /\ j \in Nat /\ i = j + Len(AttributeBytes(a))
    <2>1. i \in Nat /\ j \in Nat /\ i = j + z
      BY <1>5, <1>6, <1>7
    <2>2. QED
      BY <1>4, <1>7, <2>1
  <1>10. PICK P, Q : P = ResponseAt(attributes, k - 1) /\ Q = ResponseAt(attributes, k)
    OBVIOUS
  <1>11. Q = Filled(P, a)
    BY <1>3, <1>7, <1>10, ResponseStep
  <1>12. UnpackNext(Turn(At(r, o, v), i, P)) = Turn(At(r, q, Given(a)), j, Filled(P, a))
    <2>1. Remains(i, j, a)
      BY <1>9 DEF Remains
    <2>2. QED
      BY <1>8, <2>1, NextTurn
  <1>13. TurnAt(r, g, n, attributes, id, k - 1) = Turn(At(r, o, v), i, P)
    BY <1>4, <1>7, <1>10 DEF TurnAt
  <1>14. TurnAt(r, g, n, attributes, id, k) = Turn(At(r, q, Given(a)), j, Q)
    BY <1>3, <1>4, <1>7, <1>10 DEF TurnAt, LastVal
  <1>15. QED
    BY <1>11, <1>12, <1>13, <1>14

LEMMA TurnEnd ==
  ASSUME NEW r, NEW g, NEW n, NEW attributes, BodyAt(r, g, n, attributes), NEW id
  PROVE  LET e == TurnAt(r, g, n, attributes, id, n)
         IN  UnpackNext(e) = e /\ e.remainingBytes = 0
  <1>1. AreAttributes(attributes, n) /\ BodyRun(g, n, attributes)
    BY DEF BodyAt
  <1>2. n \in Nat /\ n \in 0..n
    BY <1>1 DEF AreAttributes
  <1>3. PICK w, e : w = Len(g[n]) /\ e = TurnAt(r, g, n, attributes, id, n)
    OBVIOUS
  <1>4. w \in Nat
    BY <1>1, <1>2, <1>3, BodyLengths
  <1>5. w - w = 0
    BY <1>4
  <1>6. e.remainingBytes = w - w
    BY <1>3 DEF TurnAt, Turn
  <1>7. e.remainingBytes = 0 /\ 0 <= 0
    BY <1>5, <1>6
  <1>8. UnpackNext(e) = e
    BY <1>7 DEF UnpackNext
  <1>9. QED
    BY <1>3, <1>7, <1>8

LEMMA BodyRead ==
  ASSUME NEW r, NEW g, NEW n, NEW attributes, BodyAt(r, g, n, attributes), NEW id,
         NEW w, w = Len(g[n])
  PROVE  stunProtocolUnpackBindingResponseBody(At(r, 20, id), w) = TurnAt(r, g, n, attributes, id, n)
  <1>1. AreAttributes(attributes, n) /\ BodyRun(g, n, attributes)
    BY DEF BodyAt
  <1>2. n \in Nat /\ n \in 0..n /\ 0 \in 0..n
    BY <1>1 DEF AreAttributes
  <1>3. w \in Nat /\ n <= w /\ Len(g[0]) = 0
    BY <1>1, <1>2, BodyLengths
  <1> DEFINE T == [k \in 0..n |-> TurnAt(r, g, n, attributes, id, k)]
             first == [stream |-> At(r, 20, id), result |-> "Valid", remainingBytes |-> w,
                       response |-> NoBindingResponse]
             Steps(h) == [k \in 0..w |-> IF k = 0 THEN first ELSE UnpackNext(h[k - 1])]
             C == [k \in 0..w |-> IF k <= n THEN T[k] ELSE T[n]]
  <1>4. T[0] = first
    <2>1. 20 + 0 = 20 /\ w - 0 = w
      BY <1>3
    <2>2. TurnAt(r, g, n, attributes, id, 0) = Turn(At(r, 20, id), w, NoBindingResponse)
      BY <1>3, <2>1, ResponseNone DEF TurnAt, LastVal
    <2>3. QED
      BY <1>2, <2>2 DEF Turn
  <1>5. \A k \in 1..n : T[k] = UnpackNext(T[k - 1])
    <2>1. ASSUME NEW k, k \in 1..n
          PROVE  T[k] = UnpackNext(T[k - 1])
      <3>1. k \in 0..n /\ k - 1 \in 0..n
        BY <1>2, <2>1
      <3>2. T[k] = TurnAt(r, g, n, attributes, id, k) /\ T[k - 1] = TurnAt(r, g, n, attributes, id, k - 1)
        BY <3>1
      <3>3. QED
        BY <2>1, <3>2, TurnStep
    <2>2. QED
      BY <2>1
  <1>6. T[n] = UnpackNext(T[n]) /\ T[n] = TurnAt(r, g, n, attributes, id, n)
    <2>1. T[n] = TurnAt(r, g, n, attributes, id, n)
      BY <1>2
    <2>2. QED
      BY <2>1, TurnEnd
  <1> HIDE DEF T, first
  <1>7. C[0] = first /\ \A k \in 1..w : C[k] = UnpackNext(C[k - 1])
    <2>1. C[0] = first
      BY <1>2, <1>3, <1>4
    <2>2. ASSUME NEW k \in 1..w
          PROVE  C[k] = UnpackNext(C[k - 1])
      <3>1. k \in 0..w /\ k - 1 \in 0..w
        BY <1>3
      <3>2. CASE k <= n
        <4>1. k \in 1..n /\ k - 1 <= n
          BY <1>2, <1>3, <3>2
        <4>2. C[k] = T[k] /\ C[k - 1] = T[k - 1]
          BY <3>1, <3>2, <4>1
        <4>3. QED
          BY <1>5, <4>1, <4>2
      <3>3. CASE ~(k <= n)
        <4>1. k - 1 = n \/ ~(k - 1 <= n)
          BY <1>2, <1>3, <3>3
        <4>2. C[k] = T[n] /\ C[k - 1] = T[n]
          BY <3>1, <3>3, <4>1
        <4>3. QED
          BY <1>6, <4>2
      <3>4. QED
        BY <3>2, <3>3
    <2>3. QED
      BY <2>1, <2>2
  <1>8. C = [k \in 0..w |-> C[k]] /\ C[w] = T[n]
    <2>1. w \in 0..w /\ (w <= n => w = n)
      BY <1>2, <1>3
    <2>2. QED
      BY <2>1
  <1> HIDE DEF C
  <1>9. C = Steps(C)
    <2>1. \A k \in 0..w : k = 0 \/ k \in 1..w
      BY <1>3
    <2>2. \A k \in 1..w : k # 0
      BY <1>3
    <2>3. \A k \in 0..w : C[k] = IF k = 0 THEN first ELSE UnpackNext(C[k - 1])
      BY <1>7, <2>1, <2>2
    <2>4. QED
      BY <1>8, <2>3
  <1>10. PICK h : h = (CHOOSE steps : steps = Steps(steps))
    OBVIOUS
  <1>11. h = Steps(h)
    <2> HIDE DEF Steps
    <2>1. QED
      BY <1>9, <1>10
  <1>12. stunProtocolUnpackBindingResponseBody(At(r, 20, id), w) = h[w]
    BY <1>10 DEF stunProtocolUnpackBindingResponseBody, first
  <1>13. h[0] = first /\ \A k \in 1..w : h[k] = UnpackNext(h[k - 1])
    BY <1>3, <1>11
  <1>14. \A k \in 0..w : k \in {j \in 0..w : h[j] = C[j]}
    <2>1. ASSUME NEW k \in 1..w, k - 1 \in {j \in 0..w : h[j] = C[j]}
          PROVE  k \in {j \in 0..w : h[j] = C[j]}
      <3>1. h[k - 1] = C[k - 1]
        BY <2>1
      <3>2. h[k] = C[k]
        BY <1>7, <1>13, <3>1
      <3>3. k \in 0..w
        BY <1>3
      <3>4. QED
        BY <3>2, <3>3
    <2>2. 0 \in {j \in 0..w : h[j] = C[j]}
      BY <1>3, <1>7, <1>13
    <2>3. QED
      BY <1>3, <2>1, <2>2, UpTo
  <1>15. h[w] = C[w]
    BY <1>3, <1>14
  <1>16. QED
    BY <1>6, <1>8, <1>12, <1>15

\* The answer of a server
LEMMA StunHeaderRead ==
  ASSUME NEW r, IsStream(r), r.offset = 0, r.little = TRUE, NEW x \in Uint16, NEW y \in Uint16,
         NEW id \in Seq(Byte), Len(id) = 12, Located(r.data, 0, StunBytes(x, y, Reverse(id)))
  PROVE  stunProtocolUnpackHeader(r)
           = [stream |-> At(r, 20, id), result |-> "Valid", msgType |-> SplitType(x),
              msgClass |-> SplitClass(x), length |-> y, transactionId |-> id]
  <1>1. PICK d : d = Reverse(id)
    OBVIOUS
  <1>2. d \in Seq(Byte) /\ Len(d) = 12 /\ r.data \in Seq(Byte)
    BY <1>1, ReverseFacts, StreamFields
  <1>3. /\ Located(r.data, 0, Bytes16(x)) /\ Located(r.data, 2, Bytes16(y))
        /\ Located(r.data, 4, Cookie) /\ Located(r.data, 8, d)
    BY <1>1, <1>2, StunLocated
  <1>4. /\ Located(r.data, 0, WO(r.little, Bytes16(x))) /\ Located(r.data, 2, WO(r.little, Bytes16(y)))
        /\ Located(r.data, 4, WO(r.little, Cookie)) /\ Located(r.data, 8, AO(r.little, id))
    BY <1>1, <1>3 DEF WO, AO
  <1>5. Cookie \in Seq(Byte) /\ 4 = Len(Cookie)
    BY <1>2, StunType
  <1>6. PairLies(r, 0, 2, x) /\ PairLies(r, 2, 4, y)
    BY <1>4 DEF PairLies
  <1>7. WordLies(r, 4, 4, 8, Cookie)
    BY <1>4, <1>5 DEF WordLies
  <1>8. ArrayLies(r, 8, 12, 20, id)
    BY <1>4 DEF ArrayLies
  <1>9. PICK q0, q1, q2, q3, q4, v : /\ q0 = At(r, 0, v) /\ q1 = At(r, 2, x) /\ q2 = At(r, 4, y)
                                     /\ q3 = At(r, 8, Cookie) /\ q4 = At(r, 20, id) /\ v = r.val
    OBVIOUS
  <1>10. q0 = r
    BY <1>9 DEF IsStream
  <1>11. q1.val = x /\ q2.val = y /\ q3.val = Cookie /\ q4.val = id
    BY <1>9, AtFields
  <1>12. bitstream_read_uint16(q0) = q1 /\ bitstream_read_uint16(q1) = q2
    BY <1>6, <1>9, PairRead
  <1>13. ReadWord(q2, 4) = q3
    BY <1>7, <1>9, WordRead
  <1>14. bitstream_read_bytes(q3, 12) = q4
    BY <1>8, <1>9, ArrayRead
  <1>15. QED
    BY <1>9, <1>10, <1>11, <1>12, <1>13, <1>14
       DEF stunProtocolUnpackHeader, bitstream_read_uint32, kStunTransactionIdLen, Cookie

\* The class of an answer and the length of its body
IsAnswer(x, w, attributes) ==
  /\ x \in {257, 273} /\ w = Len(AnswerBody(attributes)) /\ w \in Uint16
  /\ \A d : AnswerBytes(d, attributes) = StunBytes(x, w, d) \o AnswerBody(attributes)

LEMMA AnswerParts ==
  ASSUME NEW attributes, NEW n, AreAttributes(attributes, n),
         20 + Len(AnswerBody(attributes)) <= kNetPacketMaxLen
  PROVE  /\ AnswerBody(attributes) \in Seq(Byte)
         /\ \E x, w : IsAnswer(x, w, attributes)
  <1>1. PICK g : BodyRun(g, n, attributes)
    BY BodyExists
  <1>2. PICK b, w : b = AnswerBody(attributes) /\ w = Len(b)
    OBVIOUS
  <1>3. n \in Nat /\ n \in 0..n
    BY DEF AreAttributes
  <1>4. b \in Seq(Byte) /\ w \in Nat
    BY <1>1, <1>2, <1>3, BodyLengths DEF BodyRun
  <1>5. w <= 65535
    BY <1>2, <1>4, RoomAssumption
  <1>6. w \in Uint16
    BY <1>4, <1>5, AsUint16
  <1>7. PICK x : x = IF \E i \in DOMAIN attributes : attributes[i].type = StunAttributeErrorCode
                     THEN \h0111 ELSE \h0101
    OBVIOUS
  <1>8. x \in {257, 273}
    BY <1>7
  <1>9. \A d : AnswerBytes(d, attributes) = StunBytes(x, w, d) \o b
    BY <1>2, <1>7 DEF AnswerBytes, StunBytes, B3, B2, Cookie
  <1>10. QED
    BY <1>2, <1>4, <1>6, <1>8, <1>9 DEF IsAnswer

\* The message types of an answer
LEMMA AnswerClass ==
  ASSUME NEW x, x \in {257, 273}
  PROVE  /\ x \in Uint16 /\ SplitType(x) = 1 /\ SplitClass(x) # 0
         /\ \E y, z \in Byte : y # \hA2 /\ Bytes16(x) = <<y, z>>
  <1>1. x \in Uint16
    BY DEF Uint16
  <1>2. SplitType(257) = 1 /\ SplitType(273) = 1 /\ SplitClass(257) = 2 /\ SplitClass(273) = 3
    BY DEF SplitType, SplitClass, Bits
  <1>3. SplitType(x) = 1 /\ SplitClass(x) # 0
    BY <1>2
  <1>4. Bytes16(257) = <<1, 1>> /\ Bytes16(273) = <<1, 17>>
    BY DEF Bytes16
  <1>5. 1 \in Byte /\ 17 \in Byte /\ 1 # \hA2
    BY DEF Byte
  <1>6. QED
    BY <1>3, <1>4, <1>5, <1>1

LEMMA AnswerLocated ==
  ASSUME NEW r, IsStream(r), NEW d \in Seq(Byte), Len(d) = 12, NEW attributes, NEW n,
         AreAttributes(attributes, n), NEW x, NEW w, IsAnswer(x, w, attributes),
         20 + Len(AnswerBody(attributes)) <= kNetPacketMaxLen,
         Located(r.data, 0, AnswerBytes(d, attributes))
  PROVE  /\ Located(r.data, 0, StunBytes(x, w, d)) /\ Located(r.data, 20, AnswerBody(attributes))
         /\ \E y \in Byte : y # \hA2 /\ Located(r.data, 0, <<y>>)
         /\ AnswerBytes(d, attributes) \in Seq(Byte) /\ Len(AnswerBytes(d, attributes)) = 20 + w
  <1>1. PICK b, h : b = AnswerBody(attributes) /\ h = StunBytes(x, w, d)
    OBVIOUS
  <1>2. /\ x \in {257, 273} /\ w = Len(b) /\ w \in Uint16 /\ AnswerBytes(d, attributes) = h \o b
    BY <1>1 DEF IsAnswer
  <1>3. x \in Uint16
    BY <1>2, AnswerClass
  <1>4. b \in Seq(Byte) /\ h \in Seq(Byte) /\ Len(h) = 20 /\ Len(r.data) \in Nat /\ 0 \in Nat
    <2>1. b \in Seq(Byte)
      BY <1>1, AnswerParts
    <2>2. h \in Seq(Byte) /\ Len(h) = 20
      BY <1>1, <1>2, <1>3, StunType
    <2>3. QED
      BY <2>1, <2>2, StreamFields, LenProperties
  <1>5. Located(r.data, 0, h) /\ Located(r.data, 0 + Len(h), b)
    <2>1. Located(r.data, 0, h \o b)
      BY <1>2
    <2>2. b \in Seq(Byte) /\ h \in Seq(Byte) /\ Len(r.data) \in Nat /\ 0 \in Nat
      BY <1>4
    <2>3. QED
      BY <2>1, <2>2, LocatedCat
  <1>6. Located(r.data, 20, b)
    BY <1>4, <1>5
  <1>7. r.data \in Seq(Byte)
    BY StreamFields
  <1>8. Located(r.data, 0, Bytes16(x))
    BY <1>1, <1>2, <1>3, <1>5, <1>7, StunLocated
  <1>9. PICK y, z \in Byte : y # \hA2 /\ Bytes16(x) = <<y, z>>
    BY <1>2, AnswerClass
  <1>10. Located(r.data, 0, <<y>>)
    <2>1. Located(r.data, 0, <<y, z>>)
      BY <1>8, <1>9
    <2>2. 2 <= Len(r.data) /\ r.data[1] = y
      BY <2>1 DEF Located
    <2>3. QED
      BY <1>4, <2>2 DEF Located
  <1>11. h \o b \in Seq(Byte) /\ Len(h \o b) = Len(h) + Len(b)
    BY <1>4, Grow
  <1>12. Len(h \o b) = 20 + w
    BY <1>2, <1>4, <1>11
  <1>13. QED
    BY <1>1, <1>2, <1>5, <1>6, <1>9, <1>10, <1>11, <1>12

\* A binding response as the test's block makes it of an answer
LEMMA BindingRead ==
  ASSUME NEW r, IsStream(r), r.offset = 0, r.little = TRUE, NEW id \in Seq(Byte), Len(id) = 12,
         NEW attributes, NEW n, AreAttributes(attributes, n),
         NEW x, NEW w, IsAnswer(x, w, attributes), Located(r.data, 20, AnswerBody(attributes)),
         Located(r.data, 0, StunBytes(x, w, Reverse(id)))
  PROVE  stunProtocolUnpackBindingResponse(r)
           = IF n = 0 THEN [stream |-> At(r, 20, id), result |-> "Invalid", out |-> << >>]
             ELSE [stream |-> At(r, 20 + w, LastVal(attributes, id, n)), result |-> "Valid",
                   out |-> <<id, ResponseAt(attributes, n)>>]
  <1>1. PICK b, h : b = AnswerBody(attributes) /\ h = stunProtocolUnpackHeader(r)
    OBVIOUS
  <1>2. x \in {257, 273} /\ w = Len(b) /\ w \in Uint16
    BY <1>1 DEF IsAnswer
  <1>3. x \in Uint16 /\ SplitType(x) = 1 /\ SplitClass(x) # 0
    BY <1>2, AnswerClass
  <1>4. h = [stream |-> At(r, 20, id), result |-> "Valid", msgType |-> SplitType(x),
             msgClass |-> SplitClass(x), length |-> w, transactionId |-> id]
    <2>1. x \in Uint16 /\ w \in Uint16
      BY <1>2, <1>3
    <2>2. QED
      BY <1>1, <2>1, StunHeaderRead
  <1>5. /\ h.stream = At(r, 20, id) /\ h.result = "Valid" /\ h.msgType = 1
        /\ h.msgClass # 0 /\ h.length = w /\ h.transactionId = id
    BY <1>3, <1>4
  <1>6. PICK g : BodyRun(g, n, attributes)
    BY BodyExists
  <1>7. b = g[n]
    BY <1>1, <1>6 DEF BodyRun
  <1>8. n \in Nat /\ n \in 0..n
    BY DEF AreAttributes
  <1>9. w \in Nat /\ n <= w /\ Len(g[0]) = 0
    <2>1. Len(g[n]) \in Nat /\ n <= Len(g[n]) /\ Len(g[0]) = 0
      BY <1>6, <1>8, BodyLengths
    <2>2. QED
      BY <1>2, <1>7, <2>1
  <1>10. CASE n = 0
    <2>1. w = 0
      BY <1>2, <1>7, <1>9, <1>10
    <2>2. QED
      BY <1>1, <1>5, <1>10, <2>1
         DEF stunProtocolUnpackBindingResponse, StunMsgTypeBinding, StunMsgClassRequest
  <1>11. CASE n # 0
    <2>1. w # 0
      BY <1>8, <1>9, <1>11
    <2>2. PICK e : e = stunProtocolUnpackBindingResponseBody(h.stream, h.length)
      OBVIOUS
    <2>3. BodyAt(r, g, n, attributes)
      BY <1>1, <1>6, <1>7 DEF BodyAt
    <2>4. stunProtocolUnpackBindingResponseBody(At(r, 20, id), w) = TurnAt(r, g, n, attributes, id, n)
      BY <1>2, <1>7, <2>3, BodyRead
    <2>5. e = TurnAt(r, g, n, attributes, id, n)
      BY <1>5, <2>2, <2>4
    <2>6. /\ e.stream = At(r, 20 + w, LastVal(attributes, id, n)) /\ e.result = "Valid"
          /\ e.response = ResponseAt(attributes, n)
      BY <1>2, <1>7, <2>5 DEF TurnAt, Turn
    <2>7. stunProtocolUnpackBindingResponse(r)
            = [stream |-> e.stream, result |-> "Valid", out |-> <<id, e.response>>]
      BY <1>1, <1>5, <2>1, <2>2, <2>6
         DEF stunProtocolUnpackBindingResponse, StunMsgTypeBinding, StunMsgClassRequest
    <2>8. QED
      BY <1>11, <2>6, <2>7
  <1>12. QED
    BY <1>10, <1>11

LEMMA AnswerReceived ==
  ASSUME NEW r, IsStream(r), r.offset = 0, r.little = TRUE, NEW id \in Seq(Byte), Len(id) = 12,
         NEW attributes, NEW n, AreAttributes(attributes, n),
         20 + Len(AnswerBody(attributes)) <= kNetPacketMaxLen,
         Located(r.data, 0, AnswerBytes(Reverse(id), attributes))
  PROVE  /\ TransactionReceive(r).by = "none" /\ StreamReceive(r).by = "none"
         /\ n = 0 => StunReceive(r).by = "none"
         /\ n # 0 => Takes4(StunReceive(r), "stun", "Valid", <<id, ResponseAt(attributes, n)>>,
                            Len(AnswerBytes(Reverse(id), attributes)))
  <1>1. PICK d : d = Reverse(id)
    OBVIOUS
  <1>2. d \in Seq(Byte) /\ Len(d) = 12
    BY <1>1, ReverseFacts
  <1>3. PICK x, w : IsAnswer(x, w, attributes)
    BY AnswerParts
  <1>4. /\ Located(r.data, 0, StunBytes(x, w, d)) /\ Located(r.data, 20, AnswerBody(attributes))
        /\ \E y \in Byte : y # \hA2 /\ Located(r.data, 0, <<y>>)
        /\ Len(AnswerBytes(d, attributes)) = 20 + w
    BY <1>1, <1>2, <1>3, AnswerLocated
  <1>5. PICK y \in Byte : y # \hA2 /\ Located(r.data, 0, <<y>>)
    BY <1>4
  <1>6. TransactionReceive(r).by = "none" /\ StreamReceive(r).by = "none"
    BY <1>5, NeitherProtocol
  <1>7. PICK q : q = stunProtocolUnpackBindingResponse(r)
    OBVIOUS
  <1>8. q = IF n = 0 THEN [stream |-> At(r, 20, id), result |-> "Invalid", out |-> << >>]
            ELSE [stream |-> At(r, 20 + w, LastVal(attributes, id, n)), result |-> "Valid",
                  out |-> <<id, ResponseAt(attributes, n)>>]
    <2>1. /\ IsAnswer(x, w, attributes) /\ Located(r.data, 20, AnswerBody(attributes))
          /\ Located(r.data, 0, StunBytes(x, w, Reverse(id)))
      BY <1>1, <1>3, <1>4
    <2>2. QED
      BY <1>7, <2>1, BindingRead
  <1>9. CASE n = 0
    <2>1. q.result = "Invalid" /\ q.stream = At(r, 20, id)
      BY <1>8, <1>9
    <2>2. PICK t, u : t = At(r, 20, id) /\ u = At(r, 0, id)
      OBVIOUS
    <2>3. StunReceive(r) = TransactionReceive(bitstream_reset(t))
      BY <1>7, <2>1, <2>2 DEF StunReceive
    <2>4. bitstream_reset(t) = u
      <3>1. PICK c : c = 20
        OBVIOUS
      <3>2. t = At(r, c, id)
        BY <2>2, <3>1
      <3>3. bitstream_reset(t) = At(r, 0, id)
        BY <3>2, ReadsAt
      <3>4. QED
        BY <2>2, <3>3
    <2>5. IsStream(u) /\ u.offset = 0 /\ u.data = r.data
      <3>1. 0 \in 0..r.bound
        BY StreamFields
      <3>2. QED
        BY <2>2, <3>1, AtStream, AtFields
    <2>6. TransactionReceive(u).by = "none"
      BY <1>5, <2>5, NeitherProtocol
    <2>7. QED
      BY <1>6, <1>9, <2>3, <2>4, <2>6
  <1>10. CASE n # 0
    <2>1. PICK t, out : /\ t = At(r, 20 + w, LastVal(attributes, id, n))
                        /\ out = <<id, ResponseAt(attributes, n)>>
      OBVIOUS
    <2>2. q.result = "Valid" /\ q.stream = t /\ q.out = out
      BY <1>8, <1>10, <2>1
    <2>3. StunReceive(r) = Got("stun", t, "Valid", out)
      BY <1>7, <2>2 DEF StunReceive
    <2>4. t.offset = 20 + w
      BY <2>1, AtFields
    <2>5. Takes4(StunReceive(r), "stun", "Valid", out, t.offset)
      BY <2>3, GotFields
    <2>6. QED
      BY <1>1, <1>4, <1>6, <1>10, <2>1, <2>4, <2>5
  <1>11. QED
    BY <1>9, <1>10

-----------------------------------------------------------------------------
(* Datagrams *)

Datagram(l, m) == Packed(Pack(net_packet_init(Zeros(kNetPacketMaxLen), l, 0), m))
Whole(l, m) ==
  Packed(Pack(bitstream_create(Zeros(4 * kNetPacketMaxLen), 4 * kNetPacketMaxLen, l, 0), m))

\* The message is packed into the bytes E, and they fit.
Layout(l, m, E) ==
  /\ E \in Seq(Byte) /\ Len(E) <= kNetPacketMaxLen
  /\ \A s : IsPacket(s, l) \/ IsLarge(s, l) => Wrote(s, Pack(s, m), E)

LEMMA Packets ==
  ASSUME NEW l \in BOOLEAN
  PROVE  /\ \E s : s = net_packet_init(Zeros(kNetPacketMaxLen), l, 0) /\ IsPacket(s, l)
         /\ \E u : /\ u = bitstream_create(Zeros(4 * kNetPacketMaxLen), 4 * kNetPacketMaxLen, l, 0)
                   /\ IsLarge(u, l)
  BY FreshPackets DEF IsPacket, IsLarge

LEMMA LayoutPacked ==
  ASSUME NEW l \in BOOLEAN, NEW m, NEW E, Layout(l, m, E)
  PROVE  Datagram(l, m) = E /\ Whole(l, m) = E
  <1>1. PICK s : s = net_packet_init(Zeros(kNetPacketMaxLen), l, 0) /\ IsPacket(s, l)
    BY Packets
  <1>2. PICK u : /\ u = bitstream_create(Zeros(4 * kNetPacketMaxLen), 4 * kNetPacketMaxLen, l, 0)
                 /\ IsLarge(u, l)
    BY Packets
  <1>3. PICK t, v : t = Pack(s, m) /\ v = Pack(u, m)
    OBVIOUS
  <1>4. E \in Seq(Byte) /\ Wrote(s, t, E) /\ Wrote(u, v, E)
    BY <1>1, <1>2, <1>3 DEF Layout
  <1>5. IsStream(s) /\ s.offset = 0 /\ IsStream(u) /\ u.offset = 0
    BY <1>1, <1>2 DEF IsPacket, IsLarge
  <1>6. Packed(t) = E
    BY <1>4, <1>5, PackedIs
  <1>7. Packed(v) = E
    BY <1>4, <1>5, PackedIs
  <1>8. QED
    BY <1>1, <1>2, <1>3, <1>6, <1>7 DEF Datagram, Whole

LEMMA ResponseLayout ==
  ASSUME NEW l, NEW m, m.kind = "response", m.id \in Byte, m.type \in Byte
  PROVE  Layout(l, m, TransactionBytes(m.id, TransactionTypeResponse, m.type))
  <1>1. PICK id, two, x, E : /\ id = m.id /\ two = TransactionTypeResponse /\ x = m.type
                             /\ E = TransactionBytes(id, two, x)
    OBVIOUS
  <1>2. two \in Byte
    BY <1>1, SomeBytes DEF TransactionTypeResponse
  <1>3. id \in Byte /\ two \in Byte /\ x \in Byte
    BY <1>1, <1>2
  <1>4. E \in Seq(Byte) /\ Len(E) = 6
    BY <1>1, <1>3, TransactionType
  <1>5. Len(E) <= kNetPacketMaxLen
    BY <1>4, RoomAssumption
  <1>6. ASSUME NEW s, IsPacket(s, l) \/ IsLarge(s, l)
        PROVE  Wrote(s, Pack(s, m), E)
    <2>1. PICK t : t = bitstream_write_uint8(transactionProtocolPackHeader(s, id, two), x)
      OBVIOUS
    <2>2. Pack(s, m) = t
      BY <1>1, <2>1 DEF Pack, transactionProtocolPackResponse
    <2>3. IsStream(s)
      BY <1>6 DEF IsPacket, IsLarge
    <2>4. Puts(s, t, E)
      BY <1>1, <1>3, <2>1, <2>3, TransactionPuts
    <2>5. Wrote(s, t, E)
      BY <1>4, <1>5, <1>6, <2>4, PutsWrote
    <2>6. QED
      BY <2>2, <2>5
  <1>7. QED
    BY <1>1, <1>4, <1>5, <1>6 DEF Layout

LEMMA UpdateLayout ==
  ASSUME NEW l \in BOOLEAN, NEW m, m.kind = "stream", IsUpdate(m)
  PROVE  Layout(l, m, UpdateBytes(l, m))
  <1>1. PICK E : E = UpdateBytes(l, m)
    OBVIOUS
  <1>2. E \in Seq(Byte) /\ Len(E) <= kNetPacketMaxLen
    BY <1>1, UpdateType
  <1>3. ASSUME NEW s, IsPacket(s, l) \/ IsLarge(s, l)
        PROVE  Wrote(s, Pack(s, m), E)
    <2>1. PICK t : t = PackStream(s, m)
      OBVIOUS
    <2>2. Pack(s, m) = t
      BY <2>1 DEF Pack
    <2>3. IsStream(s) /\ s.little = l
      BY <1>3 DEF IsPacket, IsLarge
    <2>4. Puts(s, t, E)
      BY <1>1, <2>1, <2>3, UpdatePuts
    <2>5. Wrote(s, t, E)
      BY <1>2, <1>3, <2>4, PutsWrote
    <2>6. QED
      BY <2>2, <2>5
  <1>4. QED
    BY <1>1, <1>2, <1>3 DEF Layout

LEMMA StunLayout ==
  ASSUME NEW m, IsStunRequest(m)
  PROVE  Layout(TRUE, m, RequestBytes(m))
  <1>1. PICK E, l : E = RequestBytes(m) /\ l = TRUE
    OBVIOUS
  <1>2. E \in Seq(Byte) /\ Len(E) <= kNetPacketMaxLen
    BY <1>1, StunRequestFacts
  <1>3. ASSUME NEW s, IsPacket(s, l) \/ IsLarge(s, l)
        PROVE  Wrote(s, Pack(s, m), E)
    <2>1. PICK t : t = Pack(s, m)
      OBVIOUS
    <2>2. IsStream(s) /\ s.little = TRUE
      BY <1>1, <1>3 DEF IsPacket, IsLarge
    <2>3. Puts(s, t, E)
      BY <1>1, <2>1, <2>2, StunPuts
    <2>4. QED
      BY <1>2, <1>3, <2>1, <2>3, PutsWrote
  <1>4. Layout(l, m, E)
    BY <1>2, <1>3 DEF Layout
  <1>5. QED
    BY <1>1, <1>4

LEMMA NumbersLayout ==
  ASSUME NEW l \in BOOLEAN, NEW m, m.kind = "numbers", IsNumbers(m)
  PROVE  Layout(l, m, NumbersBytes(l, m))
  <1>1. PICK E : E = NumbersBytes(l, m)
    OBVIOUS
  <1>2. E \in Seq(Byte) /\ Len(E) = 8
    BY <1>1, NumbersType
  <1>3. Len(E) <= kNetPacketMaxLen
    BY <1>2, RoomAssumption
  <1>4. ASSUME NEW s, IsPacket(s, l) \/ IsLarge(s, l)
        PROVE  Wrote(s, Pack(s, m), E)
    <2>1. Pack(s, m) = PackNumbers(s, m)
      BY DEF Pack
    <2>2. IsStream(s) /\ s.offset = 0 /\ s.little = l
      BY <1>4 DEF IsPacket, IsLarge
    <2>3. 8 <= s.bound
      BY <1>4, RoomAssumption DEF IsPacket, IsLarge
    <2>4. Wrote(s, PackNumbers(s, m), NumbersBytes(s.little, m))
      BY <2>2, <2>3, NumbersWrote
    <2>5. QED
      BY <1>1, <2>1, <2>2, <2>4
  <1>5. QED
    BY <1>1, <1>2, <1>3, <1>4 DEF Layout

IsRequest(m) == m.kind = "request" /\ m.id \in Byte /\ IsObject(m.object)
IsResponse(m) == m.kind = "response" /\ m.id \in Byte /\ m.type \in Byte

LEMMA MessageKinds ==
  ASSUME NEW m, IsMessage(m)
  PROVE  \/ IsRequest(m)
         \/ IsResponse(m)
         \/ m.kind = "stream" /\ IsUpdate(m)
         \/ IsStunRequest(m)
         \/ m.kind = "numbers" /\ IsNumbers(m)
  <1>1. CASE m.kind = "request" /\ m.id \in Byte /\ IsObject(m.object)
    BY <1>1 DEF IsRequest
  <1>2. CASE m.kind = "response" /\ m.id \in Byte /\ m.type \in Byte
    BY <1>2 DEF IsResponse
  <1>3. CASE /\ m.kind = "stream" /\ {m.sequence, m.ack, m.ackBits} \subseteq Word(4)
             /\ m.tag \in Word(8) /\ m.parts \in Seq(Seq(Byte))
    BY <1>3 DEF IsUpdate
  <1>4. CASE /\ m.kind \in {"binding", "change"} /\ m.transactionId \in Word(kStunTransactionIdLen)
             /\ m.host \in BOOLEAN /\ m.port \in BOOLEAN
    BY <1>4 DEF IsStunRequest, kStunTransactionIdLen
  <1>5. CASE /\ m.kind = "numbers" /\ m.word \in Word(4)
             /\ m.float \in [negative : BOOLEAN, whole : Byte, fraction : Uint16]
             /\ m.float.fraction < 65408
    BY <1>5 DEF IsNumbers, IsFloat
  <1>6. QED
    BY <1>1, <1>2, <1>3, <1>4, <1>5 DEF IsMessage

\* A request, in the packet s and in the large memory u
RequestIn(s, u, l, m) ==
  /\ IsPacket(s, l) /\ IsLarge(u, l)
  /\ Datagram(l, m) = Packed(PackRequest(s, m.id, m.object))
  /\ Whole(l, m) = Packed(PackRequest(u, m.id, m.object))

LEMMA RequestDatagram ==
  ASSUME NEW l \in BOOLEAN, NEW m, IsRequest(m)
  PROVE  \E s, u : RequestIn(s, u, l, m)
  <1>1. PICK s : s = net_packet_init(Zeros(kNetPacketMaxLen), l, 0) /\ IsPacket(s, l)
    BY Packets
  <1>2. PICK u : /\ u = bitstream_create(Zeros(4 * kNetPacketMaxLen), 4 * kNetPacketMaxLen, l, 0)
                 /\ IsLarge(u, l)
    BY Packets
  <1>3. m.kind = "request"
    BY DEF IsRequest
  <1>4. Pack(s, m) = PackRequest(s, m.id, m.object) /\ Pack(u, m) = PackRequest(u, m.id, m.object)
    BY <1>3 DEF Pack, PackRequest
  <1>5. RequestIn(s, u, l, m)
    BY <1>1, <1>2, <1>4 DEF RequestIn, Datagram, Whole
  <1>6. QED
    BY <1>5

LEMMA RequestWhole ==
  ASSUME NEW l \in BOOLEAN, NEW m, IsRequest(m), NEW s, NEW u, RequestIn(s, u, l, m),
         NEW t, t = PackRequest(s, m.id, m.object)
  PROVE  /\ IsStream(t) /\ t.little = l /\ 6 <= t.offset /\ t.offset <= kNetPacketMaxLen
         /\ Located(t.data, 0, TransactionBytes(m.id, 1, m.object.type))
         /\ Datagram(l, m) = Packed(t) /\ Len(Datagram(l, m)) = t.offset
         /\ Datagram(l, m) \in Seq(Byte)
         /\ (IsPeerList(m) => Len(Whole(l, m)) <= kNetPacketMaxLen) =>
              /\ Datagram(l, m) = Whole(l, m)
              /\ \E n, f : /\ n = Len(Kinds(m.object)) /\ f[n] = t
                           /\ RequestWrites(f, n, s, l, m.id, m.object)
  <1>1. PICK id, object, v : /\ id = m.id /\ object = m.object
                             /\ v = PackRequest(u, id, object)
    OBVIOUS
  <1>2. m.kind = "request" /\ id \in Byte /\ IsObject(object)
    BY <1>1 DEF IsRequest
  <1>3. /\ IsPacket(s, l) /\ IsLarge(u, l) /\ t = PackRequest(s, id, object)
        /\ Datagram(l, m) = Packed(t) /\ Whole(l, m) = Packed(v)
    BY <1>1 DEF RequestIn
  <1>4. /\ IsStream(t) /\ t.bound = s.bound /\ 6 <= t.offset
        /\ Located(t.data, 0, TransactionBytes(id, 1, object.type))
    BY <1>2, <1>3, RequestKept
  <1>5. IsStream(v)
    BY <1>1, <1>2, <1>3, RequestKept
  <1>6. s.bound = kNetPacketMaxLen
    BY <1>3 DEF IsPacket
  <1>7. t.offset <= kNetPacketMaxLen
    BY <1>4, <1>6, StreamFields
  <1>8. Len(Datagram(l, m)) = t.offset /\ Datagram(l, m) \in Seq(Byte)
    BY <1>3, <1>4, PackedFacts
  <1>9. Len(Whole(l, m)) = v.offset
    BY <1>3, <1>5, PackedFacts
  <1>10. ASSUME IsPeerList(m) => Len(Whole(l, m)) <= kNetPacketMaxLen
         PROVE  /\ Datagram(l, m) = Whole(l, m)
                /\ \E n, f : /\ n = Len(Kinds(m.object)) /\ f[n] = t
                             /\ RequestWrites(f, n, s, l, m.id, m.object)
    <2>1. object.type = TransactionPeerList => PackRequest(u, id, object).offset <= kNetPacketMaxLen
      BY <1>1, <1>2, <1>9, <1>10 DEF IsPeerList
    <2>2. PICK n : n = Len(Kinds(object))
      OBVIOUS
    <2>3. /\ Packed(PackRequest(s, id, object)) = Packed(PackRequest(u, id, object))
          /\ \E f : RequestWrites(f, n, s, l, id, object)
      BY <1>2, <1>3, <2>1, <2>2, RequestPacks
    <2>4. PICK f : RequestWrites(f, n, s, l, id, object)
      BY <2>3
    <2>5. f[n] = t
      BY <1>3, <2>4 DEF RequestWrites
    <2>6. QED
      BY <1>1, <1>3, <2>2, <2>3, <2>4, <2>5
  <1>11. t.little = l
    <2>1. IsStream(s) /\ s.little = l
      BY <1>3 DEF IsPacket
    <2>2. PICK n : n = Len(Kinds(object))
      OBVIOUS
    <2>3. PICK f : RequestSteps(f, n, s, id, object)
      BY <1>2, <2>1, <2>2, RequestRun
    <2>4. n \in Nat
      BY <1>2, <2>2, ObjectFields
    <2>5. n \in 0..n
      BY <2>4
    <2>6. f[n] = t /\ f[n].little = l
      BY <1>3, <2>1, <2>3, <2>5 DEF RequestSteps, IsRun
    <2>7. QED
      BY <2>6
  <1>12. QED
    BY <1>1, <1>3, <1>4, <1>7, <1>8, <1>10, <1>11

\* What a host sends: only a request for a list of peers may be cut off.
LEMMA Sends ==
  ASSUME NEW l \in BOOLEAN, NEW m, IsMessage(m), m.kind \in {"binding", "change"} => l = TRUE
  PROVE  /\ Datagram(l, m) \in Seq(Byte) /\ Len(Datagram(l, m)) <= kNetPacketMaxLen
         /\ IsPeerList(m) \/ Datagram(l, m) = Whole(l, m)
  <1>1. ASSUME NEW E, Layout(l, m, E)
        PROVE  /\ Datagram(l, m) \in Seq(Byte) /\ Len(Datagram(l, m)) <= kNetPacketMaxLen
               /\ IsPeerList(m) \/ Datagram(l, m) = Whole(l, m)
    <2>1. E \in Seq(Byte) /\ Len(E) <= kNetPacketMaxLen
      BY <1>1 DEF Layout
    <2>2. Datagram(l, m) = E /\ Whole(l, m) = E
      BY <1>1, LayoutPacked
    <2>3. QED
      BY <2>1, <2>2
  <1>2. CASE IsRequest(m)
    <2>1. PICK s, u : RequestIn(s, u, l, m)
      BY <1>2, RequestDatagram
    <2>2. PICK t : t = PackRequest(s, m.id, m.object)
      OBVIOUS
    <2>3. /\ t.offset <= kNetPacketMaxLen /\ Len(Datagram(l, m)) = t.offset
          /\ Datagram(l, m) \in Seq(Byte)
          /\ IsPeerList(m) \/ Datagram(l, m) = Whole(l, m)
      BY <1>2, <2>1, <2>2, RequestWhole
    <2>4. QED
      BY <2>3
  <1>3. CASE IsResponse(m)
    <2>1. m.kind = "response" /\ m.id \in Byte /\ m.type \in Byte
      BY <1>3 DEF IsResponse
    <2>2. PICK E : Layout(l, m, E)
      BY <2>1, ResponseLayout
    <2>3. QED
      BY <1>1, <2>2
  <1>4. CASE m.kind = "stream" /\ IsUpdate(m)
    <2>1. PICK E : Layout(l, m, E)
      BY <1>4, UpdateLayout
    <2>2. QED
      BY <1>1, <2>1
  <1>5. CASE IsStunRequest(m)
    <2>1. l = TRUE
      BY <1>5 DEF IsStunRequest
    <2>2. PICK E : E = RequestBytes(m)
      OBVIOUS
    <2>3. Layout(TRUE, m, E)
      BY <1>5, <2>2, StunLayout
    <2>4. Layout(l, m, E)
      BY <2>1, <2>3
    <2>5. QED
      BY <1>1, <2>4
  <1>6. CASE m.kind = "numbers" /\ IsNumbers(m)
    <2>1. PICK E : Layout(l, m, E)
      BY <1>6, NumbersLayout
    <2>2. QED
      BY <1>1, <2>1
  <1>7. QED
    BY <1>2, <1>3, <1>4, <1>5, <1>6, MessageKinds

\* The packet of the receiver after the bytes E came in
Overlaid(E, M) == [i \in 1..kNetPacketMaxLen |-> IF i <= Len(E) THEN E[i] ELSE M[i]]

Delivered(r, l, E) ==
  /\ IsStream(r) /\ r.offset = 0 /\ r.little = l /\ E \in Seq(Byte) /\ Len(E) <= r.bound
  /\ Located(r.data, 0, E) /\ \A i \in 1..Len(E) : r.data[i] = E[i]

LEMMA OverlaidType ==
  ASSUME NEW E \in Seq(Byte), Len(E) <= kNetPacketMaxLen, NEW M \in Word(kNetPacketMaxLen)
  PROVE  Overlaid(E, M) \in Word(kNetPacketMaxLen)
  <1>1. Len(E) \in Nat /\ \A i \in 1..Len(E) : E[i] \in Byte
    BY LenProperties
  <1>2. kNetPacketMaxLen \in Nat
    BY RoomAssumption
  <1>3. ASSUME NEW i \in 1..kNetPacketMaxLen
        PROVE  (IF i <= Len(E) THEN E[i] ELSE M[i]) \in Byte
    <2>1. M[i] \in Byte
      BY DEF Word
    <2>2. i <= Len(E) => i \in 1..Len(E)
      BY <1>1, <1>2
    <2>3. QED
      BY <1>1, <2>1, <2>2
  <1>4. QED
    BY <1>3 DEF Overlaid, Word

LEMMA Deliver ==
  ASSUME NEW E \in Seq(Byte), Len(E) <= kNetPacketMaxLen, NEW M \in Word(kNetPacketMaxLen),
         NEW l \in BOOLEAN, NEW past
  PROVE  \E r : r = net_packet_init(Overlaid(E, M), l, past) /\ Delivered(r, l, E)
  <1>1. PICK N, n : N = Overlaid(E, M) /\ n = kNetPacketMaxLen
    OBVIOUS
  <1>2. N \in Word(n) /\ n \in Nat /\ Len(E) \in Nat
    BY <1>1, OverlaidType, RoomAssumption, LenProperties
  <1>3. N \in Seq(Byte) /\ n = Len(N)
    <2> HIDE DEF Byte
    <2>1. N \in [1..n -> Byte] /\ n \in Nat
      BY <1>2 DEF Word
    <2>2. QED
      BY <2>1
  <1>4. PICK r : /\ r = bitstream_create(N, n, l, past) /\ IsStream(r)
                 /\ r.offset = 0 /\ r.bound = n /\ r.little = l /\ r.data = N
    BY <1>3, FreshStream
  <1>5. \A i \in 1..Len(E) : i \in 1..n /\ N[i] = E[i]
    <2>1. \A i \in 1..Len(E) : i \in 1..n /\ i <= Len(E)
      BY <1>1, <1>2
    <2>2. QED
      BY <1>1, <2>1 DEF Overlaid
  <1>6. Located(N, 0, E)
    <2>1. 0 + Len(E) <= Len(N)
      BY <1>1, <1>2, <1>3
    <2>2. \A i \in 1..Len(E) : N[0 + i] = E[i]
      <3>1. \A i \in 1..Len(E) : 0 + i = i
        BY <1>2
      <3>2. QED
        BY <1>5, <3>1
    <2>3. QED
      BY <2>1, <2>2 DEF Located
  <1>7. Delivered(r, l, E)
    BY <1>1, <1>4, <1>5, <1>6 DEF Delivered
  <1>8. r = net_packet_init(N, l, past)
    BY <1>1, <1>4 DEF net_packet_init
  <1>9. QED
    BY <1>1, <1>7, <1>8

\* The datagram of a transaction is a header of type 1 and more.
LEMMA TransactionHeaded ==
  ASSUME NEW r, IsStream(r), r.offset = 0, NEW id \in Byte, NEW type \in Byte, NEW x \in Byte,
         Located(r.data, 0, TransactionBytes(id, type, x))
  PROVE  /\ StreamReceive(r).by = "none"
         /\ \E w : /\ StunReceive(r) = TransactionReceive(At(r, 0, w))
                   /\ IsStream(At(r, 0, w)) /\ At(r, 0, w).offset = 0
                   /\ At(r, 0, w).data = r.data /\ At(r, 0, w).little = r.little
                   /\ At(r, 0, w).bound = r.bound
  <1>1. PICK h, b, c : h = HeaderBytes(1) /\ b = h \o <<id>> /\ c = b \o <<type>>
    OBVIOUS
  <1>2. h \in Seq(Byte) /\ b \in Seq(Byte) /\ c \in Seq(Byte)
    BY <1>1, TransactionType
  <1>3. <<id>> \in Seq(Byte) /\ <<type>> \in Seq(Byte) /\ <<x>> \in Seq(Byte)
    OBVIOUS
  <1>4. Len(r.data) \in Nat /\ 0 \in Nat
    BY StreamFields, LenProperties
  <1>5. Located(r.data, 0, c \o <<x>>)
    BY <1>1 DEF TransactionBytes
  <1>6. Located(r.data, 0, c)
    BY <1>2, <1>3, <1>4, <1>5, LocatedCat
  <1>7. Located(r.data, 0, b)
    BY <1>1, <1>2, <1>3, <1>4, <1>6, LocatedCat
  <1>8. Located(r.data, 0, h)
    BY <1>1, <1>2, <1>3, <1>4, <1>7, LocatedCat
  <1>9. StreamReceive(r).by = "none"
    BY <1>1, <1>8, TransactionNotStream
  <1>10. PICK one : one = 1 /\ one \in Byte
    BY SomeBytes
  <1>11. one \in Byte /\ Located(r.data, 0, HeaderBytes(one))
    BY <1>1, <1>8, <1>10
  <1>12. PICK w : StunReceive(r) = TransactionReceive(At(r, 0, w))
    BY <1>11, HeaderForwards
  <1>13. 0 \in 0..r.bound
    BY StreamFields
  <1>14. PICK u : u = At(r, 0, w)
    OBVIOUS
  <1>15. /\ IsStream(u) /\ u.offset = 0 /\ u.data = r.data /\ u.little = r.little
         /\ u.bound = r.bound
    BY <1>13, <1>14, AtStream, AtFields
  <1>16. QED
    BY <1>9, <1>12, <1>14, <1>15

LEMMA RequestHandled ==
  ASSUME NEW l \in BOOLEAN, NEW m, IsRequest(m), NEW r, Delivered(r, l, Datagram(l, m)),
         NEW out, out = <<m.id, TransactionTypeRequest, m.object.type>> \o m.object.fields,
         NEW n, n = Len(Datagram(l, m)), NEW result, result = ObjectResult(m.object.type)
  PROVE  /\ StreamReceive(r).by = "none"
         /\ (IsPeerList(m) => Len(Whole(l, m)) <= kNetPacketMaxLen) =>
              /\ Takes4(TransactionReceive(r), "transaction", result, out, n)
              /\ Takes4(StunReceive(r), "transaction", result, out, n)
  <1>1. PICK s, u : RequestIn(s, u, l, m)
    BY RequestDatagram
  <1>2. PICK t, id, object, E : /\ t = PackRequest(s, m.id, m.object) /\ id = m.id
                                /\ object = m.object /\ E = Datagram(l, m)
    OBVIOUS
  <1>3. /\ IsStream(t) /\ t.little = l /\ 6 <= t.offset /\ t.offset <= kNetPacketMaxLen
        /\ Located(t.data, 0, TransactionBytes(id, 1, object.type))
        /\ E = Packed(t) /\ n = t.offset
        /\ (IsPeerList(m) => Len(Whole(l, m)) <= kNetPacketMaxLen) =>
             \E k, f : k = Len(Kinds(object)) /\ f[k] = t /\ RequestWrites(f, k, s, l, id, object)
    BY <1>1, <1>2, RequestWhole
  <1>4. id \in Byte /\ IsObject(object) /\ IsPacket(s, l)
    BY <1>1, <1>2 DEF IsRequest, RequestIn
  <1>5. object.type \in Byte
    BY <1>4, ObjectFields
  <1>6. /\ IsStream(r) /\ r.offset = 0 /\ r.little = l /\ Len(E) <= r.bound
        /\ \A i \in 1..Len(E) : r.data[i] = E[i]
    BY <1>2 DEF Delivered
  <1>7. \A i \in 1..t.offset : r.data[i] = t.data[i]
    <2>1. Len(E) = t.offset /\ \A i \in 1..t.offset : E[i] = t.data[i]
      BY <1>3, PackedFacts
    <2>2. QED
      BY <1>6, <2>1
  <1>8. t.offset <= r.bound
    BY <1>2, <1>3, <1>6
  <1>9. Arrives(r, t)
    BY <1>3, <1>6, <1>7, <1>8 DEF Arrives
  <1>10. PICK B, x, one : B = TransactionBytes(id, one, x) /\ x = object.type /\ one = 1
    OBVIOUS
  <1>11. one \in Byte /\ x \in Byte
    BY <1>5, <1>10, SomeBytes
  <1>12. B \in Seq(Byte) /\ Len(B) = 6
    BY <1>4, <1>10, <1>11, TransactionType
  <1>13. Located(r.data, 0, B)
    <2>1. 0 \in Nat /\ 0 + Len(B) <= t.offset /\ Located(t.data, 0, B)
      <3>1. B = TransactionBytes(id, 1, object.type)
        BY <1>10
      <3>2. Located(t.data, 0, B) /\ t.offset \in Nat /\ 6 <= t.offset
        BY <1>3, <3>1, StreamFields
      <3>3. 0 + Len(B) <= t.offset
        BY <1>12, <3>2
      <3>4. QED
        BY <3>2, <3>3
    <2>2. QED
      BY <1>9, <1>12, <2>1, ArrivesLocated
  <1>14. /\ StreamReceive(r).by = "none"
         /\ \E w : /\ StunReceive(r) = TransactionReceive(At(r, 0, w))
                   /\ IsStream(At(r, 0, w)) /\ At(r, 0, w).offset = 0
                   /\ At(r, 0, w).data = r.data /\ At(r, 0, w).little = r.little
                   /\ At(r, 0, w).bound = r.bound
    BY <1>4, <1>6, <1>10, <1>11, <1>13, TransactionHeaded
  <1>15. ASSUME IsPeerList(m) => Len(Whole(l, m)) <= kNetPacketMaxLen
         PROVE  /\ Takes4(TransactionReceive(r), "transaction", result, out, n)
                /\ Takes4(StunReceive(r), "transaction", result, out, n)
    <2>1. PICK k, f : k = Len(Kinds(object)) /\ f[k] = t /\ RequestWrites(f, k, s, l, id, object)
      BY <1>3, <1>15
    <2>2. ASSUME NEW q, Arrives(q, t)
          PROVE  Takes4(TransactionReceive(q), "transaction", result, out, n)
      <3>1. Arrives(q, f[k])
        BY <2>1, <2>2
      <3>2. Takes4(TransactionReceive(q), "transaction", ObjectResult(object.type),
                   <<id, TransactionTypeRequest, object.type>> \o object.fields, f[k].offset)
        BY <1>4, <2>1, <3>1, RequestReceived
      <3>3. QED
        BY <1>2, <1>3, <2>1, <3>2
    <2>3. PICK q : /\ StunReceive(r) = TransactionReceive(q) /\ IsStream(q) /\ q.offset = 0
                   /\ q.data = r.data /\ q.little = r.little /\ q.bound = r.bound
      BY <1>14
    <2>4. Arrives(q, t)
      BY <1>3, <1>6, <1>7, <1>8, <2>3 DEF Arrives
    <2>5. QED
      BY <1>9, <2>2, <2>3, <2>4
  <1>16. QED
    BY <1>14, <1>15

LEMMA ResponseHandled ==
  ASSUME NEW l \in BOOLEAN, NEW m, IsResponse(m), NEW r, Delivered(r, l, Datagram(l, m)),
         NEW out, out = <<m.id, TransactionTypeResponse, m.type>>,
         NEW n, n = Len(Datagram(l, m))
  PROVE  /\ StreamReceive(r).by = "none"
         /\ Takes4(TransactionReceive(r), "transaction", "Valid", out, n)
         /\ Takes4(StunReceive(r), "transaction", "Valid", out, n)
  <1>1. PICK id, two, x, E : /\ id = m.id /\ two = TransactionTypeResponse /\ x = m.type
                             /\ E = TransactionBytes(id, two, x)
    OBVIOUS
  <1>2. m.kind = "response" /\ id \in Byte /\ x \in Byte
    BY <1>1 DEF IsResponse
  <1>3. two \in Byte
    BY <1>1, SomeBytes DEF TransactionTypeResponse
  <1>4. Layout(l, m, E)
    BY <1>1, <1>2, ResponseLayout
  <1>5. Datagram(l, m) = E
    BY <1>4, LayoutPacked
  <1>6. Len(E) = 6
    BY <1>1, <1>2, <1>3, TransactionType
  <1>7. n = 6
    BY <1>5, <1>6
  <1>8. IsStream(r) /\ r.offset = 0 /\ Located(r.data, 0, E)
    BY <1>5 DEF Delivered
  <1>9. ASSUME NEW q, IsStream(q), q.offset = 0, q.data = r.data
        PROVE  Takes4(TransactionReceive(q), "transaction", "Valid", out, n)
    <2>1. Located(q.data, 0, TransactionBytes(id, two, x))
      BY <1>1, <1>8, <1>9
    <2>2. Takes4(TransactionReceive(q), "transaction", "Valid", <<id, two, x>>, 6)
      BY <1>1, <1>2, <1>9, <2>1, ResponseReceived
    <2>3. QED
      BY <1>1, <1>7, <2>2
  <1>10. /\ StreamReceive(r).by = "none"
         /\ \E w : /\ StunReceive(r) = TransactionReceive(At(r, 0, w))
                   /\ IsStream(At(r, 0, w)) /\ At(r, 0, w).offset = 0
                   /\ At(r, 0, w).data = r.data /\ At(r, 0, w).little = r.little
                   /\ At(r, 0, w).bound = r.bound
    BY <1>1, <1>2, <1>3, <1>8, TransactionHeaded
  <1>11. PICK q : /\ StunReceive(r) = TransactionReceive(q) /\ IsStream(q) /\ q.offset = 0
                  /\ q.data = r.data
    BY <1>10
  <1>12. QED
    BY <1>8, <1>9, <1>10, <1>11

\* A callback makes of a message what it is to make of it.
Understood(r, callback, m, n) ==
  Takes4(Unpack(r, callback), Expected(m).by, Expected(m).result, Expected(m).out, n)

Handled(r, callback, m, n, fits) ==
  /\ callback \in Readers(m) /\ fits => Understood(r, callback, m, n)
  /\ callback \notin Readers(m) => Unpack(r, callback).by = "none"

Callbacks == {"transaction", "stream", "stun"}

LEMMA UnpackCases ==
  ASSUME NEW r
  PROVE  /\ Unpack(r, "transaction") = TransactionReceive(r) /\ Unpack(r, "stream") = StreamReceive(r)
         /\ Unpack(r, "stun") = StunReceive(r) /\ Unpack(r, "application") = ApplicationReceive(r)
  BY DEF Unpack

LEMMA RequestUnderstood ==
  ASSUME NEW l \in BOOLEAN, NEW m, IsRequest(m), NEW r, Delivered(r, l, Datagram(l, m)),
         NEW n, n = Len(Datagram(l, m)), NEW callback, callback \in Callbacks
  PROVE  Handled(r, callback, m, n, IsPeerList(m) => Len(Whole(l, m)) <= kNetPacketMaxLen)
  <1>1. m.kind = "request"
    BY DEF IsRequest
  <1>2. PICK out, result : /\ out = <<m.id, TransactionTypeRequest, m.object.type>> \o m.object.fields
                           /\ result = ObjectResult(m.object.type)
    OBVIOUS
  <1>3. Readers(m) = {"transaction", "stun"}
    BY <1>1 DEF Readers
  <1>4. Expected(m).by = "transaction" /\ Expected(m).result = result /\ Expected(m).out = out
    <2>1. Expected(m) = [by |-> "transaction", result |-> result, out |-> out]
      BY <1>1, <1>2 DEF Expected, ObjectResult
    <2>2. QED
      BY <2>1
  <1>5. /\ StreamReceive(r).by = "none"
        /\ (IsPeerList(m) => Len(Whole(l, m)) <= kNetPacketMaxLen) =>
             /\ Takes4(TransactionReceive(r), "transaction", result, out, n)
             /\ Takes4(StunReceive(r), "transaction", result, out, n)
    BY <1>2, RequestHandled
  <1>6. QED
    BY <1>3, <1>4, <1>5, UnpackCases DEF Handled, Understood, Callbacks

LEMMA ResponseUnderstood ==
  ASSUME NEW l \in BOOLEAN, NEW m, IsResponse(m), NEW r, Delivered(r, l, Datagram(l, m)),
         NEW n, n = Len(Datagram(l, m)), NEW callback, callback \in Callbacks
  PROVE  Handled(r, callback, m, n, TRUE)
  <1>1. m.kind = "response"
    BY DEF IsResponse
  <1>2. PICK out : out = <<m.id, TransactionTypeResponse, m.type>>
    OBVIOUS
  <1>3. Readers(m) = {"transaction", "stun"}
    BY <1>1 DEF Readers
  <1>4. Expected(m).by = "transaction" /\ Expected(m).result = "Valid" /\ Expected(m).out = out
    <2>1. Expected(m) = [by |-> "transaction", result |-> "Valid", out |-> out]
      BY <1>1, <1>2 DEF Expected
    <2>2. QED
      BY <2>1
  <1>5. /\ StreamReceive(r).by = "none"
        /\ Takes4(TransactionReceive(r), "transaction", "Valid", out, n)
        /\ Takes4(StunReceive(r), "transaction", "Valid", out, n)
    BY <1>2, ResponseHandled
  <1>6. QED
    BY <1>3, <1>4, <1>5, UnpackCases DEF Handled, Understood, Callbacks

LEMMA UpdateUnderstood ==
  ASSUME NEW l \in BOOLEAN, NEW m, m.kind = "stream", IsUpdate(m),
         NEW r, Delivered(r, l, Datagram(l, m)), NEW n, n = Len(Datagram(l, m)),
         NEW callback, callback \in Callbacks
  PROVE  Handled(r, callback, m, n, TRUE)
  <1>1. PICK E, out : /\ E = UpdateBytes(l, m)
                      /\ out = <<m.sequence, m.ack, m.ackBits, m.tag, UpdateObject(m).data>>
    OBVIOUS
  <1>2. Layout(l, m, E)
    BY <1>1, UpdateLayout
  <1>3. Datagram(l, m) = E
    BY <1>2, LayoutPacked
  <1>4. IsStream(r) /\ r.offset = 0 /\ r.little = l /\ Located(r.data, 0, E)
    BY <1>3 DEF Delivered
  <1>5. /\ Takes4(StreamReceive(r), "stream", "Valid", out, Len(E))
        /\ TransactionReceive(r).by = "none" /\ StunReceive(r).by = "none"
    BY <1>1, <1>4, UpdateReceived
  <1>6. Readers(m) = {"stream"}
    BY DEF Readers
  <1>7. Expected(m).by = "stream" /\ Expected(m).result = "Valid" /\ Expected(m).out = out
    <2>1. Expected(m) = [by |-> "stream", result |-> "Valid", out |-> out]
      BY <1>1 DEF Expected
    <2>2. QED
      BY <2>1
  <1>8. n = Len(E)
    BY <1>3
  <1>9. QED
    BY <1>5, <1>6, <1>7, <1>8, UnpackCases DEF Handled, Understood, Callbacks

LEMMA NumbersUnderstood ==
  ASSUME NEW l \in BOOLEAN, NEW m, m.kind = "numbers", IsNumbers(m),
         NEW r, Delivered(r, l, Datagram(l, m)), NEW n, n = Len(Datagram(l, m))
  PROVE  Handled(r, "application", m, n, TRUE)
  <1>1. PICK E, out : E = NumbersBytes(l, m) /\ out = <<m.word, m.float>>
    OBVIOUS
  <1>2. Layout(l, m, E)
    BY <1>1, NumbersLayout
  <1>3. Datagram(l, m) = E
    BY <1>2, LayoutPacked
  <1>4. IsStream(r) /\ r.offset = 0 /\ r.little = l /\ Located(r.data, 0, E)
    BY <1>3 DEF Delivered
  <1>5. Takes4(ApplicationReceive(r), "application", "Valid", out, 8)
    BY <1>1, <1>4, NumbersRead
  <1>6. Readers(m) = {"application"}
    BY DEF Readers
  <1>7. Expected(m).by = "application" /\ Expected(m).result = "Valid" /\ Expected(m).out = out
    <2>1. Expected(m) = [by |-> "application", result |-> "Valid", out |-> out]
      BY <1>1 DEF Expected
    <2>2. QED
      BY <2>1
  <1>8. n = 8
    BY <1>1, <1>3, NumbersType
  <1>9. QED
    BY <1>5, <1>6, <1>7, <1>8, UnpackCases DEF Handled, Understood

LEMMA AnswerType ==
  ASSUME NEW d \in Seq(Byte), Len(d) = 12, NEW attributes, attributes \in Attributes
  PROVE  /\ \E n : n = Len(attributes) /\ AreAttributes(attributes, n)
         /\ 20 + Len(AnswerBody(attributes)) <= kNetPacketMaxLen
         /\ attributes = [i \in 1..Len(attributes) |-> attributes[i]]
         /\ AnswerBytes(d, attributes) \in Seq(Byte)
         /\ Len(AnswerBytes(d, attributes)) <= kNetPacketMaxLen
  <1>1. PICK n : n = Len(attributes)
    OBVIOUS
  <1>2. /\ AreAttributes(attributes, n) /\ 20 + Len(AnswerBody(attributes)) <= kNetPacketMaxLen
        /\ attributes = [i \in 1..Len(attributes) |-> attributes[i]]
    BY <1>1, AttributesAssumption DEF AreAttributes
  <1>3. PICK b : b = AnswerBody(attributes) /\ b \in Seq(Byte)
    BY <1>2, AnswerParts
  <1>4. PICK x, w : IsAnswer(x, w, attributes)
    BY <1>2, AnswerParts
  <1>5. PICK h : h = StunBytes(x, w, d)
    OBVIOUS
  <1>6. /\ x \in {257, 273} /\ w = Len(b) /\ w \in Uint16 /\ AnswerBytes(d, attributes) = h \o b
    BY <1>3, <1>4, <1>5 DEF IsAnswer
  <1>7. x \in Uint16
    BY <1>6, AnswerClass
  <1>8. h \in Seq(Byte) /\ Len(h) = 20
    <2>1. x \in Uint16 /\ w \in Uint16
      BY <1>6, <1>7
    <2>2. QED
      BY <1>5, <2>1, StunType
  <1>9. h \o b \in Seq(Byte) /\ Len(h \o b) = Len(h) + Len(b)
    BY <1>3, <1>8, Grow
  <1>10. Len(h \o b) <= kNetPacketMaxLen
    BY <1>2, <1>3, <1>8, <1>9
  <1>11. QED
    BY <1>1, <1>2, <1>6, <1>9, <1>10

LEMMA AnswerUnderstood ==
  ASSUME NEW m, NEW id, id \in Word(12), NEW attributes, attributes \in Attributes,
         m = [kind |-> "answer", transactionId |-> id, attributes |-> attributes],
         NEW E, E = AnswerBytes(Reverse(id), attributes), NEW r, Delivered(r, TRUE, E),
         NEW n, n = Len(E), NEW callback, callback \in Callbacks
  PROVE  Handled(r, callback, m, n, TRUE)
  <1>1. id \in Seq(Byte) /\ Len(id) = 12
    BY Words
  <1>2. Reverse(id) \in Seq(Byte) /\ Len(Reverse(id)) = 12
    BY <1>1, ReverseFacts
  <1>3. PICK k : k = Len(attributes) /\ AreAttributes(attributes, k)
    BY <1>2, AnswerType
  <1>4. /\ 20 + Len(AnswerBody(attributes)) <= kNetPacketMaxLen
        /\ attributes = [i \in 1..Len(attributes) |-> attributes[i]]
    BY <1>2, AnswerType
  <1>5. /\ IsStream(r) /\ r.offset = 0 /\ r.little = TRUE
        /\ Located(r.data, 0, AnswerBytes(Reverse(id), attributes))
    BY DEF Delivered
  <1>6. PICK out : out = <<id, ResponseAt(attributes, k)>>
    OBVIOUS
  <1>7. /\ TransactionReceive(r).by = "none" /\ StreamReceive(r).by = "none"
        /\ k = 0 => StunReceive(r).by = "none"
        /\ k # 0 => Takes4(StunReceive(r), "stun", "Valid", out, n)
    BY <1>1, <1>3, <1>4, <1>5, <1>6, AnswerReceived
  <1>8. m.kind = "answer" /\ m.transactionId = id /\ m.attributes = attributes
    OBVIOUS
  <1>9. k = 0 <=> attributes = << >>
    <2>1. k = 0 => attributes = << >>
      <3>1. k = 0 => attributes = [i \in 1..0 |-> attributes[i]]
        BY <1>3, <1>4
      <3>2. QED
        BY <3>1
    <2>2. attributes = << >> => k = 0
      BY <1>3
    <2>3. QED
      BY <2>1, <2>2
  <1>10. Readers(m) = IF k = 0 THEN {} ELSE {"stun"}
    BY <1>8, <1>9 DEF Readers
  <1>11. Expected(m).by = "stun" /\ Expected(m).result = "Valid" /\ Expected(m).out = out
    <2>1. ResponseAt(attributes, k) = [f \in DOMAIN NoBindingResponse |-> Stands(attributes, f)]
      BY <1>3, <1>4, ResponseStands
    <2>2. Expected(m) = [by |-> "stun", result |-> "Valid", out |-> out]
      BY <1>6, <1>8, <2>1 DEF Expected
    <2>3. QED
      BY <2>2
  <1>12. QED
    BY <1>7, <1>10, <1>11, UnpackCases DEF Handled, Understood, Callbacks

-----------------------------------------------------------------------------
(* The datagram on its way *)

\* E is what m was packed into, or the server's answer.
Sent(l, m, E) ==
  \/ /\ m \in Message /\ E = Datagram(l, m)
     /\ m.kind \in {"binding", "change"} => l = TRUE
  \/ /\ m = [kind |-> "answer", transactionId |-> m.transactionId, attributes |-> m.attributes]
     /\ m.transactionId \in Word(12) /\ m.attributes \in Attributes /\ l = TRUE
     /\ E = AnswerBytes(Reverse(m.transactionId), m.attributes)

LEMMA SentType ==
  ASSUME NEW l \in BOOLEAN, NEW m, NEW E, Sent(l, m, E)
  PROVE  E \in Seq(Byte) /\ Len(E) <= kNetPacketMaxLen
  <1>1. CASE /\ m \in Message /\ E = Datagram(l, m)
             /\ m.kind \in {"binding", "change"} => l = TRUE
    <2>1. IsMessage(m)
      BY <1>1, MessageAssumption
    <2>2. QED
      BY <1>1, <2>1, Sends
  <1>2. CASE /\ m.transactionId \in Word(12) /\ m.attributes \in Attributes
             /\ E = AnswerBytes(Reverse(m.transactionId), m.attributes)
    <2>1. PICK id, d, attributes : /\ id = m.transactionId /\ d = Reverse(id)
                                   /\ attributes = m.attributes
      OBVIOUS
    <2>2. id \in Seq(Byte) /\ Len(id) = 12 /\ attributes \in Attributes
      BY <1>2, <2>1, Words
    <2>3. d \in Seq(Byte) /\ Len(d) = 12
      BY <2>1, <2>2, ReverseFacts
    <2>4. E = AnswerBytes(d, attributes)
      BY <1>2, <2>1
    <2>5. QED
      BY <2>2, <2>3, <2>4, AnswerType
  <1>3. QED
    BY <1>1, <1>2 DEF Sent

LEMMA SentHandled ==
  ASSUME NEW l \in BOOLEAN, NEW m, NEW E, Sent(l, m, E), m.kind \notin {"binding", "change"},
         NEW r, Delivered(r, l, E), NEW callback,
         \/ m.kind # "numbers" /\ callback \in Callbacks
         \/ m.kind = "numbers" /\ callback = "application"
  PROVE  Handled(r, callback, m, Len(E), IsPeerList(m) => Len(Whole(l, m)) <= kNetPacketMaxLen)
  <1>1. PICK n : n = Len(E)
    OBVIOUS
  <1>2. Handled(r, callback, m, n, TRUE)
          => Handled(r, callback, m, n, IsPeerList(m) => Len(Whole(l, m)) <= kNetPacketMaxLen)
    BY DEF Handled
  <1>3. CASE m \in Message /\ E = Datagram(l, m)
    <2>1. IsMessage(m)
      BY <1>3, MessageAssumption
    <2>2. Delivered(r, l, Datagram(l, m)) /\ n = Len(Datagram(l, m))
      BY <1>1, <1>3
    <2>3. CASE IsRequest(m)
      <3>1. callback \in Callbacks
        BY <2>3 DEF IsRequest
      <3>2. QED
        BY <1>1, <2>2, <2>3, <3>1, RequestUnderstood
    <2>4. CASE IsResponse(m)
      <3>1. callback \in Callbacks
        BY <2>4 DEF IsResponse
      <3>2. QED
        BY <1>1, <1>2, <2>2, <2>4, <3>1, ResponseUnderstood
    <2>5. CASE m.kind = "stream" /\ IsUpdate(m)
      <3>1. callback \in Callbacks
        BY <2>5
      <3>2. QED
        BY <1>1, <1>2, <2>2, <2>5, <3>1, UpdateUnderstood
    <2>6. CASE IsStunRequest(m)
      BY <2>6 DEF IsStunRequest
    <2>7. CASE m.kind = "numbers" /\ IsNumbers(m)
      <3>1. callback = "application"
        BY <2>7
      <3>2. Handled(r, "application", m, n, TRUE)
        BY <2>2, <2>7, NumbersUnderstood
      <3>3. QED
        BY <1>1, <1>2, <3>1, <3>2
    <2>8. QED
      BY <2>1, <2>3, <2>4, <2>5, <2>6, <2>7, MessageKinds
  <1>4. CASE /\ m = [kind |-> "answer", transactionId |-> m.transactionId, attributes |-> m.attributes]
             /\ m.transactionId \in Word(12) /\ m.attributes \in Attributes /\ l = TRUE
             /\ E = AnswerBytes(Reverse(m.transactionId), m.attributes)
    <2>1. PICK id, attributes : id = m.transactionId /\ attributes = m.attributes
      OBVIOUS
    <2>2. /\ m = [kind |-> "answer", transactionId |-> id, attributes |-> attributes]
          /\ id \in Word(12) /\ attributes \in Attributes
          /\ E = AnswerBytes(Reverse(id), attributes)
      BY <1>4, <2>1
    <2>3. m.kind = "answer"
      BY <2>2
    <2>4. callback \in Callbacks
      BY <2>3
    <2>5. Delivered(r, TRUE, E)
      BY <1>4
    <2>6. Handled(r, callback, m, n, TRUE)
      BY <1>1, <2>2, <2>4, <2>5, AnswerUnderstood
    <2>7. QED
      BY <1>1, <1>2, <2>6
  <1>5. QED
    BY <1>3, <1>4 DEF Sent

Typed == little \in BOOLEAN /\ memory \in Word(kNetPacketMaxLen)

\* A datagram on its way was not received yet, and holds what was sent.
OnItsWay == wire # Unset => got = NotYet /\ Sent(little, sent, wire)

\* The inductive invariant: what was received is as it is to be.
CodecInv == Typed /\ OnItsWay /\ RoundTrip /\ OwnProtocolOnly

LEMMA NothingReceived == got = NotYet => RoundTrip /\ OwnProtocolOnly
  BY DEF RoundTrip, OwnProtocolOnly

LEMMA NothingReceivedYet == got' = NotYet => RoundTrip' /\ OwnProtocolOnly'
  BY DEF RoundTrip, OwnProtocolOnly

LEMMA CodecInit == Init => CodecInv
  <1> SUFFICES ASSUME Init PROVE CodecInv
    OBVIOUS
  <1>1. little \in BOOLEAN /\ wire = Unset /\ got = NotYet /\ memory = Zeros(kNetPacketMaxLen)
    BY DEF Init
  <1>2. Zeros(kNetPacketMaxLen) \in Word(kNetPacketMaxLen)
    BY SomeBytes DEF Zeros, Word
  <1>3. QED
    BY <1>1, <1>2, NothingReceived DEF CodecInv, Typed, OnItsWay

\* A datagram that is an answer is no message of a host.
LEMMA SentMessage ==
  ASSUME NEW l, NEW m, NEW E, Sent(l, m, E), m.kind # "answer"
  PROVE  /\ IsMessage(m) /\ E = Datagram(l, m)
         /\ m.kind \in {"binding", "change"} => l = TRUE
  <1>1. CASE m = [kind |-> "answer", transactionId |-> m.transactionId, attributes |-> m.attributes]
    BY <1>1
  <1>2. QED
    BY <1>1, MessageAssumption DEF Sent

\* Of a request to the server, its bytes are known.
LEMMA SentToServer ==
  ASSUME NEW l, NEW m, NEW E, Sent(l, m, E), m.kind \in {"binding", "change"}
  PROVE  IsStunRequest(m) /\ E = RequestBytes(m) /\ l = TRUE
  <1>1. IsMessage(m) /\ E = Datagram(l, m) /\ l = TRUE
    BY SentMessage
  <1>2. IsStunRequest(m)
    BY <1>1, MessageKinds DEF IsRequest, IsResponse
  <1>3. PICK F : F = RequestBytes(m)
    OBVIOUS
  <1>4. Layout(TRUE, m, F)
    BY <1>2, <1>3, StunLayout
  <1>5. TRUE \in BOOLEAN
    OBVIOUS
  <1>6. Datagram(TRUE, m) = F
    BY <1>4, <1>5, LayoutPacked
  <1>7. QED
    BY <1>1, <1>2, <1>3, <1>6

LEMMA CodecSend ==
  ASSUME CodecInv, NEW m \in Message, Send(m)
  PROVE  CodecInv'
  <1>1. /\ m.kind \in {"binding", "change"} => little
        /\ wire' = Packed(Pack(net_packet_init(Zeros(kNetPacketMaxLen), little, 0), m))
        /\ sent' = m /\ got' = NotYet /\ little' = little /\ memory' = memory
    BY DEF Send
  <1>2. Typed
    BY DEF CodecInv
  <1>3. m.kind \in {"binding", "change"} => little = TRUE
    BY <1>1, <1>2, Zenon DEF Typed
  <1>4. PICK l, E : l = little /\ E = Datagram(little, m)
    OBVIOUS
  <1>5. Sent(l, m, E)
    BY <1>3, <1>4 DEF Sent
  <1>6. wire' = E
    BY <1>1, <1>4 DEF Datagram
  <1>7. Typed'
    BY <1>1, <1>2 DEF Typed
  <1>8. OnItsWay'
    BY <1>1, <1>4, <1>5, <1>6 DEF OnItsWay
  <1>9. QED
    BY <1>1, <1>7, <1>8, NothingReceivedYet DEF CodecInv

LEMMA CodecAnswers ==
  ASSUME CodecInv, NEW attributes \in Attributes, ServerAnswers(attributes)
  PROVE  CodecInv'
  <1>1. /\ wire # Unset /\ sent.kind \in {"binding", "change"}
        /\ wire' = AnswerBytes(SubSeq(wire, 9, 20), attributes)
        /\ sent' = [kind |-> "answer", transactionId |-> sent.transactionId,
                    attributes |-> attributes]
        /\ little' = little /\ memory' = memory /\ got' = got
    BY DEF ServerAnswers
  <1>2. Typed /\ got = NotYet /\ Sent(little, sent, wire)
    BY <1>1 DEF CodecInv, OnItsWay
  <1>3. PICK id, l, m, E : id = sent.transactionId /\ l = little /\ m = sent' /\ E = wire'
    OBVIOUS
  <1>4. IsStunRequest(sent) /\ wire = RequestBytes(sent) /\ little = TRUE
    BY <1>1, <1>2, SentToServer
  <1>5. SubSeq(wire, 9, 20) = Reverse(id)
    BY <1>3, <1>4, StunRequestFacts
  <1>6. id \in Word(12)
    BY <1>3, <1>4 DEF IsStunRequest
  <1>7. m.transactionId = id /\ m.attributes = attributes
    BY <1>1, <1>3
  <1>8. m = [kind |-> "answer", transactionId |-> m.transactionId, attributes |-> m.attributes]
    BY <1>1, <1>3, <1>7
  <1>9. E = AnswerBytes(Reverse(m.transactionId), m.attributes)
    BY <1>1, <1>3, <1>5, <1>7
  <1>10. l = TRUE
    BY <1>3, <1>4
  <1>11. Sent(l, m, E)
    BY <1>6, <1>7, <1>8, <1>9, <1>10 DEF Sent
  <1>12. Typed'
    BY <1>1, <1>2 DEF Typed
  <1>13. got' = NotYet
    BY <1>1, <1>2
  <1>14. OnItsWay'
    BY <1>1, <1>3, <1>11, <1>13 DEF OnItsWay
  <1>15. QED
    BY <1>12, <1>13, <1>14, NothingReceivedYet DEF CodecInv

LEMMA CodecReceive ==
  ASSUME CodecInv, NEW callback, NEW past, Receive(callback, past),
         \/ sent.kind # "numbers" /\ callback \in Callbacks
         \/ sent.kind = "numbers" /\ callback = "application"
  PROVE  CodecInv'
  <1>1. PICK l, E, M, m : l = little /\ E = wire /\ M = memory /\ m = sent
    OBVIOUS
  <1>2. /\ wire # Unset /\ m.kind \notin {"binding", "change"}
        /\ memory' = Overlaid(E, M) /\ wire' = Unset /\ little' = l /\ sent' = m
    BY <1>1 DEF Receive, Overlaid
  <1>3. l \in BOOLEAN /\ M \in Word(kNetPacketMaxLen) /\ Sent(l, m, E)
    BY <1>1, <1>2 DEF CodecInv, OnItsWay, Typed
  <1>4. E \in Seq(Byte) /\ Len(E) <= kNetPacketMaxLen
    BY <1>3, SentType
  <1>5. PICK r : r = net_packet_init(Overlaid(E, M), l, past) /\ Delivered(r, l, E)
    BY <1>3, <1>4, Deliver
  <1>6. PICK g, n : g = Unpack(r, callback) /\ n = Len(E)
    OBVIOUS
  <1>7. got' = [callback |-> callback, length |-> n, by |-> g.by, result |-> g.result,
                out |-> g.out, offset |-> g.offset]
    <2>1. PICK N : N = memory'
      OBVIOUS
    <2>2. got' = Taken(callback, Len(wire), Unpack(net_packet_init(N, little, past), callback))
      BY <2>1 DEF Receive
    <2>3. net_packet_init(N, little, past) = r
      BY <1>1, <1>2, <1>5, <2>1
    <2>4. QED
      BY <1>1, <1>6, <2>2, <2>3 DEF Taken
  <1>8. Handled(r, callback, m, n, IsPeerList(m) => Len(Whole(l, m)) <= kNetPacketMaxLen)
    BY <1>1, <1>2, <1>3, <1>5, <1>6, SentHandled
  <1>9. /\ got'.callback = callback /\ got'.length = n /\ got'.by = g.by
        /\ got'.result = g.result /\ got'.out = g.out /\ got'.offset = g.offset
    BY <1>7
  <1>10. PackedWhole(sent)' = Whole(l, m)
    BY <1>2 DEF PackedWhole, Whole
  <1>11. RoundTrip'
    <2>1. ASSUME callback \in Readers(m),
                 IsPeerList(m) => Len(Whole(l, m)) <= kNetPacketMaxLen
          PROVE  /\ got'.by = Expected(m).by /\ got'.result = Expected(m).result
                 /\ got'.out = Expected(m).out /\ got'.offset = got'.length
      <3>1. Understood(r, callback, m, n)
        BY <1>8, <2>1 DEF Handled
      <3>2. QED
        BY <1>6, <1>9, <3>1 DEF Understood, Takes4
    <2>2. ASSUME callback \in Readers(m),
                 IsPeerList(m) => Len(Whole(l, m)) <= kNetPacketMaxLen
          PROVE  /\ \A f \in {"by", "result", "out"} : got'[f] = Expected(m)[f]
                 /\ got'.offset = got'.length
      BY <2>1, <2>2
    <2>3. QED
      BY <1>2, <1>9, <1>10, <2>2 DEF RoundTrip
  <1>12. OwnProtocolOnly'
    <2>1. callback \notin Readers(m) => g.by = "none"
      BY <1>6, <1>8 DEF Handled
    <2>2. QED
      BY <1>2, <1>9, <2>1 DEF OwnProtocolOnly
  <1>13. Typed'
    BY <1>2, <1>3, <1>4, OverlaidType DEF Typed
  <1>14. OnItsWay'
    BY <1>2 DEF OnItsWay
  <1>15. QED
    BY <1>11, <1>12, <1>13, <1>14 DEF CodecInv

LEMMA CodecNext == CodecInv /\ [Next]_vars => CodecInv'
  <1> SUFFICES ASSUME CodecInv, [Next]_vars PROVE CodecInv'
    OBVIOUS
  <1>1. ASSUME NEW m \in Message, Send(m) PROVE CodecInv'
    BY <1>1, CodecSend
  <1>2. ASSUME NEW attributes \in Attributes, ServerAnswers(attributes) PROVE CodecInv'
    BY <1>2, CodecAnswers
  <1>3. ASSUME NEW callback \in Callbacks, NEW past \in Past,
               sent.kind # "numbers", Receive(callback, past)
        PROVE  CodecInv'
    BY <1>3, CodecReceive
  <1>4. ASSUME sent.kind = "numbers", Receive("application", 0)
        PROVE  CodecInv'
    <2>1. PICK callback, past : callback = "application" /\ past = 0
      OBVIOUS
    <2>2. Receive(callback, past)
      BY <1>4, <2>1
    <2>3. QED
      BY <1>4, <2>1, <2>2, CodecReceive
  <1>5. CASE UNCHANGED vars
    <2>1. /\ little' = little /\ wire' = wire /\ sent' = sent /\ memory' = memory /\ got' = got
      BY <1>5 DEF vars
    <2>2. Typed' /\ OnItsWay'
      BY <2>1 DEF CodecInv, Typed, OnItsWay
    <2>3. PackedWhole(sent)' = PackedWhole(sent)
      BY <2>1 DEF PackedWhole
    <2>4. RoundTrip'
      BY <2>1, <2>3 DEF CodecInv, RoundTrip
    <2>5. OwnProtocolOnly'
      BY <2>1 DEF CodecInv, OwnProtocolOnly
    <2>6. QED
      BY <2>2, <2>4, <2>5 DEF CodecInv
  <1>6. QED
    BY <1>1, <1>2, <1>3, <1>4, <1>5 DEF Next, Callbacks

-----------------------------------------------------------------------------
(* The theorems *)

\* The inductive invariant holds: a datagram on its way is the layout of the
\* message it was packed from, or of the server's answer, and what was last
\* received came out as it is to.
THEOREM CodecInvariant == Spec => []CodecInv
  BY CodecInit, CodecNext, PTL DEF Spec

\* Of what transactionRequest, transactionResponse, streamSend and the STUN
\* tests pack, only a list of peers can be cut off by the bound checks of the
\* bitstream, whatever the fields hold and however the data of an update was
\* copied together.
THEOREM NothingIsCutOff == Spec => []PackedOrPeerList
  <1>1. CodecInv => PackedOrPeerList
    <2> SUFFICES ASSUME CodecInv, wire # Unset, sent.kind # "answer"
                 PROVE  /\ IsPeerList(sent) \/ wire = PackedWhole(sent)
                        /\ Len(wire) <= kNetPacketMaxLen
      BY DEF PackedOrPeerList
    <2>1. PICK l, m, E : l = little /\ m = sent /\ E = wire
      OBVIOUS
    <2>2. l \in BOOLEAN /\ Sent(l, m, E) /\ m.kind # "answer"
      BY <2>1 DEF CodecInv, Typed, OnItsWay
    <2>3. /\ IsMessage(m) /\ E = Datagram(l, m)
          /\ m.kind \in {"binding", "change"} => l = TRUE
      BY <2>2, SentMessage
    <2>4. /\ Len(E) <= kNetPacketMaxLen
          /\ IsPeerList(m) \/ E = Whole(l, m)
      BY <2>2, <2>3, Sends
    <2>5. PackedWhole(sent) = Whole(l, m)
      BY <2>1 DEF PackedWhole, Whole
    <2>6. QED
      BY <2>1, <2>4, <2>5
  <1>2. QED
    BY <1>1, CodecInvariant, PTL

\* Every message that fits in a packet comes out of the receive callbacks as
\* it went in, on hosts of either byte order, in a packet of the pool that
\* holds any earlier bytes: the unpack functions read exactly the datagram,
\* also when a STUN test forwards a transaction.
THEOREM MessagesComeThrough == Spec => []RoundTrip
  <1>1. CodecInv => RoundTrip
    BY DEF CodecInv
  <1>2. QED
    BY <1>1, CodecInvariant, PTL

\* The header checks of protocolUnpackHeader and stunProtocolUnpackHeader
\* keep the protocols apart: no callback takes a packet of another protocol.
THEOREM ProtocolsStayApart == Spec => []OwnProtocolOnly
  <1>1. CodecInv => OwnProtocolOnly
    BY DEF CodecInv
  <1>2. QED
    BY <1>1, CodecInvariant, PTL

\* stunProtocolPackBindingRequest and ...ChangeRequest write what RFC 5389
\* and RFC 5780 ask for: the type, the length of the body, the cookie and the
\* flags, for every transaction id.
THEOREM RequestsAreWellFormed == Spec => []ServerUnderstands
  <1>1. CodecInv => ServerUnderstands
    <2> SUFFICES ASSUME CodecInv, wire # Unset, sent.kind \in {"binding", "change"}
                 PROVE  /\ ServerReads(wire).type = StunMsgTypeBinding
                        /\ ServerReads(wire).cookie = kStunProtocolMagicCookie
                        /\ ServerReads(wire).length = ServerReads(wire).body
                        /\ sent.kind = "change" =>
                             ServerReads(wire).flags = Bytes16(StunAttributeChangeRequest)
                               \o <<0, 4, 0, 0, 0, Flags(sent.host, sent.port)>>
      BY DEF ServerUnderstands, Flags
    <2>1. PICK l, m, E : l = little /\ m = sent /\ E = wire
      OBVIOUS
    <2>2. Sent(l, m, E) /\ m.kind \in {"binding", "change"}
      BY <2>1 DEF CodecInv, OnItsWay
    <2>3. IsStunRequest(m) /\ E = RequestBytes(m)
      BY <2>2, SentToServer
    <2>4. /\ ServerReads(E).type = StunMsgTypeBinding
          /\ ServerReads(E).cookie = kStunProtocolMagicCookie
          /\ ServerReads(E).length = ServerReads(E).body
          /\ m.kind = "change" =>
               ServerReads(E).flags = Bytes16(StunAttributeChangeRequest)
                                        \o <<0, 4, 0, 0, 0, Flags(m.host, m.port)>>
      BY <2>3, StunRequestFacts
    <2>5. QED
      BY <2>1, <2>4
  <1>2. QED
    BY <1>1, CodecInvariant, PTL
=============================================================================
