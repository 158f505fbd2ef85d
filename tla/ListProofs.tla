------------------------------ MODULE ListProofs ------------------------------
(***************************************************************************)
(* The list of list.c never loses a node or uses one twice, and behaves as *)
(* the sequence of its objects; for every initial capacity and growth.     *)
(***************************************************************************)
EXTENDS List, FiniteSetTheorems, WellFoundedInduction, SequenceTheorems, TLAPS

\* A set of natural numbers has a least element.
LEMMA LeastNumber ==
  ASSUME NEW B \in SUBSET Nat, B # {}
  PROVE  \E m \in B : \A k \in B : m <= k
  <1> DEFINE T == {0..b : b \in B}
  <1>1. T \subseteq FiniteSubsetsOf(Nat)
    <2>1. \A b \in B : IsFiniteSet(0..b) /\ 0..b \in SUBSET Nat
      BY FS_Interval
    <2>2. QED
      BY <2>1 DEF FiniteSubsetsOf
  <1>2. IsWellFoundedOn(StrictSubsetOrdering(Nat), FiniteSubsetsOf(Nat))
    BY FS_StrictSubsetOrderingWellFounded
  <1>3. T # {}
    OBVIOUS
  <1>4. PICK x \in T : \A y \in T : ~(<<y, x>> \in StrictSubsetOrdering(Nat))
    BY <1>1, <1>2, <1>3, WFMin
  <1>5. PICK m \in B : x = 0..m
    OBVIOUS
  <1>6. ASSUME NEW k \in B, k < m PROVE FALSE
    <2>1. 0..k \in T /\ 0..k \subseteq 0..m /\ 0..k # 0..m /\ 0..m \subseteq Nat
      <3>1. m \in 0..m /\ m \notin 0..k
        BY <1>6
      <3>2. QED
        BY <1>6, <3>1
    <2>2. <<0..k, 0..m>> \in StrictSubsetOrdering(Nat)
      BY <2>1 DEF StrictSubsetOrdering
    <2>3. QED
      BY <1>4, <1>5, <2>1, <2>2
  <1>7. QED
    BY <1>6

LEMMA CountTo ==
  ASSUME NEW n \in Nat
  PROVE  /\ IsFiniteSet(1..n) /\ Cardinality(1..n) = n
         /\ IsFiniteSet(0..(n - 1)) /\ Cardinality(0..(n - 1)) = n
  <1>1. IsFiniteSet(1..n) /\ Cardinality(1..n) = IF 1 > n THEN 0 ELSE n - 1 + 1
    BY FS_Interval
  <1>2. /\ IsFiniteSet(0..(n - 1))
        /\ Cardinality(0..(n - 1)) = IF 0 > n - 1 THEN 0 ELSE n - 1 - 0 + 1
    BY FS_Interval
  <1>3. QED
    BY <1>1, <1>2

-----------------------------------------------------------------------------
(* The chains of list.c *)

\* s lists the nodes of nds linked from node i on, up to the null pointer.
IsChain(nds, i, s) ==
  /\ s \in Seq(1..Len(nds))
  /\ i = IF Len(s) = 0 THEN 0 ELSE s[1]
  /\ \A k \in 1..Len(s) : nds[s[k]].next = IF k = Len(s) THEN 0 ELSE s[k + 1]
  /\ \A k, l \in 1..Len(s) : s[k] = s[l] => k = l

\* No chain is longer than there are nodes.
LEMMA ChainLength ==
  ASSUME NEW nds, Len(nds) \in Nat, NEW i, NEW s, IsChain(nds, i, s)
  PROVE  Len(s) \in 0..Len(nds)
  <1> DEFINE N == Len(nds)
  <1>1. Len(s) \in Nat /\ s \in [1..Len(s) -> 1..N]
    BY LenProperties DEF IsChain
  <1>2. s \in Injection(1..Len(s), 1..N)
    BY <1>1 DEF IsChain, Injection, IsInjective
  <1>3. IsFiniteSet(1..N) /\ Cardinality(1..N) = N /\ Cardinality(1..Len(s)) = Len(s)
    BY <1>1, CountTo
  <1>4. Cardinality(1..Len(s)) <= Cardinality(1..N)
    BY <1>2, <1>3, FS_Injection
  <1>5. QED
    BY <1>1, <1>3, <1>4

\* The walk from node i along the next pointers, N steps
Walked(nds, i, N) ==
  CHOOSE g : g = [k \in 0..N |->
                    IF k = 0 THEN i ELSE IF g[k - 1] = 0 THEN 0 ELSE nds[g[k - 1]].next]

\* The nodes such a walk visits: Walk of List, for any nodes
Visits(nds, i) ==
  LET visited == {k \in 0..Len(nds) : Walked(nds, i, Len(nds))[k] # 0}
  IN [k \in 1..Cardinality(visited) |-> Walked(nds, i, Len(nds))[k - 1]]

\* A walk that starts on a chain follows it and stays at the null pointer.
LEMMA WalkChain ==
  ASSUME NEW nds, Len(nds) \in Nat, NEW i, NEW s, IsChain(nds, i, s)
  PROVE  Walked(nds, i, Len(nds)) =
           [k \in 0..Len(nds) |-> IF k < Len(s) THEN s[k + 1] ELSE 0]
  <1> DEFINE N == Len(nds)
             n == Len(s)
  <1>0. /\ N \in Nat /\ n \in 0..N /\ \A k \in 1..n : s[k] \in Nat \ {0}
        /\ i = IF n = 0 THEN 0 ELSE s[1]
        /\ \A k \in 1..n : nds[s[k]].next = IF k = n THEN 0 ELSE s[k + 1]
    <2>1. n \in 0..N /\ s \in [1..n -> 1..N]
      BY ChainLength, LenProperties DEF IsChain
    <2>2. \A k \in 1..n : s[k] \in 1..N
      BY <2>1
    <2>3. /\ i = IF n = 0 THEN 0 ELSE s[1]
          /\ \A k \in 1..n : nds[s[k]].next = IF k = n THEN 0 ELSE s[k + 1]
      BY DEF IsChain
    <2> HIDE DEF n
    <2>4. QED
      BY <2>1, <2>2, <2>3
  <1> HIDE DEF N, n
  <1> USE <1>0
  <1> DEFINE Steps(g) == [k \in 0..N |->
                           IF k = 0 THEN i
                           ELSE IF g[k - 1] = 0 THEN 0 ELSE nds[g[k - 1]].next]
             h == [k \in 0..N |-> IF k < n THEN s[k + 1] ELSE 0]
  <1>1. ASSUME NEW k \in 0..N
        PROVE  h[k] = IF k = 0 THEN i
                      ELSE IF h[k - 1] = 0 THEN 0 ELSE nds[h[k - 1]].next
    <2>0. \A j \in 0..N : h[j] = IF j < n THEN s[j + 1] ELSE 0
      OBVIOUS
    <2> HIDE DEF h
    <2>1. CASE k = 0
      BY <2>0, <2>1
    <2>2. CASE k # 0 /\ k < n
      <3>1. k \in 1..n /\ k - 1 \in 0..N /\ k - 1 < n /\ (k - 1) + 1 = k /\ k # n
        BY <2>2
      <3>2. h[k - 1] = s[k] /\ h[k] = s[k + 1]
        BY <2>0, <2>2, <3>1
      <3>3. nds[s[k]].next = s[k + 1] /\ s[k] # 0
        BY <3>1
      <3>4. QED
        BY <2>2, <3>2, <3>3
    <2>3. CASE k # 0 /\ k = n
      <3>1. k \in 1..n /\ k - 1 \in 0..N /\ k - 1 < n /\ (k - 1) + 1 = k /\ ~(k < n)
        BY <2>3
      <3>2. h[k - 1] = s[k] /\ h[k] = 0
        BY <2>0, <2>3, <3>1
      <3>3. nds[s[k]].next = 0 /\ s[k] # 0
        BY <2>3, <3>1
      <3>4. QED
        BY <2>3, <3>2, <3>3
    <2>4. CASE k # 0 /\ k > n
      <3>1. k - 1 \in 0..N /\ ~(k - 1 < n) /\ ~(k < n)
        BY <2>4
      <3>2. QED
        BY <2>0, <2>4, <3>1
    <2>5. QED
      BY <2>1, <2>2, <2>3, <2>4
  <1>2. h = Steps(h)
    BY <1>1
  \* Two functions that walk alike agree from the start on.
  <1>3. ASSUME NEW g, g = Steps(g) PROVE g = h
    <2> DEFINE B == {k \in 0..N : g[k] # h[k]}
    <2>1. /\ g = [k \in 0..N |-> g[k]]
          /\ h = [k \in 0..N |-> h[k]]
          /\ \A k \in 0..N : g[k] = IF k = 0 THEN i
                                    ELSE IF g[k - 1] = 0 THEN 0 ELSE nds[g[k - 1]].next
      BY <1>3
    <2> HIDE DEF h
    <2>2. B \in SUBSET Nat /\ B \subseteq 0..N
      OBVIOUS
    <2>3. \A k \in 0..N : k \in B <=> g[k] # h[k]
      OBVIOUS
    <2> HIDE DEF B
    <2>4. ASSUME NEW m \in B, \A k \in B : m <= k PROVE FALSE
      <3>1. m \in 0..N /\ g[m] # h[m]
        BY <2>2, <2>3
      <3>2. m # 0
        BY <1>1, <2>1, <3>1
      <3>3. m - 1 \in 0..N /\ m - 1 \notin B
        BY <2>4, <3>1, <3>2
      <3>4. g[m - 1] = h[m - 1]
        BY <2>3, <3>3
      <3>5. QED
        BY <1>1, <2>1, <3>1, <3>2, <3>4
    <2>5. B = {}
      BY <2>2, <2>4, LeastNumber
    <2>6. QED
      BY <2>1, <2>3, <2>5
  <1> HIDE DEF h
  <1>4. (CHOOSE g : g = Steps(g)) = Steps(CHOOSE g : g = Steps(g))
    <2> HIDE DEF Steps
    <2>1. QED
      BY <1>2
  <1>5. (CHOOSE g : g = Steps(g)) = h
    BY <1>3, <1>4
  <1>6. QED
    BY <1>5 DEF h, Walked, N, n

\* The loop over the nodes from i on visits the chain.
LEMMA VisitsChain ==
  ASSUME NEW nds, Len(nds) \in Nat, NEW i, NEW s, IsChain(nds, i, s)
  PROVE  Visits(nds, i) = s
  <1> DEFINE N == Len(nds)
             n == Len(s)
             node == Walked(nds, i, N)
             visited == {k \in 0..N : node[k] # 0}
  <1>1. Visits(nds, i) = [k \in 1..Cardinality(visited) |-> node[k - 1]]
    BY DEF Visits, Walked
  <1>2. n \in 0..N /\ s \in [1..n -> 1..N] /\ n \in Nat /\ N \in Nat
    BY ChainLength, LenProperties DEF IsChain
  <1>3. \A k \in 1..n : s[k] \in Nat \ {0}
    BY <1>2
  <1>4. node = [k \in 0..N |-> IF k < n THEN s[k + 1] ELSE 0]
    BY WalkChain
  <1> HIDE DEF node, n, N
  <1>5. visited = 0..(n - 1)
    <2>1. ASSUME NEW k \in 0..N PROVE node[k] # 0 <=> k \in 0..(n - 1)
      <3>1. CASE k < n
        <4>1. k + 1 \in 1..n /\ k \in 0..(n - 1)
          BY <1>2, <3>1
        <4>2. s[k + 1] # 0 /\ node[k] = s[k + 1]
          BY <1>3, <1>4, <3>1, <4>1
        <4>3. QED
          BY <4>1, <4>2
      <3>2. CASE ~(k < n)
        BY <1>2, <1>4, <3>2
      <3>3. QED
        BY <3>1, <3>2
    <2>2. 0..(n - 1) \subseteq 0..N
      BY <1>2
    <2>3. QED
      BY <2>1, <2>2
  <1>6. Cardinality(visited) = n
    BY <1>2, <1>5, CountTo
  <1>7. \A k \in 1..n : node[k - 1] = s[k]
    <2>1. \A k \in 1..n : k - 1 \in 0..N /\ k - 1 < n /\ (k - 1) + 1 = k
      BY <1>2
    <2>2. QED
      BY <1>4, <2>1
  <1>8. Visits(nds, i) = [k \in 1..n |-> node[k - 1]]
    BY <1>1, <1>6
  <1>9. QED
    BY <1>2, <1>7, <1>8

-----------------------------------------------------------------------------
\* What Chain and Free are, now and after a step
LEMMA WalkVisits ==
  /\ Chain = Visits(nodes, head) /\ Free = Visits(nodes, reserved)
  /\ Chain' = Visits(nodes', head') /\ Free' = Visits(nodes', reserved')
  <1>1. Chain = Visits(nodes, head)
    BY DEF Chain, Walk, Visits, Walked, Capacity
  <1>2. Free = Visits(nodes, reserved)
    BY DEF Free, Walk, Visits, Walked, Capacity
  <1>3. Chain' = Visits(nodes', head')
    BY DEF Chain, Walk, Visits, Walked, Capacity
  <1>4. Free' = Visits(nodes', reserved')
    BY DEF Free, Walk, Visits, Walked, Capacity
  <1>5. QED
    BY <1>1, <1>2, <1>3, <1>4

-----------------------------------------------------------------------------
(* The shape of a list *)

Node == [object : Object \cup {NULL}, next : Nat, previous : Nat]

\* e lists the nodes in use, linked from h to t in both directions, and r the
\* reserved ones, linked from f on; each node is in one of them and in it once.
Shape(nds, h, t, f, e, r) ==
  /\ nds \in Seq(Node)
  /\ IsChain(nds, h, e) /\ IsChain(nds, f, r)
  /\ t = IF Len(e) = 0 THEN 0 ELSE e[Len(e)]
  /\ \A k \in 1..Len(e) : nds[e[k]].previous = IF k = 1 THEN 0 ELSE e[k - 1]
  /\ \A k \in 1..Len(e), l \in 1..Len(r) : e[k] # r[l]
  /\ \A n \in 1..Len(nds) :
       (\E k \in 1..Len(e) : e[k] = n) \/ (\E l \in 1..Len(r) : r[l] = n)
  /\ Len(e) + Len(r) = Len(nds)

LEMMA ShapeFacts ==
  ASSUME NEW nds, NEW h, NEW t, NEW f, NEW e, NEW r, Shape(nds, h, t, f, e, r)
  PROVE  /\ Len(nds) \in Nat /\ nds \in [1..Len(nds) -> Node]
         /\ Len(e) \in Nat /\ e \in [1..Len(e) -> 1..Len(nds)]
         /\ Len(r) \in Nat /\ r \in [1..Len(r) -> 1..Len(nds)]
         /\ h = IF Len(e) = 0 THEN 0 ELSE e[1]
         /\ f = IF Len(r) = 0 THEN 0 ELSE r[1]
         /\ \A k \in 1..Len(e) : nds[e[k]].next = IF k = Len(e) THEN 0 ELSE e[k + 1]
         /\ \A k \in 1..Len(r) : nds[r[k]].next = IF k = Len(r) THEN 0 ELSE r[k + 1]
         /\ \A k, l \in 1..Len(e) : e[k] = e[l] => k = l
         /\ \A k, l \in 1..Len(r) : r[k] = r[l] => k = l
  <1>1. Len(nds) \in Nat /\ nds \in [1..Len(nds) -> Node]
    BY LenProperties DEF Shape
  <1>2. /\ Len(e) \in Nat /\ e \in [1..Len(e) -> 1..Len(nds)]
        /\ Len(r) \in Nat /\ r \in [1..Len(r) -> 1..Len(nds)]
    BY LenProperties DEF Shape, IsChain
  <1>3. QED
    BY <1>1, <1>2 DEF Shape, IsChain

\* A function on 1..n is a sequence.
LEMMA FunctionSeq ==
  ASSUME NEW S, NEW n \in Nat, NEW s \in [1..n -> S]
  PROVE  s \in Seq(S) /\ Len(s) = n
  OBVIOUS

\* The node list_add takes from the reserve and what it makes of the nodes
Added(nds, t, n, o) ==
  LET added == [nds EXCEPT ![n] = [object |-> o, next |-> 0, previous |-> t]]
  IN IF t # 0 THEN [added EXCEPT ![t].next = n] ELSE added

LEMMA AddedNodes ==
  ASSUME NEW N \in Nat, NEW nds \in [1..N -> Node], NEW t \in 0..N, NEW n \in 1..N,
         t # n, NEW o \in Object
  PROVE  LET w == Added(nds, t, n, o) IN
         /\ w \in [1..N -> Node]
         /\ \A x \in 1..N :
              /\ w[x].object = IF x = n THEN o ELSE nds[x].object
              /\ w[x].previous = IF x = n THEN t ELSE nds[x].previous
              /\ w[x].next = IF x = n THEN 0 ELSE IF x = t THEN n ELSE nds[x].next
  <1> DEFINE node == [object |-> o, next |-> 0, previous |-> t]
             a == [nds EXCEPT ![n] = node]
             w == Added(nds, t, n, o)
  <1>1. node \in Node /\ node.object = o /\ node.next = 0 /\ node.previous = t
    BY DEF Node
  <1> HIDE DEF node
  <1>2. a \in [1..N -> Node] /\ \A x \in 1..N : a[x] = IF x = n THEN node ELSE nds[x]
    BY <1>1
  <1> HIDE DEF a
  <1>3. CASE t = 0
    <2>1. w = a
      BY <1>3 DEF Added, a, node
    <2>2. \A x \in 1..N : x # t
      BY <1>3
    <2>3. QED
      BY <1>1, <1>2, <2>1, <2>2
  <1>4. CASE t # 0
    <2> DEFINE v == [nds[t] EXCEPT !.next = n]
    <2>1. t \in 1..N /\ nds[t] \in Node /\ n \in Nat
      BY <1>4
    <2>2. /\ v \in Node /\ v.next = n
          /\ v.object = nds[t].object /\ v.previous = nds[t].previous
      BY <2>1 DEF Node
    <2>3. a[t] = nds[t]
      BY <1>2, <2>1
    <2>4. w = [a EXCEPT ![t] = v]
      <3>1. w = [a EXCEPT ![t].next = n]
        BY <1>4 DEF Added, a, node
      <3>2. QED
        BY <2>3, <3>1
    <2> HIDE DEF v, w
    <2>5. /\ w \in [1..N -> Node]
          /\ \A x \in 1..N : w[x] = IF x = t THEN v ELSE IF x = n THEN node ELSE nds[x]
      BY <1>2, <2>1, <2>2, <2>4
    <2>6. QED
      BY <1>1, <2>1, <2>2, <2>5 DEF w
  <1>5. QED
    BY <1>3, <1>4

\* The sequences of nodes after an add and a removal
Longer(s, n) == [k \in 1..(Len(s) + 1) |-> IF k = Len(s) + 1 THEN n ELSE s[k]]
Rest(s) == [k \in 1..(Len(s) - 1) |-> s[k + 1]]
Without(s, m) == [k \in 1..(Len(s) - 1) |-> IF k < m THEN s[k] ELSE s[k + 1]]
Onto(n, s) == [k \in 1..(Len(s) + 1) |-> IF k = 1 THEN n ELSE s[k - 1]]

\* list_add with a node in reserve
LEMMA AddShape ==
  ASSUME NEW nds, NEW h, NEW t, NEW f, NEW e, NEW r, Shape(nds, h, t, f, e, r),
         f # 0, NEW o \in Object
  PROVE  /\ Shape(Added(nds, t, f, o), IF t # 0 THEN h ELSE f, f, nds[f].next,
                  Longer(e, f), Rest(r))
         /\ \A k \in 1..Len(e) : Added(nds, t, f, o)[e[k]].object = nds[e[k]].object
         /\ Added(nds, t, f, o)[f].object = o
  <1> DEFINE N == Len(nds)
             A == Len(e)
             B == Len(r)
             w == Added(nds, t, f, o)
             e1 == Longer(e, f)
             r1 == Rest(r)
             h1 == IF t # 0 THEN h ELSE f
  <1>1. /\ N \in Nat /\ nds \in [1..N -> Node]
        /\ A \in Nat /\ e \in [1..A -> 1..N] /\ B \in Nat /\ r \in [1..B -> 1..N]
        /\ h = IF A = 0 THEN 0 ELSE e[1]
        /\ f = IF B = 0 THEN 0 ELSE r[1]
        /\ \A k \in 1..A : nds[e[k]].next = IF k = A THEN 0 ELSE e[k + 1]
        /\ \A k \in 1..B : nds[r[k]].next = IF k = B THEN 0 ELSE r[k + 1]
        /\ \A k, l \in 1..A : e[k] = e[l] => k = l
        /\ \A k, l \in 1..B : r[k] = r[l] => k = l
    BY ShapeFacts
  <1>2. /\ t = IF A = 0 THEN 0 ELSE e[A]
        /\ \A k \in 1..A : nds[e[k]].previous = IF k = 1 THEN 0 ELSE e[k - 1]
        /\ \A k \in 1..A, l \in 1..B : e[k] # r[l]
        /\ \A n \in 1..N : (\E k \in 1..A : e[k] = n) \/ (\E l \in 1..B : r[l] = n)
        /\ A + B = N
    BY DEF Shape
  <1>3. /\ e1 = [k \in 1..(A + 1) |-> IF k = A + 1 THEN f ELSE e[k]]
        /\ r1 = [k \in 1..(B - 1) |-> r[k + 1]]
    BY DEF Longer, Rest
  <1> HIDE DEF N, A, B, w, e1, r1
  <1>4. B # 0 /\ f = r[1] /\ 1 \in 1..B /\ f \in 1..N
    BY <1>1
  <1>5. t \in 0..N /\ t # f /\ (t # 0 <=> A # 0) /\ (A # 0 => A \in 1..A /\ t = e[A])
    BY <1>1, <1>2, <1>4
  <1>6. /\ w \in [1..N -> Node]
        /\ \A x \in 1..N :
             /\ w[x].object = IF x = f THEN o ELSE nds[x].object
             /\ w[x].previous = IF x = f THEN t ELSE nds[x].previous
             /\ w[x].next = IF x = f THEN 0 ELSE IF x = t THEN f ELSE nds[x].next
    <2>1. N \in Nat /\ nds \in [1..N -> Node] /\ t \in 0..N /\ f \in 1..N /\ t # f
      BY <1>1, <1>4, <1>5
    <2>2. QED
      BY <2>1, AddedNodes DEF w
  <1>7. w \in Seq(Node) /\ Len(w) = N
    BY <1>1, <1>6, FunctionSeq
  <1>8. /\ \A k \in 1..A : e[k] \in 1..N /\ e[k] # f
        /\ \A k \in 1..B : r[k] \in 1..N /\ (k # 1 => r[k] # f) /\ r[k] # t
    <2>1. \A k \in 1..A : e[k] \in 1..N /\ e[k] # f
      BY <1>1, <1>2, <1>4
    <2>2. \A k \in 1..B : r[k] \in 1..N /\ (k # 1 => r[k] # f)
      BY <1>1, <1>4
    <2>3. \A k \in 1..B : r[k] # t
      <3>1. CASE A = 0
        BY <1>2, <2>2, <3>1
      <3>2. CASE A # 0
        BY <1>2, <1>5, <3>2
      <3>3. QED
        BY <3>1, <3>2
    <2>4. QED
      BY <2>1, <2>2, <2>3
  <1>9. /\ e1 \in [1..(A + 1) -> 1..N] /\ e1 \in Seq(1..N) /\ Len(e1) = A + 1
        /\ e1[A + 1] = f /\ \A k \in 1..A : e1[k] = e[k]
    <2>1. /\ e1 \in [1..(A + 1) -> 1..N]
          /\ e1[A + 1] = f /\ \A k \in 1..A : e1[k] = e[k]
      BY <1>1, <1>3, <1>4
    <2>2. A + 1 \in Nat
      BY <1>1
    <2>3. QED
      BY <2>1, <2>2, FunctionSeq
  <1>10. /\ r1 \in [1..(B - 1) -> 1..N] /\ r1 \in Seq(1..N) /\ Len(r1) = B - 1
         /\ \A k \in 1..(B - 1) : r1[k] = r[k + 1] /\ k + 1 \in 1..B /\ k + 1 # 1
    <2>1. \A k \in 1..(B - 1) : k + 1 \in 1..B /\ k + 1 # 1
      BY <1>1
    <2>2. r1 \in [1..(B - 1) -> 1..N] /\ \A k \in 1..(B - 1) : r1[k] = r[k + 1]
      BY <1>1, <1>3, <2>1
    <2>3. B - 1 \in Nat
      BY <1>1, <1>4
    <2>4. QED
      BY <2>1, <2>2, <2>3, FunctionSeq
  <1>11. \A k \in 1..(A + 1) : k \in 1..A \/ k = A + 1
    BY <1>1
  <1>12. IsChain(w, h1, e1)
    <2>1. h1 = IF A + 1 = 0 THEN 0 ELSE e1[1]
      BY <1>1, <1>5, <1>9
    <2>2. ASSUME NEW k \in 1..(A + 1)
          PROVE  w[e1[k]].next = IF k = A + 1 THEN 0 ELSE e1[k + 1]
      <3>1. CASE k = A + 1
        BY <1>4, <1>6, <1>9, <3>1
      <3>2. CASE k = A /\ k \in 1..A
        <4>1. e1[k] = t /\ t \in 1..N /\ A + 1 \in 1..(A + 1) /\ k # A + 1
          BY <1>1, <1>5, <1>8, <1>9, <3>2
        <4>2. w[t].next = f
          BY <1>5, <1>6, <4>1
        <4>3. QED
          BY <1>9, <3>2, <4>1, <4>2
      <3>3. CASE k # A /\ k \in 1..A
        <4>1. e1[k] = e[k] /\ k + 1 \in 1..A /\ e1[k + 1] = e[k + 1] /\ k # A + 1
          BY <1>1, <1>9, <3>3
        <4>2. e[k] # t
          BY <1>1, <1>5, <3>3
        <4>3. w[e[k]].next = nds[e[k]].next
          BY <1>6, <1>8, <3>3, <4>2
        <4>4. QED
          BY <1>1, <3>3, <4>1, <4>3
      <3>4. QED
        BY <1>11, <3>1, <3>2, <3>3
    <2>3. ASSUME NEW k \in 1..(A + 1), NEW l \in 1..(A + 1), e1[k] = e1[l] PROVE k = l
      <3>1. CASE k \in 1..A /\ l \in 1..A
        BY <1>1, <1>9, <2>3, <3>1
      <3>2. CASE k = A + 1 \/ l = A + 1
        BY <1>8, <1>9, <1>11, <2>3, <3>2
      <3>3. QED
        BY <1>11, <3>1, <3>2
    <2>4. QED
      BY <1>7, <1>9, <2>1, <2>2, <2>3 DEF IsChain
  <1>13. IsChain(w, nds[f].next, r1)
    <2>1. nds[f].next = IF B - 1 = 0 THEN 0 ELSE r1[1]
      <3>1. nds[f].next = IF 1 = B THEN 0 ELSE r[1 + 1]
        BY <1>1, <1>4
      <3>2. B # 1 => 1 \in 1..(B - 1) /\ r1[1] = r[1 + 1]
        <4>1. B # 1 => 1 \in 1..(B - 1)
          BY <1>1, <1>4
        <4>2. QED
          BY <1>10, <4>1
      <3>3. QED
        BY <1>1, <3>1, <3>2
    <2>2. ASSUME NEW k \in 1..(B - 1)
          PROVE  w[r1[k]].next = IF k = B - 1 THEN 0 ELSE r1[k + 1]
      <3>1. r1[k] = r[k + 1] /\ k + 1 \in 1..B /\ k + 1 # 1
        BY <1>10
      <3>2. w[r[k + 1]].next = nds[r[k + 1]].next
        BY <1>6, <1>8, <3>1
      <3>3. nds[r[k + 1]].next = IF k + 1 = B THEN 0 ELSE r[(k + 1) + 1]
        BY <1>1, <3>1
      <3>4. k + 1 = B <=> k = B - 1
        BY <1>1
      <3>5. k # B - 1 => r1[k + 1] = r[(k + 1) + 1]
        <4>1. k # B - 1 => k + 1 \in 1..(B - 1)
          BY <1>1
        <4>2. QED
          BY <1>10, <4>1
      <3>6. QED
        BY <3>1, <3>2, <3>3, <3>4, <3>5
    <2>3. ASSUME NEW k \in 1..(B - 1), NEW l \in 1..(B - 1), r1[k] = r1[l] PROVE k = l
      <3>1. k + 1 = l + 1
        BY <1>1, <1>10, <2>3
      <3>2. k \in Int /\ l \in Int
        OBVIOUS
      <3>3. QED
        BY <3>1, <3>2
    <2>4. QED
      BY <1>7, <1>10, <2>1, <2>2, <2>3 DEF IsChain
  <1>14. f = IF A + 1 = 0 THEN 0 ELSE e1[A + 1]
    BY <1>1, <1>9
  <1>15. \A k \in 1..(A + 1) : w[e1[k]].previous = IF k = 1 THEN 0 ELSE e1[k - 1]
    <2>1. ASSUME NEW k \in 1..A PROVE w[e1[k]].previous = IF k = 1 THEN 0 ELSE e1[k - 1]
      <3>1. e1[k] = e[k] /\ w[e[k]].previous = nds[e[k]].previous
        BY <1>6, <1>8, <1>9
      <3>2. k # 1 => k - 1 \in 1..A
        BY <1>1
      <3>3. QED
        BY <1>2, <1>9, <3>1, <3>2
    <2>2. w[e1[A + 1]].previous = IF A + 1 = 1 THEN 0 ELSE e1[(A + 1) - 1]
      <3>1. w[e1[A + 1]].previous = t
        BY <1>4, <1>6, <1>9
      <3>2. A # 0 => A \in 1..A /\ (A + 1) - 1 = A /\ A + 1 # 1
        BY <1>1
      <3>3. QED
        BY <1>1, <1>2, <1>9, <3>1, <3>2
    <2>3. QED
      BY <1>11, <2>1, <2>2
  <1>16. \A k \in 1..(A + 1), l \in 1..(B - 1) : e1[k] # r1[l]
    BY <1>2, <1>8, <1>9, <1>10, <1>11
  <1>17. ASSUME NEW n \in 1..N
         PROVE  (\E k \in 1..(A + 1) : e1[k] = n) \/ (\E l \in 1..(B - 1) : r1[l] = n)
    <2>1. CASE \E k \in 1..A : e[k] = n
      <3>1. PICK k \in 1..A : e[k] = n
        BY <2>1
      <3>2. k \in 1..(A + 1) /\ e1[k] = n
        BY <1>1, <1>9, <3>1
      <3>3. QED
        BY <3>2
    <2>2. CASE \E l \in 1..B : r[l] = n
      <3>1. PICK l \in 1..B : r[l] = n
        BY <2>2
      <3>2. CASE l = 1
        <4>1. A + 1 \in 1..(A + 1) /\ e1[A + 1] = n
          BY <1>1, <1>4, <1>9, <3>1, <3>2
        <4>2. QED
          BY <4>1
      <3>3. CASE l # 1
        <4>1. l - 1 \in 1..(B - 1) /\ (l - 1) + 1 = l
          BY <1>1, <3>3
        <4>2. r1[l - 1] = n
          BY <1>10, <3>1, <4>1
        <4>3. QED
          BY <4>1, <4>2
      <3>4. QED
        BY <3>2, <3>3
    <2>3. QED
      BY <1>2, <2>1, <2>2
  <1>18. (A + 1) + (B - 1) = N
    BY <1>1, <1>2
  <1>19. Shape(w, h1, f, nds[f].next, e1, r1)
    BY <1>7, <1>9, <1>10, <1>12, <1>13, <1>14, <1>15, <1>16, <1>17, <1>18 DEF Shape
  <1>20. (\A k \in 1..A : w[e[k]].object = nds[e[k]].object) /\ w[f].object = o
    BY <1>4, <1>6, <1>8
  <1>21. QED
    BY <1>19, <1>20 DEF w, e1, r1, A

\* list_reserve on n nodes: the new ones are linked in the order of their
\* indexes from n + 1 on.
Reserve(n, c) == [k \in 1..c |-> n + k]

LEMMA WovenNodes ==
  ASSUME NEW n \in Nat, NEW c \in Nat
  PROVE  /\ Woven(n, c) \in Seq(Node) /\ Len(Woven(n, c)) = c
         /\ \A k \in 1..c : Woven(n, c)[k].next = IF k = c THEN 0 ELSE n + (k + 1)
  <1> DEFINE W == Woven(n, c)
             V(i) == [object |-> NULL, next |-> IF i = c THEN 0 ELSE n + i + 1, previous |-> 0]
  <1>1. ASSUME NEW i \in 1..c
        PROVE  V(i) \in Node /\ V(i).next = IF i = c THEN 0 ELSE n + (i + 1)
    <2>1. (IF i = c THEN 0 ELSE n + i + 1) \in Nat /\ n + i + 1 = n + (i + 1)
      OBVIOUS
    <2>2. QED
      BY <2>1 DEF Node
  <1>2. W = [i \in 1..c |-> V(i)]
    BY DEF Woven
  <1> HIDE DEF V, W
  <1>3. W \in [1..c -> Node] /\ \A i \in 1..c : W[i] = V(i)
    BY <1>1, <1>2
  <1>4. W \in Seq(Node) /\ Len(W) = c
    BY <1>3, FunctionSeq
  <1>5. QED
    BY <1>1, <1>3, <1>4 DEF W

LEMMA ConcatNodes ==
  ASSUME NEW s \in Seq(Node), NEW u \in Seq(Node)
  PROVE  /\ s \o u \in Seq(Node) /\ Len(s \o u) = Len(s) + Len(u)
         /\ \A x \in 1..(Len(s) + Len(u)) :
              (s \o u)[x] = IF x <= Len(s) THEN s[x] ELSE u[x - Len(s)]
  BY ConcatProperties

\* A list with nothing in reserve gets c more nodes.
LEMMA GrowShape ==
  ASSUME NEW nds, NEW h, NEW t, NEW e, NEW r, Shape(nds, h, t, 0, e, r),
         NEW c \in Nat \ {0}
  PROVE  /\ Shape(nds \o Woven(Len(nds), c), h, t, Len(nds) + 1, e, Reserve(Len(nds), c))
         /\ \A x \in 1..Len(nds) : (nds \o Woven(Len(nds), c))[x] = nds[x]
         /\ Len(nds \o Woven(Len(nds), c)) = Len(nds) + c
  <1> DEFINE N == Len(nds)
             A == Len(e)
             W == Woven(N, c)
             w == nds \o W
             r1 == Reserve(N, c)
  <1>1. /\ N \in Nat /\ nds \in [1..N -> Node]
        /\ A \in Nat /\ e \in [1..A -> 1..N] /\ Len(r) \in Nat /\ r \in [1..Len(r) -> 1..N]
        /\ h = IF A = 0 THEN 0 ELSE e[1]
        /\ 0 = IF Len(r) = 0 THEN 0 ELSE r[1]
        /\ \A k \in 1..A : nds[e[k]].next = IF k = A THEN 0 ELSE e[k + 1]
        /\ \A k, l \in 1..A : e[k] = e[l] => k = l
    BY ShapeFacts
  <1>2. /\ nds \in Seq(Node) /\ t = IF A = 0 THEN 0 ELSE e[A]
        /\ \A k \in 1..A : nds[e[k]].previous = IF k = 1 THEN 0 ELSE e[k - 1]
        /\ \A n \in 1..N : (\E k \in 1..A : e[k] = n) \/ (\E l \in 1..Len(r) : r[l] = n)
        /\ A + Len(r) = N
    BY DEF Shape
  <1>3. Len(r) = 0
    <2> DEFINE B == Len(r)
    <2>1. B \in Nat /\ r \in [1..B -> 1..N] /\ 0 = IF B = 0 THEN 0 ELSE r[1]
      BY <1>1
    <2> HIDE DEF B, N
    <2>2. ASSUME B # 0 PROVE FALSE
      <3>1. 1 \in 1..B
        BY <2>1, <2>2
      <3>2. r[1] \in 1..N
        BY <2>1, <3>1
      <3>3. r[1] = 0
        BY <2>1, <2>2
      <3>4. QED
        BY <3>2, <3>3
    <2>3. QED
      BY <2>2 DEF B
  <1>4. /\ W \in Seq(Node) /\ Len(W) = c
        /\ \A k \in 1..c : W[k].next = IF k = c THEN 0 ELSE N + (k + 1)
    BY <1>1, WovenNodes
  <1>5. r1 = [k \in 1..c |-> N + k]
    BY DEF Reserve
  <1> HIDE DEF N, A, W, r1
  <1>6. /\ w \in Seq(Node) /\ Len(w) = N + c
        /\ \A x \in 1..(N + c) : w[x] = IF x <= N THEN nds[x] ELSE W[x - N]
    <2>1. nds \in Seq(Node) /\ W \in Seq(Node) /\ Len(nds) = N /\ Len(W) = c
      BY <1>2, <1>4 DEF N
    <2>2. QED
      BY <2>1, ConcatNodes
  <1> HIDE DEF w
  <1>7. (\A x \in 1..N : w[x] = nds[x]) /\ (\A k \in 1..c : w[N + k] = W[k])
    <2>1. \A x \in 1..N : x \in 1..(N + c) /\ x <= N
      BY <1>1
    <2>2. \A k \in 1..c : N + k \in 1..(N + c) /\ ~(N + k <= N) /\ (N + k) - N = k
      BY <1>1
    <2>3. QED
      BY <1>6, <2>1, <2>2
  <1>8. /\ r1 \in [1..c -> 1..(N + c)] /\ r1 \in Seq(1..(N + c)) /\ Len(r1) = c
        /\ \A k \in 1..c : r1[k] = N + k
    <2>1. \A k \in 1..c : N + k \in 1..(N + c)
      BY <1>1
    <2>2. r1 \in [1..c -> 1..(N + c)] /\ \A k \in 1..c : r1[k] = N + k
      BY <1>5, <2>1
    <2>3. QED
      BY <2>2, FunctionSeq
  <1>9. e \in [1..A -> 1..(N + c)] /\ e \in Seq(1..(N + c)) /\ Len(e) = A
    <2>1. 1..N \subseteq 1..(N + c)
      BY <1>1
    <2>2. e \in [1..A -> 1..(N + c)]
      BY <1>1, <2>1
    <2>3. QED
      BY <1>1, <2>2, FunctionSeq
  <1>10. \A k \in 1..A : e[k] \in 1..N /\ w[e[k]] = nds[e[k]]
    BY <1>1, <1>7
  <1>11. IsChain(w, h, e)
    BY <1>1, <1>6, <1>9, <1>10 DEF IsChain
  <1>12. IsChain(w, N + 1, r1)
    <2>1. 1 \in 1..c /\ r1[1] = N + 1
      BY <1>8
    <2>2. ASSUME NEW k \in 1..c
          PROVE  w[r1[k]].next = IF k = c THEN 0 ELSE r1[k + 1]
      <3>1. k # c => k + 1 \in 1..c
        OBVIOUS
      <3>2. w[r1[k]].next = W[k].next
        BY <1>7, <1>8
      <3>3. QED
        BY <1>4, <1>8, <3>1, <3>2
    <2>3. \A k, l \in 1..c : r1[k] = r1[l] => k = l
      BY <1>1, <1>8
    <2>4. QED
      BY <1>6, <1>8, <2>1, <2>2, <2>3 DEF IsChain
  <1>13. \A k \in 1..A, l \in 1..c : e[k] # r1[l]
    BY <1>1, <1>8, <1>10
  <1>14. ASSUME NEW n \in 1..(N + c)
         PROVE  (\E k \in 1..A : e[k] = n) \/ (\E l \in 1..c : r1[l] = n)
    <2>1. CASE n \in 1..N
      <3>1. \A l \in 1..Len(r) : FALSE
        BY <1>3
      <3>2. QED
        BY <1>2, <2>1, <3>1
    <2>2. CASE n \notin 1..N
      <3>1. n - N \in 1..c /\ N + (n - N) = n
        BY <1>1, <2>2
      <3>2. r1[n - N] = n
        BY <1>8, <3>1
      <3>3. QED
        BY <3>1, <3>2
    <2>3. QED
      BY <2>1, <2>2
  <1>15. A + c = N + c
    BY <1>1, <1>2, <1>3
  <1>16. \A k \in 1..A : w[e[k]].previous = IF k = 1 THEN 0 ELSE e[k - 1]
    BY <1>2, <1>10
  <1>17. Shape(w, h, t, N + 1, e, r1)
    BY <1>2, <1>6, <1>8, <1>9, <1>11, <1>12, <1>13, <1>14, <1>15, <1>16 DEF Shape
  <1>18. QED
    BY <1>6, <1>7, <1>17 DEF w, r1, W, N

\* list_remove of the node at position m of the list: what it makes of the
\* nodes, and that both chains keep their shape
Mended(nds, n, f) ==
  LET p == nds[n].previous
      x == nds[n].next
      forward == IF p # 0 THEN [nds EXCEPT ![p].next = x] ELSE nds
      both == IF x # 0 THEN [forward EXCEPT ![x].previous = p] ELSE forward
  IN [both EXCEPT ![n].next = f, ![n].previous = 0]

LEMMA MendedNodes ==
  ASSUME NEW N \in Nat, NEW nds \in [1..N -> Node], NEW n \in 1..N, NEW f \in 0..N,
         nds[n].previous \in 0..N, nds[n].next \in 0..N,
         nds[n].previous # n, nds[n].next # n
  PROVE  /\ Mended(nds, n, f) \in [1..N -> Node]
         /\ \A y \in 1..N :
              /\ Mended(nds, n, f)[y].object = nds[y].object
              /\ Mended(nds, n, f)[y].next =
                   IF y = n THEN f
                   ELSE IF y = nds[n].previous THEN nds[n].next ELSE nds[y].next
              /\ Mended(nds, n, f)[y].previous =
                   IF y = n THEN 0
                   ELSE IF y = nds[n].next THEN nds[n].previous ELSE nds[y].previous
  <1> DEFINE p == nds[n].previous
             x == nds[n].next
             a == IF p # 0 THEN [nds EXCEPT ![p].next = x] ELSE nds
             b == IF x # 0 THEN [a EXCEPT ![x].previous = p] ELSE a
             c == [b EXCEPT ![n].next = f]
             w == [c EXCEPT ![n].previous = 0]
  <1>0. p \in 0..N /\ x \in 0..N /\ p # n /\ x # n
    OBVIOUS
  <1>1. Mended(nds, n, f) = w
    BY DEF Mended
  <1>2. \A y \in 1..N : y # 0
    OBVIOUS
  <1> HIDE DEF p, x
  <1> USE <1>0
  <1>3. /\ a \in [1..N -> Node]
        /\ \A y \in 1..N : /\ a[y].object = nds[y].object
                           /\ a[y].next = IF y = p THEN x ELSE nds[y].next
                           /\ a[y].previous = nds[y].previous
    <2>1. CASE p = 0
      BY <1>2, <2>1
    <2>2. CASE p # 0
      <3> DEFINE v == [nds[p] EXCEPT !.next = x]
      <3>1. p \in 1..N /\ nds[p] \in Node /\ x \in Nat
        BY <2>2
      <3>2. /\ v \in Node /\ v.next = x
            /\ v.object = nds[p].object /\ v.previous = nds[p].previous
        BY <3>1 DEF Node
      <3>3. a = [nds EXCEPT ![p] = v]
        BY <2>2
      <3> HIDE DEF v, a
      <3>4. /\ a \in [1..N -> Node]
            /\ \A y \in 1..N : a[y] = IF y = p THEN v ELSE nds[y]
        BY <3>1, <3>2, <3>3
      <3>5. QED
        BY <3>2, <3>4
    <2>3. QED
      BY <2>1, <2>2
  <1> HIDE DEF a
  <1>4. /\ b \in [1..N -> Node]
        /\ \A y \in 1..N : /\ b[y].object = a[y].object
                           /\ b[y].next = a[y].next
                           /\ b[y].previous = IF y = x THEN p ELSE a[y].previous
    <2>1. CASE x = 0
      BY <1>2, <1>3, <2>1
    <2>2. CASE x # 0
      <3> DEFINE v == [a[x] EXCEPT !.previous = p]
      <3>1. x \in 1..N /\ a[x] \in Node /\ p \in Nat
        BY <1>3, <2>2
      <3>2. /\ v \in Node /\ v.previous = p
            /\ v.object = a[x].object /\ v.next = a[x].next
        BY <3>1 DEF Node
      <3>3. b = [a EXCEPT ![x] = v]
        BY <2>2
      <3> HIDE DEF v, b
      <3>4. /\ b \in [1..N -> Node]
            /\ \A y \in 1..N : b[y] = IF y = x THEN v ELSE a[y]
        BY <1>3, <3>1, <3>2, <3>3
      <3>5. QED
        BY <3>2, <3>4
    <2>3. QED
      BY <2>1, <2>2
  <1> HIDE DEF b
  <1>5. /\ c \in [1..N -> Node]
        /\ \A y \in 1..N : /\ c[y].object = b[y].object
                           /\ c[y].next = IF y = n THEN f ELSE b[y].next
                           /\ c[y].previous = b[y].previous
    <2> DEFINE v == [b[n] EXCEPT !.next = f]
    <2>1. b[n] \in Node /\ f \in Nat
      BY <1>4
    <2>2. /\ v \in Node /\ v.next = f
          /\ v.object = b[n].object /\ v.previous = b[n].previous
      BY <2>1 DEF Node
    <2>3. c = [b EXCEPT ![n] = v]
      OBVIOUS
    <2> HIDE DEF v, c
    <2>4. /\ c \in [1..N -> Node]
          /\ \A y \in 1..N : c[y] = IF y = n THEN v ELSE b[y]
      BY <1>4, <2>2, <2>3
    <2>5. QED
      BY <2>2, <2>4
  <1> HIDE DEF c
  <1>6. /\ w \in [1..N -> Node]
        /\ \A y \in 1..N : /\ w[y].object = c[y].object
                           /\ w[y].next = c[y].next
                           /\ w[y].previous = IF y = n THEN 0 ELSE c[y].previous
    <2> DEFINE v == [c[n] EXCEPT !.previous = 0]
    <2>1. c[n] \in Node
      BY <1>5
    <2>2. /\ v \in Node /\ v.previous = 0
          /\ v.object = c[n].object /\ v.next = c[n].next
      BY <2>1 DEF Node
    <2>3. w = [c EXCEPT ![n] = v]
      OBVIOUS
    <2> HIDE DEF v, w
    <2>4. /\ w \in [1..N -> Node]
          /\ \A y \in 1..N : w[y] = IF y = n THEN v ELSE c[y]
      BY <1>5, <2>2, <2>3
    <2>5. QED
      BY <2>2, <2>4
  <1> HIDE DEF w
  <1>7. QED
    BY <1>1, <1>3, <1>4, <1>5, <1>6 DEF p, x
LEMMA RemoveShape ==
  ASSUME NEW nds, NEW h, NEW t, NEW f, NEW e, NEW r, Shape(nds, h, t, f, e, r),
         NEW m \in 1..Len(e)
  PROVE  LET n == e[m]
             w == Mended(nds, n, f)
         IN /\ Shape(w, IF nds[n].previous = 0 THEN nds[n].next ELSE h,
                     IF nds[n].next = 0 THEN nds[n].previous ELSE t, n,
                     Without(e, m), Onto(n, r))
            /\ \A k \in 1..Len(e) : w[e[k]].object = nds[e[k]].object
  <1> DEFINE N == Len(nds)
             A == Len(e)
             B == Len(r)
             n == e[m]
             w == Mended(nds, n, f)
             p == nds[n].previous
             x == nds[n].next
             e1 == Without(e, m)
             r1 == Onto(n, r)
             h1 == IF p = 0 THEN x ELSE h
             t1 == IF x = 0 THEN p ELSE t
  <1>1. /\ N \in Nat /\ nds \in [1..N -> Node]
        /\ A \in Nat /\ e \in [1..A -> 1..N] /\ B \in Nat /\ r \in [1..B -> 1..N]
        /\ h = IF A = 0 THEN 0 ELSE e[1]
        /\ f = IF B = 0 THEN 0 ELSE r[1]
        /\ \A k \in 1..A : nds[e[k]].next = IF k = A THEN 0 ELSE e[k + 1]
        /\ \A k \in 1..B : nds[r[k]].next = IF k = B THEN 0 ELSE r[k + 1]
        /\ \A k, l \in 1..A : e[k] = e[l] => k = l
        /\ \A k, l \in 1..B : r[k] = r[l] => k = l
    BY ShapeFacts
  <1>2. /\ t = IF A = 0 THEN 0 ELSE e[A]
        /\ \A k \in 1..A : nds[e[k]].previous = IF k = 1 THEN 0 ELSE e[k - 1]
        /\ \A k \in 1..A, l \in 1..B : e[k] # r[l]
        /\ \A y \in 1..N : (\E k \in 1..A : e[k] = y) \/ (\E l \in 1..B : r[l] = y)
        /\ A + B = N
    BY DEF Shape
  <1>3. /\ e1 = [k \in 1..(A - 1) |-> IF k < m THEN e[k] ELSE e[k + 1]]
        /\ r1 = [k \in 1..(B + 1) |-> IF k = 1 THEN n ELSE r[k - 1]]
    BY DEF Without, Onto
  <1>4. m \in 1..A /\ n = e[m] /\ n \in 1..N
    BY <1>1
  <1>5. p = (IF m = 1 THEN 0 ELSE e[m - 1]) /\ x = IF m = A THEN 0 ELSE e[m + 1]
    BY <1>1, <1>2
  <1>6. p = nds[n].previous /\ x = nds[n].next
    OBVIOUS
  <1> HIDE DEF N, A, B, n, w, p, x, e1, r1
  \* Who is who: the neighbours of the node are other nodes of the list.
  <1>7. \A k \in 1..A : e[k] \in 1..N /\ e[k] # 0 /\ (k # m => e[k] # n)
    BY <1>1, <1>4
  <1>8. \A k \in 1..B : r[k] \in 1..N /\ r[k] # 0 /\ r[k] # n
    BY <1>1, <1>2, <1>4
  <1>9. /\ p \in 0..N /\ p # n /\ (p = 0 <=> m = 1)
        /\ (\A k \in 1..A : e[k] = p <=> k + 1 = m) /\ (\A k \in 1..B : r[k] # p)
    <2>1. CASE m = 1
      <3>1. p = 0 /\ \A k \in 1..A : k + 1 # m
        BY <1>5, <2>1
      <3>2. 0 \in 0..N /\ n # 0
        BY <1>1, <1>4
      <3>3. (\A k \in 1..A : e[k] # p) /\ (\A k \in 1..B : r[k] # p)
        BY <1>7, <1>8, <3>1
      <3>4. \A k \in 1..A : e[k] = p <=> k + 1 = m
        BY <3>1, <3>3
      <3>5. p \in 0..N /\ p # n /\ (p = 0 <=> m = 1)
        BY <2>1, <3>1, <3>2
      <3>6. QED
        BY <3>3, <3>4, <3>5
    <2>2. CASE m # 1
      <3>1. m - 1 \in 1..A /\ m - 1 # m /\ p = e[m - 1]
        BY <1>1, <1>4, <1>5, <2>2
      <3>2. p \in 1..N /\ p # 0 /\ p # n
        BY <1>7, <3>1
      <3>3. \A k \in 1..A : e[k] = p <=> k = m - 1
        BY <1>1, <3>1
      <3>4. \A k \in 1..A : k = m - 1 <=> k + 1 = m
        BY <1>4
      <3>5. \A k \in 1..B : r[k] # p
        BY <1>2, <3>1
      <3>6. 1..N \subseteq 0..N
        BY <1>1
      <3>7. QED
        BY <2>2, <3>2, <3>3, <3>4, <3>5, <3>6
    <2>3. QED
      BY <2>1, <2>2
  <1>10. /\ x \in 0..N /\ x # n /\ (x = 0 <=> m = A)
         /\ (\A k \in 1..A : e[k] = x <=> k = m + 1) /\ (\A k \in 1..B : r[k] # x)
    <2>1. CASE m = A
      <3>1. x = 0 /\ \A k \in 1..A : k # m + 1
        BY <1>1, <1>5, <2>1
      <3>2. 0 \in 0..N /\ n # 0
        BY <1>1, <1>4
      <3>3. QED
        BY <1>7, <1>8, <2>1, <3>1, <3>2
    <2>2. CASE m # A
      <3>1. m + 1 \in 1..A /\ m + 1 # m /\ x = e[m + 1]
        BY <1>1, <1>4, <1>5, <2>2
      <3>2. x \in 1..N /\ x # 0 /\ x # n
        BY <1>7, <3>1
      <3>3. \A k \in 1..A : e[k] = x <=> k = m + 1
        BY <1>1, <3>1
      <3>5. \A k \in 1..B : r[k] # x
        BY <1>2, <3>1
      <3>6. 1..N \subseteq 0..N
        BY <1>1
      <3>7. QED
        BY <2>2, <3>2, <3>3, <3>5, <3>6
    <2>3. QED
      BY <2>1, <2>2
  <1>11. f \in 0..N
    <2>1. B # 0 => 1 \in 1..B
      BY <1>1
    <2>2. QED
      BY <1>1, <2>1
  <1>12. /\ w \in [1..N -> Node]
         /\ \A y \in 1..N :
              /\ w[y].object = nds[y].object
              /\ w[y].next = IF y = n THEN f ELSE IF y = p THEN x ELSE nds[y].next
              /\ w[y].previous = IF y = n THEN 0 ELSE IF y = x THEN p ELSE nds[y].previous
    <2>1. /\ N \in Nat /\ nds \in [1..N -> Node] /\ n \in 1..N /\ f \in 0..N
          /\ nds[n].previous \in 0..N /\ nds[n].next \in 0..N
          /\ nds[n].previous # n /\ nds[n].next # n
      BY <1>1, <1>4, <1>6, <1>9, <1>10, <1>11
    <2>2. /\ w \in [1..N -> Node]
          /\ \A y \in 1..N :
               /\ w[y].object = nds[y].object
               /\ w[y].next = IF y = n THEN f
                              ELSE IF y = nds[n].previous THEN nds[n].next ELSE nds[y].next
               /\ w[y].previous = IF y = n THEN 0
                                  ELSE IF y = nds[n].next THEN nds[n].previous
                                  ELSE nds[y].previous
      BY <2>1, MendedNodes DEF w
    <2>3. QED
      BY <1>6, <2>2
  <1>13. w \in Seq(Node) /\ Len(w) = N
    BY <1>1, <1>12, FunctionSeq
  <1>14. /\ e1 \in [1..(A - 1) -> 1..N] /\ e1 \in Seq(1..N) /\ Len(e1) = A - 1
         /\ \A k \in 1..(A - 1) : k < m => k \in 1..A /\ k # m /\ e1[k] = e[k]
         /\ \A k \in 1..(A - 1) : ~(k < m) => k + 1 \in 1..A /\ k + 1 # m /\ e1[k] = e[k + 1]
    <2>1. \A k \in 1..(A - 1) : (k < m => k \in 1..A /\ k # m)
      BY <1>1
    <2>2. \A k \in 1..(A - 1) : (~(k < m) => k + 1 \in 1..A /\ k + 1 # m)
      BY <1>1, <1>4
    <2>3. \A k \in 1..(A - 1) : e1[k] = IF k < m THEN e[k] ELSE e[k + 1]
      BY <1>3
    <2>4. \A k \in 1..(A - 1) : e1[k] \in 1..N
      BY <1>7, <2>1, <2>2, <2>3
    <2>5. e1 \in [1..(A - 1) -> 1..N] /\ A - 1 \in Nat
      <3>1. e1 = [k \in 1..(A - 1) |-> e1[k]]
        BY <1>3
      <3>2. A - 1 \in Nat
        BY <1>1, <1>4
      <3>3. QED
        BY <2>4, <3>1, <3>2
    <2>6. e1 \in Seq(1..N) /\ Len(e1) = A - 1
      BY <2>5, FunctionSeq
    <2>7. QED
      BY <2>1, <2>2, <2>3, <2>5, <2>6
  <1>15. /\ r1 \in [1..(B + 1) -> 1..N] /\ r1 \in Seq(1..N) /\ Len(r1) = B + 1
         /\ 1 \in 1..(B + 1) /\ r1[1] = n
         /\ \A k \in 1..(B + 1) : k # 1 => k - 1 \in 1..B /\ r1[k] = r[k - 1]
    <2>1. \A k \in 1..(B + 1) : k # 1 => k - 1 \in 1..B
      BY <1>1
    <2>2. \A k \in 1..(B + 1) : r1[k] = IF k = 1 THEN n ELSE r[k - 1]
      BY <1>3
    <2>3. \A k \in 1..(B + 1) : r1[k] \in 1..N
      BY <1>4, <1>8, <2>1, <2>2
    <2>4. r1 \in [1..(B + 1) -> 1..N] /\ B + 1 \in Nat /\ 1 \in 1..(B + 1)
      <3>1. r1 = [k \in 1..(B + 1) |-> r1[k]]
        BY <1>3
      <3>2. B + 1 \in Nat /\ 1 \in 1..(B + 1)
        BY <1>1
      <3>3. QED
        BY <2>3, <3>1, <3>2
    <2>5. r1 \in Seq(1..N) /\ Len(r1) = B + 1
      BY <2>4, FunctionSeq
    <2>6. QED
      BY <2>1, <2>2, <2>4, <2>5
  <1>16. h1 = IF A - 1 = 0 THEN 0 ELSE e1[1]
    <2>1. CASE m = 1 /\ m = A
      BY <1>9, <1>10, <2>1
    <2>2. CASE m = 1 /\ m # A
      <3>1. 1 \in 1..(A - 1) /\ ~(1 < m) /\ A - 1 # 0 /\ 1 + 1 = m + 1
        BY <1>1, <1>4, <2>2
      <3>2. QED
        BY <1>5, <1>9, <1>14, <2>2, <3>1
    <2>3. CASE m # 1
      <3>1. 1 \in 1..(A - 1) /\ 1 < m /\ A - 1 # 0 /\ A # 0
        BY <1>1, <1>4, <2>3
      <3>2. e1[1] = e[1]
        BY <1>14, <3>1
      <3>3. QED
        BY <1>1, <1>9, <2>3, <3>1, <3>2
    <2>4. QED
      BY <2>1, <2>2, <2>3
  <1>17. t1 = IF A - 1 = 0 THEN 0 ELSE e1[A - 1]
    <2>1. CASE m = 1 /\ m = A
      BY <1>9, <1>10, <2>1
    <2>2. CASE m # 1 /\ m = A
      <3>1. A - 1 \in 1..(A - 1) /\ A - 1 < m /\ A - 1 # 0 /\ A - 1 = m - 1
        BY <1>1, <1>4, <2>2
      <3>2. e1[A - 1] = e[A - 1]
        BY <1>14, <3>1
      <3>3. QED
        BY <1>5, <1>10, <2>2, <3>1, <3>2
    <2>3. CASE m # A
      <3>1. A - 1 \in 1..(A - 1) /\ ~(A - 1 < m) /\ A - 1 # 0 /\ (A - 1) + 1 = A /\ A # 0
        BY <1>1, <1>4, <2>3
      <3>2. e1[A - 1] = e[A]
        BY <1>14, <3>1
      <3>3. QED
        BY <1>2, <1>10, <2>3, <3>1, <3>2
    <2>4. QED
      BY <2>1, <2>2, <2>3
  <1>18. ASSUME NEW k \in 1..(A - 1)
         PROVE  /\ w[e1[k]].next = IF k = A - 1 THEN 0 ELSE e1[k + 1]
                /\ w[e1[k]].previous = IF k = 1 THEN 0 ELSE e1[k - 1]
    <2>1. CASE k < m
      <3>1. k \in 1..A /\ k # m /\ e1[k] = e[k] /\ k # A /\ k # m + 1
        <4>1. k \in 1..A /\ k # m /\ e1[k] = e[k]
          BY <1>14, <2>1
        <4>2. k # A /\ k # m + 1
          BY <1>1, <1>4, <2>1
        <4>3. QED
          BY <4>1, <4>2
      <3>2. /\ e[k] \in 1..N /\ e[k] # n /\ (e[k] = p <=> k + 1 = m) /\ e[k] # x
            /\ nds[e[k]].next = e[k + 1]
            /\ nds[e[k]].previous = IF k = 1 THEN 0 ELSE e[k - 1]
        BY <1>1, <1>2, <1>7, <1>9, <1>10, <3>1
      <3>3. w[e[k]].previous = IF k = 1 THEN 0 ELSE e[k - 1]
        BY <1>12, <3>2
      <3>4. k # 1 => e1[k - 1] = e[k - 1]
        <4>1. k # 1 => k - 1 \in 1..(A - 1) /\ k - 1 < m
          BY <1>1, <1>4, <2>1
        <4>2. QED
          BY <1>14, <4>1
      <3>5. w[e[k]].next = IF k = A - 1 THEN 0 ELSE e1[k + 1]
        <4>1. CASE k + 1 = m
          <5>1. w[e[k]].next = x /\ (k = A - 1 <=> m = A)
            <6>1. w[e[k]].next = x
              BY <1>12, <3>2, <4>1
            <6>2. k = A - 1 <=> m = A
              BY <1>1, <1>4, <4>1
            <6>3. QED
              BY <6>1, <6>2
          <5>2. m # A => e1[k + 1] = x
            <6>1. m # A => k + 1 \in 1..(A - 1) /\ ~(k + 1 < m)
              BY <1>1, <1>4, <4>1
            <6>2. m # A => e1[k + 1] = e[(k + 1) + 1]
              BY <1>14, <6>1
            <6>3. QED
              BY <1>5, <4>1, <6>2
          <5>3. QED
            BY <1>10, <5>1, <5>2
        <4>2. CASE k + 1 # m
          <5>1. k + 1 \in 1..(A - 1) /\ k + 1 < m /\ k # A - 1
            BY <1>1, <1>4, <2>1, <4>2
          <5>2. w[e[k]].next = e[k + 1]
            BY <1>12, <3>2, <4>2
          <5>3. QED
            BY <1>14, <5>1, <5>2
        <4>3. QED
          BY <4>1, <4>2
      <3>6. QED
        BY <3>1, <3>3, <3>4, <3>5
    <2>2. CASE ~(k < m)
      <3> DEFINE j == k + 1
      <3>1. /\ j \in 1..A /\ j # m /\ e1[k] = e[j] /\ j + 1 # m /\ j # 1 /\ j - 1 = k
            /\ (j = m + 1 <=> k = m) /\ (j = A <=> k = A - 1)
        <4>1. j \in 1..A /\ j # m /\ e1[k] = e[j]
          BY <1>14, <2>2
        <4>2. /\ j + 1 # m /\ j # 1 /\ j - 1 = k
              /\ (j = m + 1 <=> k = m) /\ (j = A <=> k = A - 1)
          BY <1>1, <1>4, <2>2
        <4>3. QED
          BY <4>1, <4>2
      <3>2. k # A - 1 => e1[j] = e[j + 1]
        <4>1. k # A - 1 => j \in 1..(A - 1) /\ ~(j < m)
          BY <1>1, <1>4, <2>2
        <4>2. QED
          BY <1>14, <4>1
      <3>3. CASE k = m
        <4>1. k = 1 <=> m = 1
          BY <3>3
        <4>2. k # 1 => e1[k - 1] = e[m - 1]
          <5>1. k # 1 => k - 1 \in 1..(A - 1) /\ k - 1 < m /\ k - 1 = m - 1
            BY <1>1, <1>4, <3>3
          <5>2. QED
            BY <1>14, <5>1
        <4>3. QED
          <5> HIDE DEF j
          <5>1. /\ e[j] \in 1..N /\ e[j] # n /\ e[j] # p /\ e[j] = x
                /\ nds[e[j]].next = IF j = A THEN 0 ELSE e[j + 1]
            BY <1>1, <1>7, <1>9, <1>10, <3>1, <3>3
          <5>2. w[e[j]].previous = p /\ w[e[j]].next = IF j = A THEN 0 ELSE e[j + 1]
            BY <1>12, <5>1
          <5>3. w[e[j]].next = IF k = A - 1 THEN 0 ELSE e1[j]
            BY <3>1, <3>2, <5>2
          <5>4. w[e[j]].previous = IF k = 1 THEN 0 ELSE e1[k - 1]
            BY <1>5, <4>1, <4>2, <5>2
          <5>5. QED
            BY <3>1, <5>3, <5>4 DEF j
      <3>4. CASE k # m
        <4>1. k # 1 /\ e1[k - 1] = e[k]
          <5>1. k # 1 /\ k - 1 \in 1..(A - 1) /\ ~(k - 1 < m) /\ (k - 1) + 1 = k
            BY <1>1, <1>4, <2>2, <3>4
          <5>2. QED
            BY <1>14, <5>1
        <4>2. QED
          <5> HIDE DEF j
          <5>1. /\ e[j] \in 1..N /\ e[j] # n /\ e[j] # p /\ e[j] # x
                /\ nds[e[j]].next = IF j = A THEN 0 ELSE e[j + 1]
                /\ nds[e[j]].previous = e[k]
            BY <1>1, <1>2, <1>7, <1>9, <1>10, <3>1, <3>4
          <5>2. w[e[j]].previous = e[k] /\ w[e[j]].next = IF j = A THEN 0 ELSE e[j + 1]
            BY <1>12, <5>1
          <5>3. w[e[j]].next = IF k = A - 1 THEN 0 ELSE e1[j]
            BY <3>1, <3>2, <5>2
          <5>4. QED
            BY <3>1, <4>1, <5>2, <5>3 DEF j
      <3>5. QED
        BY <3>3, <3>4
    <2>3. QED
      BY <2>1, <2>2
  <1>19. ASSUME NEW k \in 1..(A - 1), NEW l \in 1..(A - 1), e1[k] = e1[l] PROVE k = l
    <2>1. k \in Int /\ l \in Int
      OBVIOUS
    <2>2. CASE k < m /\ l < m
      BY <1>1, <1>14, <1>19, <2>2
    <2>3. CASE k < m /\ ~(l < m)
      <3>1. k = l + 1
        BY <1>1, <1>14, <1>19, <2>3
      <3>2. QED
        BY <1>4, <2>1, <2>3, <3>1
    <2>4. CASE ~(k < m) /\ l < m
      <3>1. k + 1 = l
        BY <1>1, <1>14, <1>19, <2>4
      <3>2. QED
        BY <1>4, <2>1, <2>4, <3>1
    <2>5. CASE ~(k < m) /\ ~(l < m)
      <3>1. k + 1 = l + 1
        BY <1>1, <1>14, <1>19, <2>5
      <3>2. QED
        BY <2>1, <3>1
    <2>6. QED
      BY <2>2, <2>3, <2>4, <2>5
  <1>20. IsChain(w, h1, e1)
    BY <1>13, <1>14, <1>16, <1>18, <1>19 DEF IsChain
  <1>21. ASSUME NEW k \in 1..(B + 1)
         PROVE  w[r1[k]].next = IF k = B + 1 THEN 0 ELSE r1[k + 1]
    <2>1. k # B + 1 => k + 1 \in 1..(B + 1) /\ k + 1 # 1 /\ (k + 1) - 1 = k
      BY <1>1
    <2>2. k # B + 1 => r1[k + 1] = r[k]
      BY <1>15, <2>1
    <2>3. CASE k = 1
      <3>1. w[r1[k]].next = f
        BY <1>4, <1>12, <1>15, <2>3
      <3>2. k = B + 1 <=> B = 0
        BY <1>1, <2>3
      <3>3. QED
        BY <1>1, <2>2, <2>3, <3>1, <3>2
    <2>4. CASE k # 1
      <3>1. k - 1 \in 1..B /\ r1[k] = r[k - 1] /\ (k - 1 = B <=> k = B + 1) /\ (k - 1) + 1 = k
        <4>1. k - 1 \in 1..B /\ r1[k] = r[k - 1]
          BY <1>15, <2>4
        <4>2. (k - 1 = B <=> k = B + 1) /\ (k - 1) + 1 = k
          BY <1>1
        <4>3. QED
          BY <4>1, <4>2
      <3>2. /\ r[k - 1] \in 1..N /\ r[k - 1] # n /\ r[k - 1] # p
            /\ nds[r[k - 1]].next = IF k - 1 = B THEN 0 ELSE r[(k - 1) + 1]
        BY <1>1, <1>8, <1>9, <3>1
      <3>3. w[r[k - 1]].next = IF k - 1 = B THEN 0 ELSE r[(k - 1) + 1]
        BY <1>12, <3>2
      <3>4. QED
        BY <2>2, <3>1, <3>3
    <2>5. QED
      BY <2>3, <2>4
  <1>22. ASSUME NEW k \in 1..(B + 1), NEW l \in 1..(B + 1), r1[k] = r1[l] PROVE k = l
    <2>1. k \in Int /\ l \in Int
      OBVIOUS
    <2>2. CASE k = 1 \/ l = 1
      BY <1>8, <1>15, <1>22, <2>2
    <2>3. CASE k # 1 /\ l # 1
      <3>1. k - 1 = l - 1
        BY <1>1, <1>15, <1>22, <2>3
      <3>2. QED
        BY <2>1, <3>1
    <2>4. QED
      BY <2>2, <2>3
  <1>23. IsChain(w, n, r1)
    <2>1. B + 1 # 0
      BY <1>1
    <2>2. QED
      BY <1>13, <1>15, <1>21, <1>22, <2>1 DEF IsChain
  <1>24. ASSUME NEW k \in 1..(A - 1), NEW l \in 1..(B + 1) PROVE e1[k] # r1[l]
    <2>1. \E j \in 1..A : e1[k] = e[j] /\ j # m
      BY <1>14
    <2>2. PICK j \in 1..A : e1[k] = e[j] /\ j # m
      BY <2>1
    <2>3. CASE l = 1
      BY <1>7, <1>15, <2>2, <2>3
    <2>4. CASE l # 1
      BY <1>2, <1>15, <2>2, <2>4
    <2>5. QED
      BY <2>3, <2>4
  <1>25. ASSUME NEW y \in 1..N
         PROVE  (\E k \in 1..(A - 1) : e1[k] = y) \/ (\E l \in 1..(B + 1) : r1[l] = y)
    <2>1. CASE y = n
      BY <1>15, <2>1
    <2>2. ASSUME NEW k \in 1..A, e[k] = y, k < m PROVE \E j \in 1..(A - 1) : e1[j] = y
      <3>1. k \in 1..(A - 1)
        BY <1>1, <1>4, <2>2
      <3>2. e1[k] = y
        BY <1>14, <2>2, <3>1
      <3>3. QED
        BY <3>1, <3>2
    <2>3. ASSUME NEW k \in 1..A, e[k] = y, k > m PROVE \E j \in 1..(A - 1) : e1[j] = y
      <3>1. k - 1 \in 1..(A - 1) /\ ~(k - 1 < m) /\ (k - 1) + 1 = k
        BY <1>1, <1>4, <2>3
      <3>2. e1[k - 1] = y
        BY <1>14, <2>3, <3>1
      <3>3. QED
        BY <3>1, <3>2
    <2>4. ASSUME NEW l \in 1..B, r[l] = y PROVE \E j \in 1..(B + 1) : r1[j] = y
      <3>1. l + 1 \in 1..(B + 1) /\ l + 1 # 1 /\ (l + 1) - 1 = l
        BY <1>1
      <3>2. r1[l + 1] = y
        BY <1>15, <2>4, <3>1
      <3>3. QED
        BY <3>1, <3>2
    <2>5. \A k \in 1..A : k < m \/ k > m \/ k = m
      BY <1>4
    <2>6. QED
      BY <1>2, <1>4, <2>1, <2>2, <2>3, <2>4, <2>5
  <1>26. (A - 1) + (B + 1) = N
    BY <1>1, <1>2
  <1>27. Shape(w, h1, t1, n, e1, r1)
    <2>1. /\ w \in Seq(Node) /\ Len(w) = N /\ Len(e1) = A - 1 /\ Len(r1) = B + 1
      BY <1>13, <1>14, <1>15
    <2>2. \A k \in 1..(A - 1) : w[e1[k]].previous = IF k = 1 THEN 0 ELSE e1[k - 1]
      BY <1>18
    <2> HIDE DEF h1, t1
    <2>3. QED
      BY <1>17, <1>20, <1>23, <1>24, <1>25, <1>26, <2>1, <2>2 DEF Shape
  <1>28. \A k \in 1..A : w[e[k]].object = nds[e[k]].object
    BY <1>7, <1>12
  <1>29. QED
    BY <1>27, <1>28 DEF w, e1, r1, A, n, p, x

-----------------------------------------------------------------------------
(* The objects of a list *)

Contents(nds, s) == [k \in 1..Len(s) |-> nds[s[k]].object]

Content == Object \cup {NULL}

LEMMA ContentsSeq ==
  ASSUME NEW nds, NEW h, NEW t, NEW f, NEW e, NEW r, Shape(nds, h, t, f, e, r)
  PROVE  /\ Contents(nds, e) \in [1..Len(e) -> Content]
         /\ Contents(nds, e) \in Seq(Content) /\ Len(Contents(nds, e)) = Len(e)
         /\ \A k \in 1..Len(e) : Contents(nds, e)[k] = nds[e[k]].object
  <1> DEFINE A == Len(e)
             C == Contents(nds, e)
  <1>1. /\ Len(nds) \in Nat /\ nds \in [1..Len(nds) -> Node]
        /\ A \in Nat /\ e \in [1..A -> 1..Len(nds)]
    BY ShapeFacts
  <1>2. C = [k \in 1..A |-> nds[e[k]].object]
    BY DEF Contents
  <1> HIDE DEF A, C
  <1>3. \A k \in 1..A : nds[e[k]].object \in Content
    <2>1. \A k \in 1..A : nds[e[k]] \in Node
      BY <1>1
    <2>2. QED
      BY <2>1 DEF Node, Content
  <1>4. C \in [1..A -> Content] /\ \A k \in 1..A : C[k] = nds[e[k]].object
    BY <1>2, <1>3
  <1>5. QED
    BY <1>1, <1>4, FunctionSeq DEF A, C

\* What is read off the chains of a list of that shape, now and after a step
LEMMA Seen ==
  ASSUME NEW e, NEW r, Shape(nodes, head, tail, reserved, e, r)
  PROVE  /\ Chain = e /\ Free = r /\ Objects = Contents(nodes, e) /\ DOMAIN Chain = 1..Len(e)
         /\ DOMAIN Objects = 1..Len(e)
  <1>1. Len(nodes) \in Nat /\ e \in [1..Len(e) -> 1..Len(nodes)]
    BY ShapeFacts
  <1>2. IsChain(nodes, head, e) /\ IsChain(nodes, reserved, r)
    BY DEF Shape
  <1>3. Visits(nodes, head) = e /\ Visits(nodes, reserved) = r
    BY <1>1, <1>2, VisitsChain
  <1>4. Chain = e /\ Free = r
    BY <1>3, WalkVisits
  <1>5. DOMAIN Chain = 1..Len(e)
    BY <1>1, <1>4
  <1>6. Objects = Contents(nodes, e)
    BY <1>4, <1>5 DEF Objects, Contents
  <1>7. QED
    BY <1>4, <1>5, <1>6, ContentsSeq

LEMMA SeenNext ==
  ASSUME NEW e, NEW r, Shape(nodes', head', tail', reserved', e, r)
  PROVE  /\ Chain' = e /\ Free' = r /\ Objects' = Contents(nodes', e)
  <1>1. Len(nodes') \in Nat /\ e \in [1..Len(e) -> 1..Len(nodes')]
    BY ShapeFacts
  <1>2. IsChain(nodes', head', e) /\ IsChain(nodes', reserved', r)
    BY DEF Shape
  <1>3. Visits(nodes', head') = e /\ Visits(nodes', reserved') = r
    BY <1>1, <1>2, VisitsChain
  <1>4. Chain' = e /\ Free' = r
    BY <1>3, WalkVisits
  <1>5. DOMAIN (Chain') = 1..Len(e)
    BY <1>1, <1>4
  <1>6. Objects' = [k \in DOMAIN (Chain') |-> nodes'[(Chain')[k]].object]
    BY DEF Objects
  <1>7. Objects' = Contents(nodes', e)
    BY <1>4, <1>5, <1>6 DEF Contents
  <1>8. QED
    BY <1>4, <1>7

\* The objects after an object was added at the end
LEMMA LongerContents ==
  ASSUME NEW S, NEW n \in Nat, NEW C \in Seq(S), NEW D \in Seq(S), NEW o \in S,
         Len(C) = n, Len(D) = n + 1, D[n + 1] = o, \A k \in 1..n : D[k] = C[k]
  PROVE  D = Append(C, o)
  <1>1. Append(C, o) \in Seq(S) /\ Len(Append(C, o)) = n + 1
    BY AppendProperties
  <1>2. ASSUME NEW k \in 1..(n + 1) PROVE D[k] = Append(C, o)[k]
    <2>1. CASE k = n + 1
      BY <2>1, AppendProperties
    <2>2. CASE k # n + 1
      <3>1. k \in 1..n
        BY <2>2
      <3>2. Append(C, o)[k] = C[k]
        BY <3>1, AppendProperties
      <3>3. QED
        BY <3>1, <3>2
    <2>3. QED
      BY <2>1, <2>2
  <1>3. QED
    BY <1>1, <1>2, SeqEqual

\* The objects after the one at position m was removed
LEMMA ShorterContents ==
  ASSUME NEW S, NEW n \in Nat, NEW C \in Seq(S), Len(C) = n, NEW m \in 1..n,
         NEW D \in Seq(S), Len(D) = n - 1,
         \A k \in 1..(n - 1) : D[k] = IF k < m THEN C[k] ELSE C[k + 1]
  PROVE  D = SubSeq(C, 1, m - 1) \o SubSeq(C, m + 1, n)
  <1> DEFINE u == SubSeq(C, 1, m - 1)
             v == SubSeq(C, m + 1, n)
  <1>1. \A i \in 1..n : C[i] \in S
    BY LenProperties
  <1>2. /\ u \in Seq(S) /\ Len(u) = m - 1
        /\ \A i \in 1..(m - 1) : u[i] = C[i]
    <2>1. 1 \in Int /\ m - 1 \in Int /\ \A i \in 1..(m - 1) : C[i] \in S
      BY <1>1
    <2>2. /\ u \in Seq(S) /\ Len(u) = IF 1 <= m - 1 THEN (m - 1) - 1 + 1 ELSE 0
          /\ \A i \in 1..((m - 1) - 1 + 1) : u[i] = C[1 + i - 1]
      BY <2>1, SubSeqProperties
    <2> HIDE DEF u
    <2>3. (m - 1) - 1 + 1 = m - 1 /\ \A i \in 1..(m - 1) : 1 + i - 1 = i
      OBVIOUS
    <2>4. QED
      BY <2>2, <2>3
  <1>3. /\ v \in Seq(S) /\ Len(v) = n - m
        /\ \A i \in 1..(n - m) : v[i] = C[m + i]
    <2>1. m + 1 \in Int /\ n \in Int /\ \A i \in (m + 1)..n : C[i] \in S
      BY <1>1
    <2>2. /\ v \in Seq(S) /\ Len(v) = IF m + 1 <= n THEN n - (m + 1) + 1 ELSE 0
          /\ \A i \in 1..(n - (m + 1) + 1) : v[i] = C[m + 1 + i - 1]
      BY <2>1, SubSeqProperties
    <2> HIDE DEF v
    <2>3. n - (m + 1) + 1 = n - m /\ \A i \in 1..(n - m) : m + 1 + i - 1 = m + i
      OBVIOUS
    <2>4. QED
      BY <2>2, <2>3
  <1> HIDE DEF u, v
  <1>4. /\ u \o v \in Seq(S) /\ Len(u \o v) = n - 1
        /\ \A i \in 1..(n - 1) : (u \o v)[i] = IF i <= m - 1 THEN u[i] ELSE v[i - (m - 1)]
    <2>1. /\ u \o v \in Seq(S) /\ Len(u \o v) = Len(u) + Len(v)
          /\ \A i \in 1..(Len(u) + Len(v)) :
               (u \o v)[i] = IF i <= Len(u) THEN u[i] ELSE v[i - Len(u)]
      BY <1>2, <1>3, ConcatProperties
    <2>2. Len(u) = m - 1 /\ Len(u) + Len(v) = n - 1
      BY <1>2, <1>3
    <2>3. QED
      BY <2>1, <2>2
  <1>5. ASSUME NEW k \in 1..(n - 1) PROVE D[k] = (u \o v)[k]
    <2>1. CASE k < m
      <3>1. k <= m - 1 /\ k \in 1..(m - 1)
        BY <2>1
      <3>2. QED
        BY <1>2, <1>4, <2>1, <3>1
    <2>2. CASE ~(k < m)
      <3>1. ~(k <= m - 1) /\ k - (m - 1) \in 1..(n - m) /\ m + (k - (m - 1)) = k + 1
        BY <2>2
      <3>2. v[k - (m - 1)] = C[k + 1]
        BY <1>3, <3>1
      <3>3. QED
        BY <1>4, <2>2, <3>1, <3>2
    <2>3. QED
      BY <2>1, <2>2
  <1>6. D = u \o v
    BY <1>4, <1>5, SeqEqual
  <1>7. QED
    BY <1>6 DEF u, v

-----------------------------------------------------------------------------
(* The steps of the list *)

\* Chain and Free list the nodes as Shape says.
ListInv == Shape(nodes, head, tail, reserved, Chain, Free)

LEMMA InitInv ==
  ASSUME Init
  PROVE  ListInv /\ Objects = << >>
  <1>1. PICK c \in InitialCapacities :
          nodes = Woven(0, c) /\ reserved = IF c > 0 THEN 1 ELSE 0
    BY DEF Init
  <1>2. c \in Nat /\ head = 0 /\ tail = 0
    BY ListAssumption DEF Init
  <1>3. << >> \in Seq(Node) /\ Len(<< >>) = 0 /\ \A k \in 1..0 : FALSE
    BY EmptySeq
  <1>4. Shape(<< >>, 0, 0, 0, << >>, << >>)
    <2>1. << >> \in Seq(1..0)
      BY EmptySeq
    <2>2. IsChain(<< >>, 0, << >>)
      BY <1>3, <2>1 DEF IsChain
    <2>3. QED
      BY <1>3, <2>2 DEF Shape
  <1>5. PICK r : Shape(nodes, head, tail, reserved, << >>, r)
    <2>1. CASE c = 0
      <3>1. Woven(0, c) \in Seq(Node) /\ Len(Woven(0, c)) = 0
        BY <1>2, <2>1, WovenNodes
      <3>2. nodes = << >>
        BY <1>1, <3>1, EmptySeq
      <3>3. reserved = 0
        BY <1>1, <2>1
      <3>4. QED
        BY <1>2, <1>4, <3>2, <3>3
    <2>2. CASE c # 0
      <3>1. c \in Nat \ {0} /\ reserved = 0 + 1
        BY <1>1, <1>2, <2>2
      <3>2. Shape(<< >> \o Woven(Len(<< >>), c), 0, 0, Len(<< >>) + 1, << >>,
                  Reserve(Len(<< >>), c))
        BY <1>4, <3>1, GrowShape
      <3>3. Woven(0, c) \in Seq(Node)
        BY <1>2, WovenNodes
      <3>4. << >> \o Woven(0, c) = nodes
        BY <1>1, <3>3, ConcatEmptySeq
      <3>5. QED
        BY <1>2, <1>3, <3>1, <3>2, <3>4
    <2>3. QED
      BY <2>1, <2>2
  <1>6. Chain = << >> /\ Free = r /\ Objects = Contents(nodes, << >>)
    BY <1>5, Seen
  <1>7. Contents(nodes, << >>) = << >>
    <2>1. Contents(nodes, << >>) \in Seq(Content) /\ Len(Contents(nodes, << >>)) = 0
      BY <1>3, <1>5, ContentsSeq
    <2>2. QED
      BY <2>1, EmptySeq
  <1>8. QED
    BY <1>5, <1>6, <1>7 DEF ListInv

\* list_add: the object is the last one.
LEMMA AddStep ==
  ASSUME ListInv, NEW o \in Object, list_add(o)
  PROVE  ListInv' /\ Objects' = Append(Objects, o)
  <1> DEFINE e == Chain
             A == Len(e)
             full == reserved = 0
             mem == IF full THEN nodes \o Woven(Len(nodes), DefaultCapacity) ELSE nodes
             n == IF full THEN Len(nodes) + 1 ELSE reserved
  <1>1. /\ nodes' = Added(mem, tail, n, o) /\ reserved' = mem[n].next
        /\ head' = (IF tail # 0 THEN head ELSE n) /\ tail' = n
    BY DEF list_add, Added, Capacity
  <1>2. Shape(nodes, head, tail, reserved, e, Free)
    BY DEF ListInv
  <1> HIDE DEF e
  <1>3. /\ A \in Nat /\ Len(nodes) \in Nat
        /\ (\A k \in 1..A : e[k] \in 1..Len(nodes)) /\ reserved \in Nat
    <2>1. /\ A \in Nat /\ Len(nodes) \in Nat /\ e \in [1..A -> 1..Len(nodes)]
          /\ Len(Free) \in Nat /\ Free \in [1..Len(Free) -> 1..Len(nodes)]
          /\ reserved = IF Len(Free) = 0 THEN 0 ELSE Free[1]
      BY <1>2, ShapeFacts
    <2>2. Len(Free) # 0 => 1 \in 1..Len(Free)
      BY <2>1
    <2>3. QED
      BY <2>1, <2>2
  <1>4. n # 0 /\ \E r : Shape(mem, head, tail, n, e, r)
    <2>1. CASE full
      <3>1. DefaultCapacity \in Nat \ {0} /\ n = Len(nodes) + 1 /\ n # 0
        BY <1>3, <2>1, ListAssumption
      <3>2. Shape(nodes, head, tail, 0, e, Free)
        BY <1>2, <2>1
      <3>3. QED
        BY <2>1, <3>1, <3>2, GrowShape
    <2>2. CASE ~full
      BY <1>2, <2>2
    <2>3. QED
      BY <2>1, <2>2
  <1>5. \A k \in 1..A : mem[e[k]] = nodes[e[k]]
    <2>1. CASE full
      <3>1. DefaultCapacity \in Nat \ {0}
        BY ListAssumption
      <3>2. Shape(nodes, head, tail, 0, e, Free)
        BY <1>2, <2>1
      <3>3. \A x \in 1..Len(nodes) : (nodes \o Woven(Len(nodes), DefaultCapacity))[x] = nodes[x]
        BY <3>1, <3>2, GrowShape
      <3>4. QED
        BY <1>3, <2>1, <3>3
    <2>2. CASE ~full
      BY <2>2
    <2>3. QED
      BY <2>1, <2>2
  <1> HIDE DEF mem, n
  <1>6. PICK r : Shape(mem, head, tail, n, e, r)
    BY <1>4
  <1>7. /\ Shape(nodes', head', tail', reserved', Longer(e, n), Rest(r))
        /\ \A k \in 1..A : nodes'[e[k]].object = mem[e[k]].object
        /\ nodes'[n].object = o
    <2>1. n # 0
      BY <1>4
    <2>2. /\ Shape(Added(mem, tail, n, o), IF tail # 0 THEN head ELSE n, n, mem[n].next,
                   Longer(e, n), Rest(r))
          /\ \A k \in 1..A : Added(mem, tail, n, o)[e[k]].object = mem[e[k]].object
          /\ Added(mem, tail, n, o)[n].object = o
      BY <1>6, <2>1, AddShape
    <2>3. QED
      BY <1>1, <2>2
  <1>8. Chain' = Longer(e, n) /\ Free' = Rest(r) /\ Objects' = Contents(nodes', Longer(e, n))
    BY <1>7, SeenNext
  <1>9. ListInv'
    BY <1>7, <1>8 DEF ListInv
  <1>10. /\ Objects = Contents(nodes, e) /\ Objects \in Seq(Content) /\ Len(Objects) = A
         /\ \A k \in 1..A : Objects[k] = nodes[e[k]].object
    BY <1>2, Seen, ContentsSeq
  <1>11. /\ Longer(e, n) = [k \in 1..(A + 1) |-> IF k = A + 1 THEN n ELSE e[k]]
         /\ Len(Longer(e, n)) = A + 1
    <2>1. Longer(e, n) = [k \in 1..(A + 1) |-> IF k = A + 1 THEN n ELSE e[k]]
      BY DEF Longer
    <2>2. Longer(e, n) \in [1..Len(Longer(e, n)) -> 1..Len(nodes')] /\ Len(Longer(e, n)) \in Nat
      BY <1>7, ShapeFacts
    <2>3. 1..Len(Longer(e, n)) = 1..(A + 1)
      BY <2>1, <2>2
    <2>4. \A a, b \in Nat : 1..a = 1..b => a = b
      <3>1. ASSUME NEW a \in Nat, NEW b \in Nat, 1..a = 1..b PROVE a = b
        <4>1. a # 0 => a \in 1..b
          BY <3>1
        <4>2. b # 0 => b \in 1..a
          BY <3>1
        <4>3. QED
          BY <4>1, <4>2
      <3>2. QED
        BY <3>1
    <2>5. QED
      BY <1>3, <2>1, <2>2, <2>3, <2>4
  <1>12. /\ Objects' \in Seq(Content) /\ Len(Objects') = A + 1
         /\ \A k \in 1..(A + 1) : Objects'[k] = nodes'[Longer(e, n)[k]].object
    <2> DEFINE s == Longer(e, n)
    <2>1. Shape(nodes', head', tail', reserved', s, Rest(r)) /\ Objects' = Contents(nodes', s)
      BY <1>7, <1>8
    <2>2. Len(s) = A + 1
      BY <1>11
    <2> HIDE DEF s
    <2>3. /\ Contents(nodes', s) \in Seq(Content) /\ Len(Contents(nodes', s)) = Len(s)
          /\ \A k \in 1..Len(s) : Contents(nodes', s)[k] = nodes'[s[k]].object
      BY <2>1, ContentsSeq
    <2>4. QED
      BY <2>1, <2>2, <2>3 DEF s
  <1>13. Objects'[A + 1] = o /\ \A k \in 1..A : Objects'[k] = Objects[k]
    <2>1. /\ A + 1 \in 1..(A + 1) /\ Longer(e, n)[A + 1] = n
          /\ \A k \in 1..A : k \in 1..(A + 1) /\ Longer(e, n)[k] = e[k]
      BY <1>3, <1>11
    <2>2. QED
      BY <1>5, <1>7, <1>10, <1>12, <2>1
  <1>14. Objects' = Append(Objects, o)
    <2>1. o \in Content
      BY DEF Content
    <2>2. QED
      BY <1>3, <1>10, <1>12, <1>13, <2>1, LongerContents
  <1>15. QED
    BY <1>9, <1>14

LEMMA Least ==
  ASSUME NEW B \in SUBSET Nat, B # {}
  PROVE  Min(B) \in B
  <1>1. \E m \in B : \A k \in B : m <= k
    BY LeastNumber
  <1>2. QED
    BY <1>1 DEF Min

\* The position of the first occurrence of an object
First(o) == Min({k \in 1..Len(Objects) : Objects[k] = o})

\* list_remove: the first occurrence of the object is gone.
LEMMA RemoveStep ==
  ASSUME ListInv, NEW o \in Object, list_remove(o)
  PROVE  /\ ListInv'
         /\ Objects' = SubSeq(Objects, 1, First(o) - 1)
                         \o SubSeq(Objects, First(o) + 1, Len(Objects))
  <1> DEFINE e == Chain
             r == Free
             A == Len(e)
             m == First(o)
             n == e[m]
  <1>1. Shape(nodes, head, tail, reserved, e, r)
    BY DEF ListInv
  <1>2. /\ A \in Nat /\ Objects \in Seq(Content) /\ Len(Objects) = A
        /\ DOMAIN e = 1..A
        /\ \A k \in 1..A : Objects[k] = nodes[e[k]].object
    <2> HIDE DEF e, r
    <2>1. /\ Contents(nodes, e) \in Seq(Content) /\ Len(Contents(nodes, e)) = A
          /\ \A k \in 1..A : Contents(nodes, e)[k] = nodes[e[k]].object
      BY <1>1, ContentsSeq
    <2>2. A \in Nat
      BY <1>1, ShapeFacts
    <2>3. Objects = Contents(nodes, e) /\ DOMAIN e = 1..A
      <3>1. Objects = Contents(nodes, e) /\ DOMAIN Chain = 1..Len(e)
        BY <1>1, Seen
      <3>2. QED
        BY <3>1 DEF e
    <2>4. QED
      BY <2>1, <2>2, <2>3
  <1>3. m \in 1..A /\ n = list_find_node_index(o)
    <2> DEFINE M == {k \in 1..A : Objects[k] = o}
    <2>1. M \in SUBSET Nat /\ M # {}
      BY <1>2 DEF list_remove
    <2>2. Min(M) \in M
      BY <2>1, Least
    <2>3. m = Min(M)
      BY <1>2 DEF First
    <2>4. list_find_node_index(o) = e[Min(M)]
      BY <1>2 DEF list_find_node_index
    <2>5. QED
      BY <2>2, <2>3, <2>4
  <1>4. /\ nodes' = Mended(nodes, n, reserved)
        /\ head' = (IF nodes[n].previous = 0 THEN nodes[n].next ELSE head)
        /\ tail' = (IF nodes[n].next = 0 THEN nodes[n].previous ELSE tail)
        /\ reserved' = n
    BY <1>3 DEF list_remove, Unlinked, Mended
  <1> HIDE DEF e, r, m, n
  <1>5. /\ Shape(nodes', head', tail', reserved', Without(e, m), Onto(n, r))
        /\ \A k \in 1..A : nodes'[e[k]].object = nodes[e[k]].object
    <2>1. Shape(nodes, head, tail, reserved, e, r) /\ m \in 1..Len(e) /\ n = e[m]
      BY <1>1, <1>3 DEF n
    <2>2. /\ Shape(Mended(nodes, e[m], reserved),
                   IF nodes[e[m]].previous = 0 THEN nodes[e[m]].next ELSE head,
                   IF nodes[e[m]].next = 0 THEN nodes[e[m]].previous ELSE tail, e[m],
                   Without(e, m), Onto(e[m], r))
          /\ \A k \in 1..Len(e) :
               Mended(nodes, e[m], reserved)[e[k]].object = nodes[e[k]].object
      BY <2>1, RemoveShape
    <2>3. QED
      BY <1>4, <2>1, <2>2
  <1>6. /\ Chain' = Without(e, m) /\ Free' = Onto(n, r)
        /\ Objects' = Contents(nodes', Without(e, m))
    BY <1>5, SeenNext
  <1>7. ListInv'
    BY <1>5, <1>6 DEF ListInv
  <1>8. /\ Without(e, m) = [k \in 1..(A - 1) |-> IF k < m THEN e[k] ELSE e[k + 1]]
        /\ Len(Without(e, m)) = A - 1
    <2>1. Without(e, m) = [k \in 1..(A - 1) |-> IF k < m THEN e[k] ELSE e[k + 1]]
      BY DEF Without
    <2>2. A - 1 \in Nat
      BY <1>2, <1>3
    <2>3. Len(Without(e, m)) = A - 1
      <3> DEFINE a == A - 1
                 G(k) == IF k < m THEN e[k] ELSE e[k + 1]
      <3>1. a \in Nat /\ Without(e, m) = [k \in 1..a |-> G(k)]
        BY <2>1, <2>2
      <3> HIDE DEF a, G
      <3>2. Len(Without(e, m)) = a
        BY <3>1
      <3>3. QED
        BY <3>2 DEF a
    <2>4. QED
      BY <2>1, <2>3
  <1>9. /\ Objects' \in Seq(Content) /\ Len(Objects') = A - 1
        /\ \A k \in 1..(A - 1) : Objects'[k] = nodes'[Without(e, m)[k]].object
    <2> DEFINE s == Without(e, m)
    <2>1. /\ Shape(nodes', head', tail', reserved', s, Onto(n, r))
          /\ Objects' = Contents(nodes', s)
      BY <1>5, <1>6
    <2>2. Len(s) = A - 1
      BY <1>8
    <2> HIDE DEF s
    <2>3. /\ Contents(nodes', s) \in Seq(Content) /\ Len(Contents(nodes', s)) = Len(s)
          /\ \A k \in 1..Len(s) : Contents(nodes', s)[k] = nodes'[s[k]].object
      BY <2>1, ContentsSeq
    <2>4. QED
      BY <2>1, <2>2, <2>3 DEF s
  <1>10. ASSUME NEW k \in 1..(A - 1)
         PROVE  Objects'[k] = IF k < m THEN Objects[k] ELSE Objects[k + 1]
    <2>1. Without(e, m)[k] = IF k < m THEN e[k] ELSE e[k + 1]
      BY <1>8
    <2>2. k \in 1..A /\ k + 1 \in 1..A
      BY <1>2
    <2>3. QED
      BY <1>2, <1>5, <1>9, <2>1, <2>2
  <1>11. Objects' = SubSeq(Objects, 1, m - 1) \o SubSeq(Objects, m + 1, A)
    <2> HIDE DEF A
    <2>1. QED
      BY <1>2, <1>3, <1>9, <1>10, ShorterContents
  <1>12. QED
    BY <1>2, <1>7, <1>11 DEF m

\* The other calls leave the list alone.
LEMMA ReadStep ==
  ASSUME ListInv, UNCHANGED <<nodes, head, tail, reserved>>
  PROVE  ListInv' /\ Objects' = Objects
  <1>1. Chain' = Chain /\ Free' = Free
    BY WalkVisits
  <1>2. Objects' = Objects
    BY <1>1 DEF Objects
  <1>3. QED
    BY <1>1, <1>2 DEF ListInv

LEMMA NextInv == ListInv /\ [Next]_vars => ListInv'
  <1> SUFFICES ASSUME ListInv, [Next]_vars PROVE ListInv'
    OBVIOUS
  <1>1. ASSUME NEW o \in Object, list_add(o) PROVE ListInv'
    BY <1>1, AddStep
  <1>2. ASSUME NEW o \in Object, list_remove(o) PROVE ListInv'
    BY <1>2, RemoveStep
  <1>3. ASSUME NEW accepted \in SUBSET Object, list_find(accepted) PROVE ListInv'
    BY <1>3, ReadStep DEF list_find
  <1>4. CASE list_iterate
    BY <1>4, ReadStep DEF list_iterate
  <1>5. CASE list_is_empty
    BY <1>5, ReadStep DEF list_is_empty
  <1>6. CASE UNCHANGED vars
    BY <1>6, ReadStep DEF vars
  <1>7. QED
    BY <1>1, <1>2, <1>3, <1>4, <1>5, <1>6 DEF Next

THEOREM AlwaysListInv == Spec => []ListInv
  <1>1. Init => ListInv
    BY InitInv
  <1>2. QED
    BY <1>1, NextInv, PTL DEF Spec

LEMMA ChainsFromInv == ListInv => ChainsExact
  <1> SUFFICES ASSUME ListInv PROVE ChainsExact
    OBVIOUS
  <1> DEFINE e == Chain
             r == Free
             N == Len(nodes)
             A == Len(e)
             B == Len(r)
  <1>1. Shape(nodes, head, tail, reserved, e, r)
    BY DEF ListInv
  <1> HIDE DEF e, r
  <1>2. /\ N \in Nat /\ A \in Nat /\ e \in [1..A -> 1..N] /\ B \in Nat /\ r \in [1..B -> 1..N]
        /\ head = IF A = 0 THEN 0 ELSE e[1]
    BY <1>1, ShapeFacts
  <1>3. /\ tail = IF A = 0 THEN 0 ELSE e[A]
        /\ \A k \in 1..A : nodes[e[k]].previous = IF k = 1 THEN 0 ELSE e[k - 1]
        /\ \A n \in 1..N : (\E k \in 1..A : e[k] = n) \/ (\E l \in 1..B : r[l] = n)
        /\ A + B = N
    BY <1>1 DEF Shape
  <1>4. e = << >> <=> A = 0
    <2>1. e \in Seq(1..N)
      BY <1>1 DEF Shape, IsChain
    <2>2. QED
      BY <2>1, EmptySeq
  <1> HIDE DEF A, B, N
  <1>5. ToSet(e) \cup ToSet(r) = 1..N
    <2>1. ToSet(e) = {e[k] : k \in 1..A} /\ ToSet(r) = {r[l] : l \in 1..B}
      BY <1>2 DEF ToSet
    <2>2. QED
      BY <1>2, <1>3, <2>1
  <1>6. \A k \in DOMAIN e : nodes[e[k]].previous = IF k = 1 THEN 0 ELSE e[k - 1]
    BY <1>2, <1>3
  <1>7. IF e = << >> THEN head = 0 /\ tail = 0 ELSE tail = Last(e)
    BY <1>2, <1>3, <1>4 DEF Last, A
  <1>8. QED
    BY <1>3, <1>5, <1>6, <1>7 DEF ChainsExact, e, r, A, B, N, Capacity

\* Every node is in the list or in reserve and in one place only, linked in
\* both directions, whatever was added and removed and however often the
\* block grew (list_add, list_remove, list_reserve).
THEOREM ChainsAlwaysExact == Spec => []ChainsExact
  <1>1. QED
    BY AlwaysListInv, ChainsFromInv, PTL

-----------------------------------------------------------------------------
(* The list as a sequence of objects *)

LEMMA EmptyList ==
  ASSUME ListInv
  PROVE  (head = 0 /\ tail = 0) <=> Objects = << >>
  <1> DEFINE e == Chain
             A == Len(e)
             N == Len(nodes)
  <1>1. Shape(nodes, head, tail, reserved, e, Free)
    BY DEF ListInv
  <1>2. Objects = Contents(nodes, e)
    BY <1>1, Seen
  <1> HIDE DEF e
  <1>3. /\ A \in Nat /\ N \in Nat /\ e \in [1..A -> 1..N]
        /\ head = IF A = 0 THEN 0 ELSE e[1]
    BY <1>1, ShapeFacts
  <1>4. tail = IF A = 0 THEN 0 ELSE e[A]
    BY <1>1 DEF Shape
  <1>5. Objects \in Seq(Content) /\ Len(Objects) = A
    BY <1>1, <1>2, ContentsSeq
  <1>6. Objects = << >> <=> A = 0
    BY <1>5, EmptySeq
  <1> HIDE DEF A, N
  <1>7. A # 0 => head # 0
    <2>1. A # 0 => 1 \in 1..A
      BY <1>3
    <2>2. A # 0 => e[1] \in 1..N
      BY <1>3, <2>1
    <2>3. QED
      BY <1>3, <2>2
  <1>8. A = 0 => head = 0 /\ tail = 0
    BY <1>3, <1>4
  <1>9. QED
    BY <1>6, <1>7, <1>8

LEMMA ListDomain ==
  ASSUME ListInv
  PROVE  DOMAIN Chain = DOMAIN Objects /\ DOMAIN Objects = 1..Len(Objects)
  <1>1. DOMAIN Chain = DOMAIN Objects
    BY DEF Objects
  <1>2. Shape(nodes, head, tail, reserved, Chain, Free)
    BY DEF ListInv
  <1>3. DOMAIN Objects = 1..Len(Chain) /\ Objects = Contents(nodes, Chain)
    BY <1>2, Seen
  <1>4. Len(Objects) = Len(Chain)
    BY <1>2, <1>3, ContentsSeq
  <1>5. QED
    BY <1>1, <1>3, <1>4

LEMMA NextPromise == ListInv /\ [Next]_vars => [Promise!Next]_(Promise!spec)
  <1> SUFFICES ASSUME ListInv, [Next]_vars PROVE Promise!Next \/ UNCHANGED Promise!spec
    OBVIOUS
  <1>1. ASSUME NEW o \in Object, list_add(o) PROVE Promise!Add(o)
    BY <1>1, AddStep DEF list_add, Promise!Add, Nothing, Promise!Nothing
  <1>2. ASSUME NEW o \in Object, list_remove(o) PROVE Promise!Withdraw(o)
    <2>1. \E i \in DOMAIN Objects : Objects[i] = o
      BY <1>2, ListDomain DEF list_remove
    <2>2. answer' = Promise!Nothing
      BY <1>2 DEF list_remove, Nothing, Promise!Nothing
    <2> DEFINE I == {i \in 1..Len(Objects) : Objects[i] = o}
    <2>3. I # {} /\ \E i \in 1..Len(Objects) : Objects[i] = o
      BY <2>1, ListDomain
    <2>4. Promise!RemoveFirst(Objects, o) =
            SubSeq(Objects, 1, First(o) - 1) \o SubSeq(Objects, First(o) + 1, Len(Objects))
      <3>1. Promise!RemoveFirst(Objects, o) = Promise!RemoveAt(Objects, Promise!Min(I))
        BY <2>3 DEF Promise!RemoveFirst, Promise!SelectInSeq
      <3>2. Promise!Min(I) = First(o)
        BY DEF First, Min, Promise!Min
      <3>3. QED
        BY <3>1, <3>2 DEF Promise!RemoveAt
    <2>5. Objects' = Promise!RemoveFirst(Objects, o)
      BY <1>2, <2>4, RemoveStep
    <2>6. QED
      BY <2>1, <2>2, <2>5 DEF Promise!Withdraw
  <1>3. ASSUME NEW accepted \in SUBSET Object, list_find(accepted) PROVE Promise!Find(accepted)
    <2>1. Objects' = Objects
      BY <1>3, ReadStep DEF list_find
    <2>2. \A M : Promise!Min(M) = Min(M)
      BY DEF Min, Promise!Min
    <2>3. QED
      BY <1>3, <2>1, <2>2, ListDomain DEF list_find, Promise!Find
  <1>4. CASE list_iterate
    <2>1. Objects' = Objects /\ answer' = [visited |-> Objects]
      BY <1>4, ReadStep DEF list_iterate
    <2>2. Promise!Iterate
      BY <2>1, Zenon DEF Promise!Iterate
    <2>3. QED
      BY <2>2 DEF Promise!Next
  <1>5. CASE list_is_empty
    <2>1. Objects' = Objects
      BY <1>5, ReadStep DEF list_is_empty
    <2>2. answer' = [empty |-> Objects = << >>]
      BY <1>5, EmptyList DEF list_is_empty
    <2>3. Promise!IsEmpty
      BY <2>1, <2>2, Zenon DEF Promise!IsEmpty
    <2>4. QED
      BY <2>3 DEF Promise!Next
  <1>6. CASE UNCHANGED vars
    BY <1>6, ReadStep DEF vars, Promise!spec
  <1>7. QED
    BY <1>1, <1>2, <1>3, <1>4, <1>5, <1>6 DEF Next, Promise!Next

\* list.c implements what list.h promises: nodes, links and reserved memory
\* cannot be told from a sequence of objects that grows at its end.
THEOREM ListKeepsPromise == Spec => ListPromise
  <1>1. Init => Promise!Init
    BY InitInv DEF Init, Promise!Init, Nothing, Promise!Nothing
  <1>2. QED
    BY <1>1, AlwaysListInv, NextPromise, PTL DEF Spec, ListPromise, Promise!Spec
=============================================================================
