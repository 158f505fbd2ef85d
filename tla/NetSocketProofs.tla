--------------------------- MODULE NetSocketProofs ---------------------------
(***************************************************************************)
(* The queue of queue.c is first in, first out, and what the socket        *)
(* guarantees because of it.                                               *)
(***************************************************************************)
EXTENDS NetSocket, FiniteSetTheorems, WellFoundedInduction, SequenceTheorems, TLAPS

\* A set of natural numbers has a least element.
LEMMA LeastNumber ==
  ASSUME NEW B \in SUBSET Nat, B # {}
  PROVE  \E m \in B : \A k \in B : m <= k
  <1> DEFINE T == {0..b : b \in B}
  <1>1. T \subseteq FiniteSubsetsOf(Nat)
    <2>1. \A b \in B : IsFiniteSet(0..b) /\ 0..b \in SUBSET Nat
      BY FS_Interval
    <2>2. QED
      BY <2>1 DEF FiniteSubsetsOf
  <1>2. IsWellFoundedOn(StrictSubsetOrdering(Nat), FiniteSubsetsOf(Nat))
    BY FS_StrictSubsetOrderingWellFounded
  <1>3. T # {}
    OBVIOUS
  <1>4. PICK x \in T : \A y \in T : ~(<<y, x>> \in StrictSubsetOrdering(Nat))
    BY <1>1, <1>2, <1>3, WFMin
  <1>5. PICK m \in B : x = 0..m
    OBVIOUS
  <1>6. ASSUME NEW k \in B, k < m PROVE FALSE
    <2>1. 0..k \in T /\ 0..k \subseteq 0..m /\ 0..k # 0..m /\ 0..m \subseteq Nat
      <3>1. m \in 0..m /\ m \notin 0..k
        BY <1>6
      <3>2. QED
        BY <1>6, <3>1
    <2>2. <<0..k, 0..m>> \in StrictSubsetOrdering(Nat)
      BY <2>1 DEF StrictSubsetOrdering
    <2>3. QED
      BY <1>4, <1>5, <2>1, <2>2
  <1>7. QED
    BY <1>6

LEMMA CountTo ==
  ASSUME NEW n \in Nat
  PROVE  /\ IsFiniteSet(1..n) /\ Cardinality(1..n) = n
         /\ IsFiniteSet(0..(n - 1)) /\ Cardinality(0..(n - 1)) = n
  <1>1. IsFiniteSet(1..n) /\ Cardinality(1..n) = IF 1 > n THEN 0 ELSE n - 1 + 1
    BY FS_Interval
  <1>2. /\ IsFiniteSet(0..(n - 1))
        /\ Cardinality(0..(n - 1)) = IF 0 > n - 1 THEN 0 ELSE n - 1 - 0 + 1
    BY FS_Interval
  <1>3. QED
    BY <1>1, <1>2

-----------------------------------------------------------------------------
(* The chains of queue.c *)

\* s lists the nodes of q linked from node i on, up to the null pointer.
IsChain(q, i, s) ==
  /\ s \in Seq(1..Len(q.nodes))
  /\ i = IF Len(s) = 0 THEN 0 ELSE s[1]
  /\ \A k \in 1..Len(s) : q.nodes[s[k]].next = IF k = Len(s) THEN 0 ELSE s[k + 1]
  /\ \A k, l \in 1..Len(s) : s[k] = s[l] => k = l

\* No chain is longer than there are nodes.
LEMMA ChainLength ==
  ASSUME NEW q, Len(q.nodes) \in Nat, NEW i, NEW s, IsChain(q, i, s)
  PROVE  Len(s) \in 0..Len(q.nodes)
  <1> DEFINE N == Len(q.nodes)
  <1>1. Len(s) \in Nat /\ s \in [1..Len(s) -> 1..N]
    BY LenProperties DEF IsChain
  <1>2. s \in Injection(1..Len(s), 1..N)
    BY <1>1 DEF IsChain, Injection, IsInjective
  <1>3. IsFiniteSet(1..N) /\ Cardinality(1..N) = N /\ Cardinality(1..Len(s)) = Len(s)
    BY <1>1, CountTo
  <1>4. Cardinality(1..Len(s)) <= Cardinality(1..N)
    BY <1>2, <1>3, FS_Injection
  <1>5. QED
    BY <1>1, <1>3, <1>4

\* The walk from node i along the next pointers, N steps
Walked(nodes, i, N) ==
  CHOOSE g : g = [k \in 0..N |->
                    IF k = 0 THEN i ELSE IF g[k - 1] = 0 THEN 0 ELSE nodes[g[k - 1]].next]

\* A walk that starts on a chain follows it and stays at the null pointer.
LEMMA WalkChain ==
  ASSUME NEW q, Len(q.nodes) \in Nat, NEW i, NEW s, IsChain(q, i, s)
  PROVE  Walked(q.nodes, i, Len(q.nodes)) =
           [k \in 0..Len(q.nodes) |-> IF k < Len(s) THEN s[k + 1] ELSE 0]
  <1> DEFINE nodes == q.nodes
             N == Len(nodes)
             n == Len(s)
  <1>0. /\ N \in Nat /\ n \in 0..N /\ \A k \in 1..n : s[k] \in Nat \ {0}
        /\ i = IF n = 0 THEN 0 ELSE s[1]
        /\ \A k \in 1..n : nodes[s[k]].next = IF k = n THEN 0 ELSE s[k + 1]
    <2>1. n \in 0..N /\ s \in [1..n -> 1..N]
      BY ChainLength, LenProperties DEF IsChain
    <2>2. \A k \in 1..n : s[k] \in 1..N
      BY <2>1
    <2>3. /\ i = IF n = 0 THEN 0 ELSE s[1]
          /\ \A k \in 1..n : nodes[s[k]].next = IF k = n THEN 0 ELSE s[k + 1]
      BY DEF IsChain
    <2> HIDE DEF nodes, n
    <2>4. QED
      BY <2>1, <2>2, <2>3
  <1> HIDE DEF nodes, N, n
  <1> USE <1>0
  <1> DEFINE Walk(g) == [k \in 0..N |->
                           IF k = 0 THEN i
                           ELSE IF g[k - 1] = 0 THEN 0 ELSE nodes[g[k - 1]].next]
             h == [k \in 0..N |-> IF k < n THEN s[k + 1] ELSE 0]
  <1>1. ASSUME NEW k \in 0..N
        PROVE  h[k] = IF k = 0 THEN i
                      ELSE IF h[k - 1] = 0 THEN 0 ELSE nodes[h[k - 1]].next
    <2>0. \A j \in 0..N : h[j] = IF j < n THEN s[j + 1] ELSE 0
      OBVIOUS
    <2> HIDE DEF h
    <2>1. CASE k = 0
      BY <2>0, <2>1
    <2>2. CASE k # 0 /\ k < n
      <3>1. k \in 1..n /\ k - 1 \in 0..N /\ k - 1 < n /\ (k - 1) + 1 = k /\ k # n
        BY <2>2
      <3>2. h[k - 1] = s[k] /\ h[k] = s[k + 1]
        BY <2>0, <2>2, <3>1
      <3>3. nodes[s[k]].next = s[k + 1] /\ s[k] # 0
        BY <3>1
      <3>4. QED
        BY <2>2, <3>2, <3>3
    <2>3. CASE k # 0 /\ k = n
      <3>1. k \in 1..n /\ k - 1 \in 0..N /\ k - 1 < n /\ (k - 1) + 1 = k /\ ~(k < n)
        BY <2>3
      <3>2. h[k - 1] = s[k] /\ h[k] = 0
        BY <2>0, <2>3, <3>1
      <3>3. nodes[s[k]].next = 0 /\ s[k] # 0
        BY <2>3, <3>1
      <3>4. QED
        BY <2>3, <3>2, <3>3
    <2>4. CASE k # 0 /\ k > n
      <3>1. k - 1 \in 0..N /\ ~(k - 1 < n) /\ ~(k < n)
        BY <2>4
      <3>2. QED
        BY <2>0, <2>4, <3>1
    <2>5. QED
      BY <2>1, <2>2, <2>3, <2>4
  <1>2. h = Walk(h)
    BY <1>1
  \* Two functions that walk alike agree from the start on.
  <1>3. ASSUME NEW g, g = Walk(g) PROVE g = h
    <2> DEFINE B == {k \in 0..N : g[k] # h[k]}
    <2>1. /\ g = [k \in 0..N |-> g[k]]
          /\ h = [k \in 0..N |-> h[k]]
          /\ \A k \in 0..N : g[k] = IF k = 0 THEN i
                                    ELSE IF g[k - 1] = 0 THEN 0 ELSE nodes[g[k - 1]].next
      BY <1>3
    <2> HIDE DEF h
    <2>2. B \in SUBSET Nat /\ B \subseteq 0..N
      OBVIOUS
    <2>3. \A k \in 0..N : k \in B <=> g[k] # h[k]
      OBVIOUS
    <2> HIDE DEF B
    <2>4. ASSUME NEW m \in B, \A k \in B : m <= k PROVE FALSE
      <3>1. m \in 0..N /\ g[m] # h[m]
        BY <2>2, <2>3
      <3>2. m # 0
        BY <1>1, <2>1, <3>1
      <3>3. m - 1 \in 0..N /\ m - 1 \notin B
        BY <2>4, <3>1, <3>2
      <3>4. g[m - 1] = h[m - 1]
        BY <2>3, <3>3
      <3>5. QED
        BY <1>1, <2>1, <3>1, <3>2, <3>4
    <2>5. B = {}
      BY <2>2, <2>4, LeastNumber
    <2>6. QED
      BY <2>1, <2>3, <2>5
  <1> HIDE DEF h
  <1>4. (CHOOSE g : g = Walk(g)) = Walk(CHOOSE g : g = Walk(g))
    <2> HIDE DEF Walk
    <2>1. QED
      BY <1>2
  <1>5. (CHOOSE g : g = Walk(g)) = h
    BY <1>3, <1>4
  <1>6. QED
    BY <1>5 DEF h, Walked, nodes, N, n

\* The loop over the nodes from i on visits the chain.
LEMMA LinkedChain ==
  ASSUME NEW q, Len(q.nodes) \in Nat, NEW i, NEW s, IsChain(q, i, s)
  PROVE  Linked(q, i) = s
  <1> DEFINE N == Len(q.nodes)
             n == Len(s)
             node == Walked(q.nodes, i, N)
             visited == {k \in 0..N : node[k] # 0}
  <1>1. Linked(q, i) = [k \in 1..Cardinality(visited) |-> node[k - 1]]
    BY DEF Linked, Walked
  <1>2. n \in 0..N /\ s \in [1..n -> 1..N] /\ n \in Nat /\ N \in Nat
    BY ChainLength, LenProperties DEF IsChain
  <1>3. \A k \in 1..n : s[k] \in Nat \ {0}
    BY <1>2
  <1>4. node = [k \in 0..N |-> IF k < n THEN s[k + 1] ELSE 0]
    BY WalkChain
  <1> HIDE DEF node, n, N
  <1>5. visited = 0..(n - 1)
    <2>1. ASSUME NEW k \in 0..N PROVE node[k] # 0 <=> k \in 0..(n - 1)
      <3>1. CASE k < n
        <4>1. k + 1 \in 1..n /\ k \in 0..(n - 1)
          BY <1>2, <3>1
        <4>2. s[k + 1] # 0 /\ node[k] = s[k + 1]
          BY <1>3, <1>4, <3>1, <4>1
        <4>3. QED
          BY <4>1, <4>2
      <3>2. CASE ~(k < n)
        BY <1>2, <1>4, <3>2
      <3>3. QED
        BY <3>1, <3>2
    <2>2. 0..(n - 1) \subseteq 0..N
      BY <1>2
    <2>3. QED
      BY <2>1, <2>2
  <1>6. Cardinality(visited) = n
    BY <1>2, <1>5, CountTo
  <1>7. \A k \in 1..n : node[k - 1] = s[k]
    <2>1. \A k \in 1..n : k - 1 \in 0..N /\ k - 1 < n /\ (k - 1) + 1 = k
      BY <1>2
    <2>2. QED
      BY <1>4, <2>1
  <1>8. Linked(q, i) = [k \in 1..n |-> node[k - 1]]
    BY <1>1, <1>6
  <1>9. QED
    BY <1>2, <1>7, <1>8

-----------------------------------------------------------------------------
(* First in, first out *)

Node == [object : Packet, next : Nat]
QueueType == [nodes : Seq(Node), head : Nat, tail : Nat, reserved : Nat]

\* The nodes of q in use and those in reserve are two chains that share none.
Chains(q, e, r) ==
  /\ q \in QueueType
  /\ IsChain(q, q.head, e) /\ IsChain(q, q.reserved, r)
  /\ q.tail = IF Len(e) = 0 THEN 0 ELSE e[Len(e)]
  /\ \A k \in 1..Len(e), l \in 1..Len(r) : e[k] # r[l]

\* What these chains are made of
LEMMA ChainFacts ==
  ASSUME NEW q, NEW e, NEW r, Chains(q, e, r)
  PROVE  /\ q.nodes \in Seq(Node) /\ Len(q.nodes) \in Nat
         /\ q.nodes \in [1..Len(q.nodes) -> Node]
         /\ q.head \in Nat /\ q.tail \in Nat /\ q.reserved \in Nat
         /\ Len(e) \in Nat /\ e \in [1..Len(e) -> 1..Len(q.nodes)]
         /\ Len(r) \in Nat /\ r \in [1..Len(r) -> 1..Len(q.nodes)]
         /\ Len(e) # 0 => q.tail \in 1..Len(q.nodes) /\ q.head \in 1..Len(q.nodes)
  <1>1. q.nodes \in Seq(Node) /\ q.head \in Nat /\ q.tail \in Nat /\ q.reserved \in Nat
    BY DEF Chains, QueueType
  <1>2. Len(q.nodes) \in Nat /\ q.nodes \in [1..Len(q.nodes) -> Node]
    BY <1>1, LenProperties
  <1>3. /\ Len(e) \in Nat /\ e \in [1..Len(e) -> 1..Len(q.nodes)]
        /\ Len(r) \in Nat /\ r \in [1..Len(r) -> 1..Len(q.nodes)]
    BY LenProperties DEF Chains, IsChain
  <1>4. Len(e) # 0 => 1 \in 1..Len(e) /\ Len(e) \in 1..Len(e)
    BY <1>3
  <1>5. Len(e) # 0 => q.tail = e[Len(e)] /\ q.head = e[1]
    BY DEF Chains, IsChain
  <1>6. QED
    BY <1>1, <1>2, <1>3, <1>4, <1>5

LEMMA EnqueuedChain ==
  ASSUME NEW q, NEW e, NEW r, Chains(q, e, r)
  PROVE  /\ Enqueued(q) = [k \in 1..Len(e) |-> q.nodes[e[k]].object]
         /\ Enqueued(q) \in Seq(Packet) /\ Len(Enqueued(q)) = Len(e)
         /\ queue_is_empty(q) <=> Len(e) = 0
         /\ Len(e) # 0 => Popped(q) = Enqueued(q)[1]
  <1>1. /\ Len(q.nodes) \in Nat /\ q.nodes \in [1..Len(q.nodes) -> Node]
        /\ Len(e) \in Nat /\ e \in [1..Len(e) -> 1..Len(q.nodes)]
    BY ChainFacts
  <1>2. Linked(q, q.head) = e /\ DOMAIN e = 1..Len(e)
    BY <1>1, LinkedChain DEF Chains
  <1>3. Enqueued(q) = [k \in 1..Len(e) |-> q.nodes[e[k]].object]
    BY <1>2 DEF Enqueued
  <1>4. \A k \in 1..Len(e) : q.nodes[e[k]].object \in Packet
    BY <1>1 DEF Node
  <1>5. Enqueued(q) \in Seq(Packet) /\ Len(Enqueued(q)) = Len(e)
    BY <1>1, <1>3, <1>4
  <1>6. Len(e) # 0 => 1 \in 1..Len(e) /\ q.head = e[1] /\ e[1] \in 1..Len(q.nodes)
    <2>1. Len(e) # 0 => q.head = e[1]
      BY DEF Chains, IsChain
    <2>2. Len(e) # 0 => 1 \in 1..Len(e)
      BY <1>1
    <2>3. QED
      BY <1>1, <2>1, <2>2
  <1>7. Len(e) = 0 => q.head = 0 /\ q.tail = 0
    BY DEF Chains, IsChain
  <1>8. queue_is_empty(q) <=> Len(e) = 0
    BY <1>1, <1>6, <1>7 DEF queue_is_empty
  <1>9. Len(e) # 0 => Popped(q) = Enqueued(q)[1]
    BY <1>3, <1>6 DEF Popped
  <1>10. QED
    BY <1>3, <1>5, <1>8, <1>9

LEMMA CreateChains == Chains(queue_create, << >>, << >>)
  <1>1. /\ queue_create.nodes = << >> /\ queue_create.head = 0
        /\ queue_create.tail = 0 /\ queue_create.reserved = 0
        /\ queue_create \in QueueType
    BY EmptySeq DEF queue_create, QueueType
  <1>2. << >> \in Seq(1..Len(queue_create.nodes)) /\ Len(<< >>) = 0
    BY EmptySeq
  <1>3. QED
    BY <1>1, <1>2 DEF Chains, IsChain

\* The node a push uses, and what it makes of the nodes
PushNode(q) == IF q.reserved # 0 THEN q.reserved ELSE Len(q.nodes) + 1

LEMMA PushNodes ==
  ASSUME NEW q, NEW e, NEW r, Chains(q, e, r), NEW o \in Packet
  PROVE  LET p == queue_push(q, o)
             n == PushNode(q)
         IN  /\ p \in QueueType
             /\ Len(p.nodes) = IF q.reserved # 0 THEN Len(q.nodes) ELSE Len(q.nodes) + 1
             /\ n \in 1..Len(p.nodes)
             /\ p.nodes[n] = [object |-> o, next |-> 0]
             /\ \A x \in 1..Len(q.nodes) \ {n} :
                  /\ p.nodes[x].object = q.nodes[x].object
                  /\ p.nodes[x].next = IF Len(e) # 0 /\ x = q.tail THEN n ELSE q.nodes[x].next
             /\ p.head = IF Len(e) = 0 THEN n ELSE q.head
             /\ p.tail = n
             /\ p.reserved = IF q.reserved # 0 THEN q.nodes[n].next ELSE 0
  <1> DEFINE p == queue_push(q, o)
             n == PushNode(q)
             N == Len(q.nodes)
             M == IF q.reserved # 0 THEN N ELSE N + 1
             node == [object |-> o, next |-> 0]
             m == IF q.reserved # 0 THEN [q.nodes EXCEPT ![n] = node]
                  ELSE Append(q.nodes, node)
             w == IF Len(e) = 0 THEN m ELSE [m EXCEPT ![q.tail].next = n]
  <1>1. /\ q.nodes \in Seq(Node) /\ N \in Nat /\ q.nodes \in [1..N -> Node]
        /\ q.head \in Nat /\ q.tail \in Nat /\ q.reserved \in Nat
        /\ Len(e) # 0 => q.tail \in 1..N
    BY ChainFacts
  <1>2. q.reserved # 0 => q.reserved \in 1..N
    <2>1. Len(r) \in Nat /\ r \in [1..Len(r) -> 1..N]
      BY ChainFacts
    <2>2. q.reserved = IF Len(r) = 0 THEN 0 ELSE r[1]
      BY DEF Chains, IsChain
    <2>3. QED
      BY <2>1, <2>2
  <1>3. node \in Node /\ n \in 1..M /\ M \in Nat /\ 1..N \subseteq 1..M
    BY <1>1, <1>2 DEF Node, PushNode
  <1>4. queue_is_empty(q) <=> Len(e) = 0
    BY EnqueuedChain
  <1>5. p = [nodes |-> w, head |-> IF Len(e) = 0 THEN n ELSE q.head, tail |-> n,
             reserved |-> IF q.reserved # 0 THEN q.nodes[n].next ELSE 0]
    BY <1>4 DEF queue_push, PushNode
  <1>6. /\ m \in Seq(Node) /\ Len(m) = M
        /\ m[n] = node /\ \A x \in 1..N \ {n} : m[x] = q.nodes[x]
    <2>1. CASE q.reserved # 0
      <3>1. n \in 1..N /\ m = [q.nodes EXCEPT ![n] = node] /\ M = N
        BY <1>2, <2>1 DEF PushNode
      <3> HIDE DEF m, n, M
      <3>2. QED
        BY <1>1, <1>3, <3>1, ExceptSeq
    <2>2. CASE q.reserved = 0
      <3>1. n = N + 1 /\ m = Append(q.nodes, node) /\ M = N + 1
        BY <2>2 DEF PushNode
      <3> HIDE DEF m, n, M
      <3>2. QED
        BY <1>1, <1>3, <3>1, AppendProperties
    <2>3. QED
      BY <2>1, <2>2
  <1> HIDE DEF m, n, p, M, N, node
  <1>7. /\ w \in Seq(Node) /\ Len(w) = M
        /\ \A x \in 1..M : /\ w[x].object = m[x].object
                           /\ w[x].next = IF Len(e) # 0 /\ x = q.tail THEN n ELSE m[x].next
    <2>1. CASE Len(e) = 0
      BY <1>6, <2>1
    <2>2. CASE Len(e) # 0
      <3>1. q.tail \in 1..M /\ m \in [1..M -> Node] /\ m[q.tail] \in Node
        BY <1>1, <1>3, <1>6, <2>2, LenProperties
      <3>2. n \in Nat
        BY <1>3
      <3> DEFINE v == [m[q.tail] EXCEPT !.next = n]
      <3>3. v \in Node /\ v.next = n /\ v.object = m[q.tail].object
        BY <3>1, <3>2 DEF Node
      <3>4. w = [m EXCEPT ![q.tail] = v]
        BY <2>2
      <3> HIDE DEF v, w
      <3>5. /\ w \in Seq(Node) /\ Len(w) = M
            /\ \A x \in 1..M : w[x] = IF x = q.tail THEN v ELSE m[x]
        BY <1>6, <3>1, <3>3, <3>4, ExceptSeq
      <3>6. QED
        BY <2>2, <3>3, <3>5
    <2>3. QED
      BY <2>1, <2>2
  <1> HIDE DEF w
  <1>8. Len(e) # 0 => q.tail # n
    <2>1. CASE q.reserved = 0
      BY <1>1, <2>1 DEF n, PushNode, N
    <2>2. CASE q.reserved # 0
      <3>1. /\ Len(r) \in Nat /\ Len(e) \in Nat
            /\ q.reserved = (IF Len(r) = 0 THEN 0 ELSE r[1])
            /\ q.tail = (IF Len(e) = 0 THEN 0 ELSE e[Len(e)])
            /\ \A k \in 1..Len(e), l \in 1..Len(r) : e[k] # r[l]
        BY ChainFacts DEF Chains, IsChain
      <3>2. n = r[1] /\ Len(r) # 0
        BY <2>2, <3>1 DEF n, PushNode
      <3>3. QED
        BY <3>1, <3>2
    <2>3. QED
      BY <2>1, <2>2
  <1>9. w[n] = node
    <2>1. w[n] \in Node /\ w[n].object = o /\ w[n].next = 0
      <3>1. w[n] \in Node
        BY <1>3, <1>7, LenProperties
      <3>2. QED
        BY <1>3, <1>6, <1>7, <1>8, <3>1 DEF node
    <2>2. QED
      BY <2>1 DEF Node, node
  <1>10. p.nodes = w /\ p.head = (IF Len(e) = 0 THEN n ELSE q.head) /\ p.tail = n
         /\ p.reserved = IF q.reserved # 0 THEN q.nodes[n].next ELSE 0
    BY <1>5
  <1>11. q.reserved # 0 => q.nodes[n].next \in Nat
    BY <1>1, <1>2 DEF Node, n, PushNode
  <1>12. p \in QueueType
    <2>1. /\ (IF Len(e) = 0 THEN n ELSE q.head) \in Nat /\ n \in Nat
          /\ (IF q.reserved # 0 THEN q.nodes[n].next ELSE 0) \in Nat
      BY <1>1, <1>3, <1>11
    <2>2. QED
      BY <1>5, <1>7, <2>1 DEF QueueType
  <1>13. \A x \in 1..N \ {n} :
           /\ w[x].object = q.nodes[x].object
           /\ w[x].next = IF Len(e) # 0 /\ x = q.tail THEN n ELSE q.nodes[x].next
    BY <1>3, <1>6, <1>7
  <1>14. QED
    BY <1>3, <1>7, <1>9, <1>10, <1>12, <1>13 DEF p, n, M, N, node

\* What the two chains say of the nodes
LEMMA ChainLinks ==
  ASSUME NEW q, NEW e, NEW r, Chains(q, e, r)
  PROVE  /\ q.head = IF Len(e) = 0 THEN 0 ELSE e[1]
         /\ q.tail = IF Len(e) = 0 THEN 0 ELSE e[Len(e)]
         /\ q.reserved = IF Len(r) = 0 THEN 0 ELSE r[1]
         /\ \A k \in 1..Len(e) : q.nodes[e[k]].next = IF k = Len(e) THEN 0 ELSE e[k + 1]
         /\ \A k \in 1..Len(r) : q.nodes[r[k]].next = IF k = Len(r) THEN 0 ELSE r[k + 1]
         /\ \A k, l \in 1..Len(e) : e[k] = e[l] => k = l
         /\ \A k, l \in 1..Len(r) : r[k] = r[l] => k = l
         /\ \A k \in 1..Len(e), l \in 1..Len(r) : e[k] # r[l]
  BY DEF Chains, IsChain

\* A push puts its object at the end of the queue; the node it uses is the
\* first in reserve, or a new one.
LEMMA PushChains ==
  ASSUME NEW q, NEW e, NEW r, Chains(q, e, r), NEW o \in Packet
  PROVE  Chains(queue_push(q, o), Append(e, PushNode(q)),
                IF q.reserved # 0 THEN Tail(r) ELSE r)
  <1> DEFINE p == queue_push(q, o)
             n == PushNode(q)
             N == Len(q.nodes)
             M == Len(p.nodes)
             E == Len(e)
             R == Len(r)
             f == Append(e, n)
             g == IF q.reserved # 0 THEN Tail(r) ELSE r
  <1>1. /\ p \in QueueType
        /\ M = IF q.reserved # 0 THEN N ELSE N + 1
        /\ n \in 1..M
        /\ p.nodes[n] = [object |-> o, next |-> 0]
        /\ \A x \in 1..N \ {n} :
             p.nodes[x].next = IF E # 0 /\ x = q.tail THEN n ELSE q.nodes[x].next
        /\ p.head = IF E = 0 THEN n ELSE q.head
        /\ p.tail = n
        /\ p.reserved = IF q.reserved # 0 THEN q.nodes[n].next ELSE 0
    BY PushNodes
  <1>2. /\ N \in Nat /\ E \in Nat /\ R \in Nat
        /\ e \in [1..E -> 1..N] /\ r \in [1..R -> 1..N]
        /\ q.reserved \in Nat
    BY ChainFacts
  <1>3. e \in Seq(1..N) /\ r \in Seq(1..N)
    BY DEF Chains, IsChain
  <1>4. /\ q.head = (IF E = 0 THEN 0 ELSE e[1])
        /\ q.tail = (IF E = 0 THEN 0 ELSE e[E])
        /\ q.reserved = (IF R = 0 THEN 0 ELSE r[1])
        /\ \A k \in 1..E : q.nodes[e[k]].next = IF k = E THEN 0 ELSE e[k + 1]
        /\ \A k \in 1..R : q.nodes[r[k]].next = IF k = R THEN 0 ELSE r[k + 1]
        /\ \A k, l \in 1..E : e[k] = e[l] => k = l
        /\ \A k, l \in 1..R : r[k] = r[l] => k = l
        /\ \A k \in 1..E, l \in 1..R : e[k] # r[l]
    BY ChainLinks
  <1>5. n = IF q.reserved # 0 THEN q.reserved ELSE N + 1
    BY DEF PushNode
  <1> HIDE DEF p, n, N, M, E, R
  <1>6. /\ M \in Nat /\ 1..N \subseteq 1..M
        /\ \A k \in 1..E : e[k] \in 1..N
        /\ \A k \in 1..R : r[k] \in 1..N
    BY <1>1, <1>2
  <1>7. (q.reserved # 0 <=> R # 0) /\ (R # 0 => n = r[1])
    <2>1. R # 0 => r[1] \in 1..N
      BY <1>2, <1>6
    <2>2. QED
      BY <1>2, <1>4, <1>5, <2>1
  <1>8. \A k \in 1..E : e[k] # n /\ e[k] \in 1..N \ {n}
    <2>1. ASSUME NEW k \in 1..E PROVE e[k] # n
      <3>1. CASE R = 0
        BY <1>2, <1>5, <1>6, <1>7, <3>1
      <3>2. CASE R # 0
        <4>1. 1 \in 1..R
          BY <1>2, <3>2
        <4>2. QED
          BY <1>4, <1>7, <3>2, <4>1
      <3>3. QED
        BY <3>1, <3>2
    <2>2. QED
      BY <1>6, <2>1
  <1>9. /\ f \in Seq(1..M) /\ Len(f) = E + 1
        /\ \A k \in 1..E : f[k] = e[k]
        /\ f[E + 1] = n
    <2>1. e \in Seq(1..M)
      BY <1>3, <1>6, SeqMonotonic
    <2>2. QED
      BY <1>1, <2>1, AppendProperties DEF E
  <1> HIDE DEF f
  <1>10. IsChain(p, p.head, f)
    <2>1. p.head = IF Len(f) = 0 THEN 0 ELSE f[1]
      BY <1>1, <1>2, <1>4, <1>9
    <2>2. ASSUME NEW k \in 1..Len(f)
          PROVE  p.nodes[f[k]].next = IF k = Len(f) THEN 0 ELSE f[k + 1]
      <3>1. CASE k = E + 1
        BY <1>1, <1>9, <3>1
      <3>2. CASE k = E
        <4>1. k \in 1..E /\ f[k] = e[k] /\ e[k] = q.tail /\ E # 0 /\ k # Len(f)
          BY <1>2, <1>4, <1>9, <2>2, <3>2
        <4>2. p.nodes[e[k]].next = n
          BY <1>1, <1>8, <4>1
        <4>3. QED
          BY <1>9, <3>2, <4>1, <4>2
      <3>3. CASE k \in 1..E /\ k # E
        <4>1. f[k] = e[k] /\ k + 1 \in 1..E /\ k # Len(f) /\ f[k + 1] = e[k + 1]
          BY <1>2, <1>9, <3>3
        <4>2. e[k] # q.tail
          <5>1. E \in 1..E /\ E # 0
            BY <1>2, <3>3
          <5>2. e[k] # e[E]
            BY <1>4, <3>3, <5>1
          <5>3. QED
            BY <1>4, <5>1, <5>2
        <4>3. p.nodes[e[k]].next = q.nodes[e[k]].next
          BY <1>1, <1>8, <3>3, <4>2
        <4>4. q.nodes[e[k]].next = e[k + 1]
          BY <1>4, <3>3
        <4>5. QED
          BY <4>1, <4>3, <4>4
      <3>4. QED
        BY <1>2, <1>9, <3>1, <3>2, <3>3
    <2>3. ASSUME NEW k \in 1..Len(f), NEW l \in 1..Len(f), f[k] = f[l] PROVE k = l
      <3>1. (k \in 1..E \/ k = E + 1) /\ (l \in 1..E \/ l = E + 1)
        BY <1>2, <1>9
      <3>2. QED
        BY <1>4, <1>8, <1>9, <2>3, <3>1
    <2>4. QED
      BY <1>9, <2>1, <2>2, <2>3 DEF IsChain, M
  <1>11. /\ g \in Seq(1..M) /\ Len(g) = (IF R = 0 THEN 0 ELSE R - 1)
         /\ \A k \in 1..Len(g) : g[k] = r[k + 1] /\ k + 1 \in 1..R
    <2>1. r \in Seq(1..M)
      BY <1>3, <1>6, SeqMonotonic
    <2>2. CASE R = 0
      <3>1. g = r
        BY <1>7, <2>2
      <3>2. QED
        BY <2>1, <2>2, <3>1 DEF R
    <2>3. CASE R # 0
      <3>1. g = Tail(r) /\ r # << >>
        BY <1>7, <2>3, EmptySeq DEF R
      <3> HIDE DEF g
      <3>2. /\ g \in Seq(1..M) /\ Len(g) = R - 1
            /\ \A k \in 1..Len(g) : g[k] = r[k + 1]
        BY <2>1, <3>1, HeadTailProperties DEF R
      <3>3. QED
        BY <1>2, <2>3, <3>2
    <2>4. QED
      BY <2>2, <2>3
  <1> HIDE DEF g
  <1>12. \A k \in 1..Len(g) : g[k] # n /\ g[k] \in 1..N \ {n} /\ (E # 0 => g[k] # q.tail)
    <2>1. ASSUME NEW k \in 1..Len(g) PROVE g[k] # n
      <3>1. k + 1 \in 1..R /\ 1 \in 1..R /\ R # 0 /\ k + 1 # 1
        BY <1>2, <1>11
      <3>2. r[k + 1] # r[1]
        BY <1>4, <3>1
      <3>3. QED
        BY <1>7, <1>11, <3>1, <3>2
    <2>2. ASSUME NEW k \in 1..Len(g), E # 0 PROVE g[k] # q.tail
      <3>1. E \in 1..E /\ k + 1 \in 1..R
        BY <1>2, <1>11, <2>2
      <3>2. QED
        BY <1>4, <1>11, <2>2, <3>1
    <2>3. QED
      BY <1>6, <1>11, <2>1, <2>2
  <1>13. IsChain(p, p.reserved, g)
    <2>1. p.reserved = IF Len(g) = 0 THEN 0 ELSE g[1]
      <3>1. CASE R = 0
        BY <1>1, <1>7, <1>11, <3>1
      <3>2. CASE R # 0
        <4>1. 1 \in 1..R /\ p.reserved = q.nodes[r[1]].next
          BY <1>1, <1>2, <1>7, <3>2
        <4>2. p.reserved = IF 1 = R THEN 0 ELSE r[1 + 1]
          BY <1>4, <4>1
        <4>3. R = 1 => Len(g) = 0
          BY <1>11
        <4>4. R # 1 => Len(g) # 0 /\ g[1] = r[1 + 1]
          <5>1. R # 1 => 1 \in 1..Len(g)
            BY <1>2, <1>11, <3>2
          <5>2. QED
            BY <1>2, <1>11, <5>1
        <4>5. QED
          BY <4>2, <4>3, <4>4
      <3>3. QED
        BY <3>1, <3>2
    <2>2. ASSUME NEW k \in 1..Len(g)
          PROVE  p.nodes[g[k]].next = IF k = Len(g) THEN 0 ELSE g[k + 1]
      <3>1. g[k] = r[k + 1] /\ k + 1 \in 1..R
        BY <1>11
      <3>2. p.nodes[g[k]].next = q.nodes[g[k]].next
        BY <1>1, <1>12
      <3>3. q.nodes[g[k]].next = IF k + 1 = R THEN 0 ELSE r[(k + 1) + 1]
        BY <1>4, <3>1
      <3>4. k + 1 = R <=> k = Len(g)
        BY <1>2, <1>11, <3>1
      <3>5. k # Len(g) => g[k + 1] = r[(k + 1) + 1]
        <4>1. Len(g) \in Nat
          BY <1>2, <1>11
        <4>2. k # Len(g) => k + 1 \in 1..Len(g)
          BY <4>1
        <4>3. QED
          BY <1>11, <4>2
      <3>6. QED
        BY <3>2, <3>3, <3>4, <3>5
    <2>3. ASSUME NEW k \in 1..Len(g), NEW l \in 1..Len(g), g[k] = g[l] PROVE k = l
      <3>1. k + 1 = l + 1
        BY <1>4, <1>11, <2>3
      <3>2. k \in Int /\ l \in Int
        OBVIOUS
      <3>3. QED
        BY <3>1, <3>2
    <2>4. QED
      BY <1>11, <2>1, <2>2, <2>3 DEF IsChain, M
  <1>14. \A k \in 1..Len(f), l \in 1..Len(g) : f[k] # g[l]
    <2>1. ASSUME NEW k \in 1..Len(f), NEW l \in 1..Len(g) PROVE f[k] # g[l]
      <3>1. k \in 1..E \/ k = E + 1
        BY <1>2, <1>9
      <3>2. CASE k = E + 1
        BY <1>9, <1>12, <3>2
      <3>3. CASE k \in 1..E
        BY <1>4, <1>9, <1>11, <3>3
      <3>4. QED
        BY <3>1, <3>2, <3>3
    <2>2. QED
      BY <2>1
  <1>15. p.tail = IF Len(f) = 0 THEN 0 ELSE f[Len(f)]
    BY <1>1, <1>2, <1>9
  <1>16. Chains(p, f, g)
    BY <1>1, <1>10, <1>13, <1>14, <1>15 DEF Chains
  <1>17. QED
    BY <1>16 DEF p, f, g, n

LEMMA PushEnqueues ==
  ASSUME NEW q, NEW e, NEW r, Chains(q, e, r), NEW o \in Packet
  PROVE  Enqueued(queue_push(q, o)) = Append(Enqueued(q), o)
  <1> DEFINE p == queue_push(q, o)
             n == PushNode(q)
             N == Len(q.nodes)
             E == Len(e)
             f == Append(e, n)
             g == IF q.reserved # 0 THEN Tail(r) ELSE r
  <1>1. Chains(p, f, g)
    BY PushChains
  <1>2. /\ n \in 1..Len(p.nodes) /\ p.nodes[n].object = o
        /\ \A x \in 1..N \ {n} : p.nodes[x].object = q.nodes[x].object
    <2>1. /\ n \in 1..Len(p.nodes) /\ p.nodes[n] = [object |-> o, next |-> 0]
          /\ \A x \in 1..N \ {n} : p.nodes[x].object = q.nodes[x].object
      BY PushNodes
    <2> HIDE DEF p, n
    <2>2. QED
      BY <2>1
  <1>3. /\ N \in Nat /\ E \in Nat /\ Len(p.nodes) \in Nat
        /\ e \in [1..E -> 1..N] /\ f \in [1..Len(f) -> 1..Len(p.nodes)]
    BY <1>1, ChainFacts
  <1>4. e \in Seq(Nat) /\ n \in Nat
    <2>1. e \in Seq(1..N)
      BY DEF Chains, IsChain
    <2> HIDE DEF n, N, p
    <2>2. 1..N \subseteq Nat /\ n \in Nat
      BY <1>2, <1>3
    <2>3. QED
      BY <2>1, <2>2, SeqMonotonic
  <1>5. Len(f) = E + 1 /\ f[E + 1] = n /\ \A k \in 1..E : f[k] = e[k]
    BY <1>4, AppendProperties
  <1>6. \A k, l \in 1..Len(f) : f[k] = f[l] => k = l
    BY <1>1, ChainLinks
  <1>7. /\ Enqueued(q) = [k \in 1..E |-> q.nodes[e[k]].object]
        /\ Enqueued(q) \in Seq(Packet) /\ Len(Enqueued(q)) = E
    BY EnqueuedChain
  <1>8. /\ Enqueued(p) = [k \in 1..Len(f) |-> p.nodes[f[k]].object]
        /\ Enqueued(p) \in Seq(Packet) /\ Len(Enqueued(p)) = E + 1
    BY <1>1, <1>5, EnqueuedChain
  <1> HIDE DEF p, n, N, E, f, g
  <1>9. /\ Append(Enqueued(q), o) \in Seq(Packet) /\ Len(Append(Enqueued(q), o)) = E + 1
        /\ \A k \in 1..E : Append(Enqueued(q), o)[k] = Enqueued(q)[k]
        /\ Append(Enqueued(q), o)[E + 1] = o
    <2> DEFINE w == Enqueued(q)
    <2>1. w \in Seq(Packet) /\ Len(w) = E
      BY <1>7
    <2> HIDE DEF w
    <2>2. /\ Append(w, o) \in Seq(Packet) /\ Len(Append(w, o)) = E + 1
          /\ \A k \in 1..E : Append(w, o)[k] = w[k]
          /\ Append(w, o)[E + 1] = o
      BY <2>1, AppendProperties
    <2>3. QED
      BY <2>2 DEF w
  <1>10. \A k \in 1..(E + 1) : Enqueued(p)[k] = Append(Enqueued(q), o)[k]
    <2>1. ASSUME NEW k \in 1..E PROVE Enqueued(p)[k] = Append(Enqueued(q), o)[k]
      <3>1. k \in 1..Len(f) /\ E + 1 \in 1..Len(f) /\ k # E + 1
        BY <1>3, <1>5
      <3>2. e[k] # n /\ e[k] \in 1..N
        BY <1>3, <1>5, <1>6, <3>1
      <3>3. p.nodes[e[k]].object = q.nodes[e[k]].object
        BY <1>2, <3>2
      <3>4. Enqueued(p)[k] = p.nodes[e[k]].object
        BY <1>5, <1>8, <3>1
      <3>5. Enqueued(q)[k] = q.nodes[e[k]].object
        BY <1>7
      <3>6. QED
        BY <1>9, <3>3, <3>4, <3>5
    <2>2. Enqueued(p)[E + 1] = o
      <3>1. E + 1 \in 1..Len(f)
        BY <1>3, <1>5
      <3>2. QED
        BY <1>2, <1>5, <1>8, <3>1
    <2>3. QED
      BY <1>3, <1>9, <2>1, <2>2
  <1>11. Enqueued(p) = Append(Enqueued(q), o)
    BY <1>8, <1>9, <1>10, SeqEqual
  <1>12. QED
    BY <1>11 DEF p

\* A pop moves the first node in use to the front of the reserve.
LEMMA PopChains ==
  ASSUME NEW q, NEW e, NEW r, Chains(q, e, r), Len(e) # 0
  PROVE  /\ Chains(queue_pop(q), Tail(e), <<e[1]>> \o r)
         /\ Enqueued(queue_pop(q)) = Tail(Enqueued(q))
  <1> DEFINE p == queue_pop(q)
             h == e[1]
             N == Len(q.nodes)
             E == Len(e)
             R == Len(r)
             f == Tail(e)
             g == <<h>> \o r
  <1>1. /\ q.nodes \in Seq(Node) /\ q.nodes \in [1..N -> Node]
        /\ N \in Nat /\ E \in Nat /\ R \in Nat
        /\ e \in [1..E -> 1..N] /\ r \in [1..R -> 1..N]
        /\ q.reserved \in Nat /\ q.tail \in Nat
    BY ChainFacts
  <1>2. e \in Seq(1..N) /\ r \in Seq(1..N)
    BY DEF Chains, IsChain
  <1>3. /\ q.head = h /\ q.tail = e[E]
        /\ q.reserved = (IF R = 0 THEN 0 ELSE r[1])
        /\ \A k \in 1..E : q.nodes[e[k]].next = IF k = E THEN 0 ELSE e[k + 1]
        /\ \A k \in 1..R : q.nodes[r[k]].next = IF k = R THEN 0 ELSE r[k + 1]
        /\ \A k, l \in 1..E : e[k] = e[l] => k = l
        /\ \A k, l \in 1..R : r[k] = r[l] => k = l
        /\ \A k \in 1..E, l \in 1..R : e[k] # r[l]
    BY ChainLinks
  <1>4. 1 \in 1..E /\ E \in 1..E /\ h \in 1..N
    BY <1>1
  <1>5. (q.head = q.tail <=> E = 1) /\ q.nodes[h].next = IF E = 1 THEN 0 ELSE e[2]
    <2>1. q.nodes[h].next = IF 1 = E THEN 0 ELSE e[1 + 1]
      BY <1>3, <1>4
    <2>2. q.head = q.tail <=> E = 1
      BY <1>3, <1>4
    <2>3. QED
      BY <2>1, <2>2
  <1>6. /\ f \in Seq(1..N) /\ Len(f) = E - 1
        /\ \A k \in 1..Len(f) : f[k] = e[k + 1] /\ k + 1 \in 1..E
    <2>1. e # << >>
      BY EmptySeq
    <2>2. /\ f \in Seq(1..N) /\ Len(f) = E - 1
          /\ \A k \in 1..Len(f) : f[k] = e[k + 1]
      BY <1>2, <2>1, HeadTailProperties
    <2>3. QED
      BY <1>1, <2>2
  <1>7. /\ g \in Seq(1..N) /\ Len(g) = R + 1 /\ g[1] = h
        /\ \A k \in 1..R : g[k + 1] = r[k]
    <2>1. <<h>> \in Seq(1..N) /\ Len(<<h>>) = 1 /\ <<h>>[1] = h
      BY <1>4
    <2>2. /\ g \in Seq(1..N) /\ Len(g) = 1 + R
          /\ \A i \in 1..(1 + R) : g[i] = IF i <= 1 THEN <<h>>[i] ELSE r[i - 1]
      BY <1>2, <2>1, ConcatProperties
    <2> HIDE DEF g
    <2>3. \A k \in 1..R : k + 1 \in 1..(1 + R) /\ ~(k + 1 <= 1) /\ (k + 1) - 1 = k
      BY <1>1
    <2>4. \A k \in 1..R : g[k + 1] = r[k]
      BY <2>2, <2>3
    <2>5. 1 \in 1..(1 + R) /\ Len(g) = R + 1
      BY <1>1, <2>2
    <2>6. QED
      BY <2>1, <2>2, <2>4, <2>5
  <1> DEFINE v == [q.nodes[h] EXCEPT !.next = q.reserved]
             m == [q.nodes EXCEPT ![h] = v]
  <1>8. p = [nodes |-> m, head |-> IF E = 1 THEN 0 ELSE e[2],
             tail |-> IF E = 1 THEN 0 ELSE q.tail, reserved |-> h]
    <2>1. [q.nodes EXCEPT ![h].next = q.reserved] = m
      OBVIOUS
    <2> HIDE DEF h
    <2>2. QED
      BY <1>3, <1>5, <2>1 DEF queue_pop
  <1>9. v \in Node /\ v.next = q.reserved /\ v.object = q.nodes[h].object
    <2>1. q.nodes[h] \in Node
      BY <1>1, <1>4
    <2> HIDE DEF h
    <2>2. QED
      BY <1>1, <2>1 DEF Node
  <1> HIDE DEF v
  <1>10. m \in Seq(Node) /\ Len(m) = N /\ \A x \in 1..N : m[x] = IF x = h THEN v ELSE q.nodes[x]
    BY <1>1, <1>4, <1>9, ExceptSeq
  <1> HIDE DEF p, h, N, E, R, f, g, m
  <1>11. /\ p.nodes = m /\ p.head = (IF E = 1 THEN 0 ELSE e[2])
         /\ p.tail = (IF E = 1 THEN 0 ELSE q.tail) /\ p.reserved = h
    BY <1>8
  <1>12. p \in QueueType
    <2>1. E # 1 => 2 \in 1..E /\ e[2] \in 1..N
      <3>1. E # 1 => 2 \in 1..E
        BY <1>1, <1>4
      <3>2. QED
        BY <1>1, <3>1
    <2>2. (IF E = 1 THEN 0 ELSE e[2]) \in Nat /\ (IF E = 1 THEN 0 ELSE q.tail) \in Nat /\ h \in Nat
      BY <1>1, <1>4, <2>1
    <2>3. QED
      BY <1>8, <1>10, <2>2 DEF QueueType
  <1>13. \A k \in 1..Len(f) : f[k] # h /\ f[k] \in 1..N
    <2>1. ASSUME NEW k \in 1..Len(f) PROVE f[k] # h
      <3>1. k + 1 \in 1..E /\ f[k] = e[k + 1] /\ k + 1 # 1
        BY <1>6
      <3>2. QED
        BY <1>3, <1>4, <3>1 DEF h
    <2>2. QED
      BY <1>1, <1>6, <2>1
  <1>14. \A k \in 1..R : r[k] # h /\ r[k] \in 1..N
    BY <1>1, <1>3, <1>4 DEF h
  <1>15. IsChain(p, p.head, f)
    <2>1. p.head = IF Len(f) = 0 THEN 0 ELSE f[1]
      <3>1. CASE E = 1
        BY <1>6, <1>11, <3>1
      <3>2. CASE E # 1
        <4>1. 1 \in 1..Len(f) /\ Len(f) # 0
          BY <1>1, <1>4, <1>6, <3>2
        <4>2. f[1] = e[1 + 1]
          BY <1>6, <4>1
        <4>3. QED
          BY <1>11, <3>2, <4>1, <4>2
      <3>3. QED
        BY <3>1, <3>2
    <2>2. ASSUME NEW k \in 1..Len(f)
          PROVE  m[f[k]].next = IF k = Len(f) THEN 0 ELSE f[k + 1]
      <3>1. f[k] = e[k + 1] /\ k + 1 \in 1..E /\ m[f[k]] = q.nodes[f[k]]
        BY <1>6, <1>10, <1>13
      <3>2. q.nodes[e[k + 1]].next = IF k + 1 = E THEN 0 ELSE e[(k + 1) + 1]
        BY <1>3, <3>1
      <3>3. k + 1 = E <=> k = Len(f)
        BY <1>1, <1>6, <3>1
      <3>4. k # Len(f) => f[k + 1] = e[(k + 1) + 1]
        <4>1. k # Len(f) => k + 1 \in 1..Len(f)
          BY <1>1, <1>6
        <4>2. QED
          BY <1>6, <4>1
      <3>5. QED
        BY <3>1, <3>2, <3>3, <3>4
    <2>3. ASSUME NEW k \in 1..Len(f), NEW l \in 1..Len(f), f[k] = f[l] PROVE k = l
      <3>1. k + 1 = l + 1
        BY <1>3, <1>6, <2>3
      <3>2. k \in Int /\ l \in Int
        OBVIOUS
      <3>3. QED
        BY <3>1, <3>2
    <2>4. QED
      BY <1>6, <1>10, <1>11, <2>1, <2>2, <2>3 DEF IsChain
  <1>16. IsChain(p, p.reserved, g)
    <2>1. p.reserved = IF Len(g) = 0 THEN 0 ELSE g[1]
      BY <1>1, <1>7, <1>11
    <2>2. ASSUME NEW k \in 1..Len(g)
          PROVE  m[g[k]].next = IF k = Len(g) THEN 0 ELSE g[k + 1]
      <3>1. CASE k = 1
        <4>1. m[g[k]].next = q.reserved
          BY <1>4, <1>7, <1>9, <1>10, <3>1
        <4>2. R # 0 => 1 \in 1..R
          BY <1>1
        <4>3. QED
          BY <1>1, <1>3, <1>7, <3>1, <4>1, <4>2
      <3>2. CASE k # 1
        <4>1. PICK j \in 1..R : k = j + 1
          <5>1. k - 1 \in 1..R /\ k = (k - 1) + 1
            BY <1>1, <1>7, <3>2
          <5>2. QED
            BY <5>1
        <4>2. g[k] = r[j] /\ m[g[k]] = q.nodes[r[j]]
          BY <1>7, <1>10, <1>14, <4>1
        <4>3. q.nodes[r[j]].next = IF j = R THEN 0 ELSE r[j + 1]
          BY <1>3
        <4>4. j = R <=> k = Len(g)
          BY <1>1, <1>7, <4>1
        <4>5. j # R => g[k + 1] = r[j + 1]
          <5>1. j # R => j + 1 \in 1..R
            BY <1>1
          <5>2. QED
            BY <1>7, <4>1, <5>1
        <4>6. QED
          BY <4>2, <4>3, <4>4, <4>5
      <3>3. QED
        BY <3>1, <3>2
    <2>3. ASSUME NEW k \in 1..Len(g), NEW l \in 1..Len(g), g[k] = g[l] PROVE k = l
      <3>1. \A i \in 1..Len(g) : i = 1 \/ (i - 1 \in 1..R /\ g[i] = r[i - 1])
        <4>1. \A i \in 1..Len(g) : i = 1 \/ (i - 1 \in 1..R /\ i = (i - 1) + 1)
          BY <1>1, <1>7
        <4>2. QED
          BY <1>7, <4>1
      <3>2. CASE k = 1 \/ l = 1
        BY <1>7, <1>14, <2>3, <3>1, <3>2
      <3>3. CASE k # 1 /\ l # 1
        <4>1. k - 1 = l - 1
          BY <1>3, <2>3, <3>1, <3>3
        <4>2. k \in Int /\ l \in Int
          OBVIOUS
        <4>3. QED
          BY <4>1, <4>2
      <3>4. QED
        BY <3>2, <3>3
    <2>4. QED
      BY <1>7, <1>10, <1>11, <2>1, <2>2, <2>3 DEF IsChain
  <1>17. ASSUME NEW k \in 1..Len(f), NEW l \in 1..Len(g) PROVE f[k] # g[l]
    <2>1. CASE l = 1
      BY <1>7, <1>13, <2>1
    <2>2. CASE l # 1
      <3>1. l - 1 \in 1..R /\ l = (l - 1) + 1
        BY <1>1, <1>7, <2>2
      <3>2. g[l] = r[l - 1]
        BY <1>7, <3>1
      <3>3. QED
        BY <1>3, <1>6, <3>1, <3>2
    <2>3. QED
      BY <2>1, <2>2
  <1>18. p.tail = IF Len(f) = 0 THEN 0 ELSE f[Len(f)]
    <2>1. CASE E = 1
      BY <1>6, <1>11, <2>1
    <2>2. CASE E # 1
      <3>1. Len(f) \in 1..Len(f) /\ Len(f) + 1 = E /\ Len(f) # 0
        BY <1>1, <1>4, <1>6, <2>2
      <3>2. f[Len(f)] = e[E]
        BY <1>6, <3>1
      <3>3. QED
        BY <1>3, <1>11, <2>2, <3>1, <3>2
    <2>3. QED
      BY <2>1, <2>2
  <1>19. Chains(p, f, g)
    BY <1>12, <1>15, <1>16, <1>17, <1>18 DEF Chains
  <1>20. Enqueued(p) = Tail(Enqueued(q))
    <2>1. /\ Enqueued(q) = [k \in 1..E |-> q.nodes[e[k]].object]
          /\ Enqueued(q) \in Seq(Packet) /\ Len(Enqueued(q)) = E
      BY EnqueuedChain DEF E
    <2>2. /\ Enqueued(p) = [k \in 1..Len(f) |-> m[f[k]].object]
          /\ Enqueued(p) \in Seq(Packet) /\ Len(Enqueued(p)) = Len(f)
      BY <1>11, <1>19, EnqueuedChain
    <2>3. Enqueued(q) # << >>
      BY <1>4, <2>1, EmptySeq
    <2> DEFINE t == Tail(Enqueued(q))
    <2>4. /\ t \in Seq(Packet) /\ Len(t) = E - 1
          /\ \A k \in 1..Len(t) : t[k] = Enqueued(q)[k + 1]
      BY <2>1, <2>3, HeadTailProperties
    <2> HIDE DEF t
    <2>5. ASSUME NEW k \in 1..Len(f) PROVE Enqueued(p)[k] = t[k]
      <3>1. f[k] = e[k + 1] /\ k + 1 \in 1..E /\ m[f[k]] = q.nodes[f[k]]
        BY <1>6, <1>10, <1>13
      <3>2. Enqueued(p)[k] = q.nodes[e[k + 1]].object
        BY <2>2, <3>1
      <3>3. Enqueued(q)[k + 1] = q.nodes[e[k + 1]].object
        BY <2>1, <3>1
      <3>4. QED
        BY <1>6, <2>4, <3>2, <3>3
    <2>6. Enqueued(p) = t
      BY <1>6, <2>2, <2>4, <2>5, SeqEqual
    <2>7. QED
      BY <2>6 DEF t
  <1>21. QED
    BY <1>19, <1>20 DEF p, f, g, h

\* The states a queue can be in, and what its operations do to what is
\* enqueued: queue.c is first in, first out.
IsQueue(q) == \E e, r : Chains(q, e, r)

LEMMA QueueCreate == IsQueue(queue_create) /\ Enqueued(queue_create) = << >>
  <1>1. Chains(queue_create, << >>, << >>)
    BY CreateChains
  <1>2. Enqueued(queue_create) \in Seq(Packet) /\ Len(Enqueued(queue_create)) = Len(<< >>)
    BY <1>1, EnqueuedChain
  <1>3. QED
    BY <1>1, <1>2, EmptySeq DEF IsQueue

LEMMA QueueEnqueued ==
  ASSUME NEW q, IsQueue(q)
  PROVE  /\ Enqueued(q) \in Seq(Packet)
         /\ queue_is_empty(q) <=> Enqueued(q) = << >>
  <1>1. PICK e, r : Chains(q, e, r)
    BY DEF IsQueue
  <1>2. /\ Enqueued(q) \in Seq(Packet) /\ Len(Enqueued(q)) = Len(e)
        /\ queue_is_empty(q) <=> Len(e) = 0
    BY <1>1, EnqueuedChain
  <1>3. QED
    BY <1>2, EmptySeq

LEMMA QueuePush ==
  ASSUME NEW q, IsQueue(q), NEW o \in Packet
  PROVE  IsQueue(queue_push(q, o)) /\ Enqueued(queue_push(q, o)) = Append(Enqueued(q), o)
  <1>1. PICK e, r : Chains(q, e, r)
    BY DEF IsQueue
  <1>2. Chains(queue_push(q, o), Append(e, PushNode(q)), IF q.reserved # 0 THEN Tail(r) ELSE r)
    BY <1>1, PushChains
  <1>3. Enqueued(queue_push(q, o)) = Append(Enqueued(q), o)
    BY <1>1, PushEnqueues
  <1>4. QED
    BY <1>2, <1>3 DEF IsQueue

LEMMA QueuePop ==
  ASSUME NEW q, IsQueue(q), ~queue_is_empty(q)
  PROVE  /\ IsQueue(queue_pop(q)) /\ Enqueued(q) # << >>
         /\ Popped(q) = Head(Enqueued(q)) /\ Enqueued(queue_pop(q)) = Tail(Enqueued(q))
  <1>1. PICK e, r : Chains(q, e, r)
    BY DEF IsQueue
  <1>2. Len(e) # 0 /\ Popped(q) = Enqueued(q)[1]
    BY <1>1, EnqueuedChain
  <1>3. Chains(queue_pop(q), Tail(e), <<e[1]>> \o r) /\ Enqueued(queue_pop(q)) = Tail(Enqueued(q))
    BY <1>1, <1>2, PopChains
  <1>4. Enqueued(q) \in Seq(Packet) /\ Enqueued(q) # << >>
    BY QueueEnqueued
  <1> DEFINE w == Enqueued(q)
  <1> HIDE DEF w
  <1>5. Head(w) = w[1]
    BY <1>4 DEF w
  <1>6. QED
    BY <1>2, <1>3, <1>4, <1>5 DEF IsQueue, w

-----------------------------------------------------------------------------
(* How often a packet waits *)

LEMMA OccurrencesAppend ==
  ASSUME NEW s \in Seq(Packet), NEW o \in Packet, NEW p
  PROVE  /\ Occurrences(p, s) \in Nat
         /\ Occurrences(p, Append(s, o)) = Occurrences(p, s) + (IF o = p THEN 1 ELSE 0)
  <1> DEFINE n == Len(s)
             S == {i \in 1..n : s[i] = p}
             t == Append(s, o)
             T == {i \in 1..(n + 1) : t[i] = p}
  <1>1. n \in Nat /\ DOMAIN s = 1..n
    BY LenProperties
  <1>2. t \in Seq(Packet) /\ Len(t) = n + 1 /\ t[n + 1] = o /\ \A i \in 1..n : t[i] = s[i]
    BY AppendProperties
  <1>3. DOMAIN t = 1..(n + 1)
    BY <1>2, LenProperties
  <1>4. Occurrences(p, s) = Cardinality(S) /\ Occurrences(p, t) = Cardinality(T)
    BY <1>1, <1>3 DEF Occurrences
  <1> HIDE DEF n, t
  <1>5. IsFiniteSet(S) /\ Cardinality(S) \in Nat /\ n + 1 \notin S
    <2>1. IsFiniteSet(1..n) /\ S \in SUBSET (1..n) /\ n + 1 \notin 1..n
      BY <1>1, CountTo
    <2>2. QED
      BY <2>1, FS_Subset, FS_CardinalityType
  <1>6. T = IF o = p THEN S \cup {n + 1} ELSE S
    <2>1. \A i : i \in 1..(n + 1) <=> (i \in 1..n \/ i = n + 1)
      BY <1>1
    <2>2. QED
      BY <1>2, <2>1
  <1> HIDE DEF S, T
  <1>7. Cardinality(T) = Cardinality(S) + (IF o = p THEN 1 ELSE 0)
    <2>1. CASE o = p
      <3>1. T = S \cup {n + 1}
        BY <1>6, <2>1
      <3>2. Cardinality(T) = Cardinality(S) + 1
        BY <1>5, <3>1, FS_AddElement
      <3>3. QED
        BY <2>1, <3>2
    <2>2. CASE o # p
      BY <1>5, <1>6, <2>2
    <2>3. QED
      BY <2>1, <2>2
  <1>8. QED
    BY <1>4, <1>5, <1>7 DEF t

LEMMA OccurrencesTail ==
  ASSUME NEW s \in Seq(Packet), s # << >>, NEW p
  PROVE  /\ Occurrences(p, Tail(s)) \in Nat
         /\ Occurrences(p, s) = Occurrences(p, Tail(s)) + (IF Head(s) = p THEN 1 ELSE 0)
  <1> DEFINE n == Len(s)
             S == {i \in 1..n : s[i] = p}
             t == Tail(s)
             T == {i \in 1..(n - 1) : t[i] = p}
             U == {i \in 2..n : s[i] = p}
  <1>1. n \in Nat /\ DOMAIN s = 1..n /\ n # 0
    BY LenProperties
  <1>2. t \in Seq(Packet) /\ Len(t) = n - 1 /\ \A i \in 1..(n - 1) : t[i] = s[i + 1]
    BY HeadTailProperties
  <1>3. DOMAIN t = 1..(n - 1)
    BY <1>2, LenProperties
  <1>4. Occurrences(p, s) = Cardinality(S) /\ Occurrences(p, t) = Cardinality(T)
    BY <1>1, <1>3 DEF Occurrences
  <1>5. Head(s) = s[1]
    OBVIOUS
  <1> HIDE DEF n, t
  <1>6. IsFiniteSet(T) /\ Cardinality(T) \in Nat
    <2>1. n - 1 \in Nat
      BY <1>1
    <2>2. IsFiniteSet(1..(n - 1)) /\ T \in SUBSET (1..(n - 1))
      BY <2>1, CountTo
    <2>3. QED
      BY <2>2, FS_Subset, FS_CardinalityType
  <1>7. ExistsBijection(T, U)
    <2> DEFINE b == [i \in T |-> i + 1]
    <2>1. \A i \in T : i + 1 \in U
      BY <1>1, <1>2
    <2>2. \A i \in U : i - 1 \in T /\ (i - 1) + 1 = i
      BY <1>1, <1>2
    <2>3. T \subseteq Int
      OBVIOUS
    <2> HIDE DEF T, U
    <2>4. b \in [T -> U] /\ \A i \in T : b[i] = i + 1
      BY <2>1
    <2>5. \A i, j \in T : b[i] = b[j] => i = j
      BY <2>3, <2>4
    <2>6. \A u \in U : \E i \in T : b[i] = u
      BY <2>2, <2>4
    <2> HIDE DEF b
    <2>7. b \in Injection(T, U) /\ b \in Surjection(T, U)
      BY <2>4, <2>5, <2>6 DEF Injection, Surjection, IsInjective
    <2>8. QED
      BY <2>7 DEF ExistsBijection, Bijection
  <1>8. IsFiniteSet(U) /\ Cardinality(U) = Cardinality(T)
    BY <1>6, <1>7, FS_Bijection
  <1>9. S = (IF Head(s) = p THEN U \cup {1} ELSE U) /\ 1 \notin U
    <2>1. \A i : i \in 1..n <=> (i \in 2..n \/ i = 1)
      BY <1>1
    <2>2. 1 \notin 2..n
      OBVIOUS
    <2>3. QED
      BY <1>5, <2>1, <2>2
  <1> HIDE DEF S, T, U
  <1>10. Cardinality(S) = Cardinality(U) + (IF Head(s) = p THEN 1 ELSE 0)
    <2>1. CASE Head(s) = p
      <3>1. S = U \cup {1} /\ 1 \notin U
        BY <1>9, <2>1
      <3>2. Cardinality(S) = Cardinality(U) + 1
        BY <1>8, <3>1, FS_AddElement
      <3>3. QED
        BY <2>1, <3>2
    <2>2. CASE Head(s) # p
      BY <1>6, <1>8, <1>9, <2>2
    <2>3. QED
      BY <2>1, <2>2
  <1>11. QED
    BY <1>4, <1>6, <1>8, <1>10 DEF t

-----------------------------------------------------------------------------
(* The socket *)

Waiting == Enqueued(pendingPackets)

\* The close count is down by one for every cancel handler that has run.
CloseCounted ==
  closeCount = 2 - (IF "read" \in handled THEN 1 ELSE 0) - (IF "write" \in handled THEN 1 ELSE 0)

\* What was sent is written, pending or still in a block, in this order.
SentInOrder == sent = written \o (Waiting \o blocks)

StructureInv ==
  /\ TypeOK /\ IsQueue(pendingPackets) /\ IsFiniteSet(deliveries) /\ CloseCounted

SocketInv == StructureInv /\ PacketsAccounted /\ SentInOrder

LEMMA StructureTypes ==
  ASSUME StructureInv
  PROVE  /\ blocks \in Seq(Packet) /\ Waiting \in Seq(Packet)
         /\ sent \in Seq(Packet) /\ written \in Seq(Packet)
  BY DEF StructureInv, TypeOK, Waiting

\* What the queue's two actions do to the packets that wait
LEMMA RunSendEffect ==
  ASSUME StructureInv, RunSend
  PROVE  /\ Head(blocks) \in Packet /\ blocks # << >>
         /\ blocks' = Tail(blocks) /\ blocks' \in Seq(Packet)
         /\ Waiting' = Append(Waiting, Head(blocks)) /\ Waiting' \in Seq(Packet)
         /\ IsQueue(pendingPackets')
  <1>1. /\ blocks # << >> /\ blocks' = Tail(blocks)
        /\ pendingPackets' = queue_push(pendingPackets, Head(blocks))
    BY DEF RunSend
  <1>2. Head(blocks) \in Packet /\ Tail(blocks) \in Seq(Packet)
    BY <1>1, StructureTypes, HeadTailProperties
  <1>3. IsQueue(pendingPackets)
    BY DEF StructureInv
  <1>4. IsQueue(pendingPackets') /\ Waiting' = Append(Waiting, Head(blocks))
    BY <1>1, <1>2, <1>3, QueuePush DEF Waiting
  <1>5. Waiting' \in Seq(Packet)
    BY <1>4, QueueEnqueued DEF Waiting
  <1>6. QED
    BY <1>1, <1>2, <1>4, <1>5

LEMMA WriteNextEffect ==
  ASSUME StructureInv, WriteNext
  PROVE  /\ Waiting # << >> /\ Head(Waiting) \in Packet
         /\ Waiting' = Tail(Waiting) /\ Waiting' \in Seq(Packet)
         /\ written' = Append(written, Head(Waiting)) /\ written' \in Seq(Packet)
         /\ retainCount' = [retainCount EXCEPT ![Head(Waiting)] = @ - 1]
         /\ IsQueue(pendingPackets')
  <1>1. /\ ~queue_is_empty(pendingPackets)
        /\ written' = Append(written, Popped(pendingPackets))
        /\ retainCount' = [retainCount EXCEPT ![Popped(pendingPackets)] = @ - 1]
        /\ pendingPackets' = queue_pop(pendingPackets)
    BY DEF WriteNext
  <1>2. IsQueue(pendingPackets)
    BY DEF StructureInv
  <1>3. /\ IsQueue(pendingPackets') /\ Waiting # << >>
        /\ Popped(pendingPackets) = Head(Waiting) /\ Waiting' = Tail(Waiting)
    BY <1>1, <1>2, QueuePop DEF Waiting
  <1>4. Head(Waiting) \in Packet /\ Tail(Waiting) \in Seq(Packet)
    BY <1>3, StructureTypes, HeadTailProperties
  <1>5. Append(written, Head(Waiting)) \in Seq(Packet)
    BY <1>4, StructureTypes, AppendProperties
  <1>6. QED
    BY <1>1, <1>3, <1>4, <1>5

LEMMA InitStructure == Init => StructureInv
  <1> SUFFICES ASSUME Init PROVE StructureInv
    OBVIOUS
  <1>1. IsQueue(pendingPackets) /\ Waiting = << >>
    BY QueueCreate DEF Init, Waiting
  <1>2. << >> \in Seq(Packet)
    BY EmptySeq
  <1>3. IsFiniteSet(deliveries)
    BY FS_EmptySet DEF Init
  <1>4. closeCount = 2 /\ handled = {}
    BY DEF Init, SourceCount
  <1>5. TypeOK
    <2>1. \A t \in {blocks, Enqueued(pendingPackets), sent, written} : t \in Seq(Packet)
      BY <1>1, <1>2 DEF Init, Waiting
    <2>2. retainCount \in [Packet -> Int] /\ installs \in 0..MaxInstalls /\ reads \in 0..MaxReads
      BY SocketAssumption DEF Init
    <2>3. closeCount \in 0..2
      BY <1>4
    <2>4. /\ owned \in SUBSET Packet /\ lost \in SUBSET Packet
          /\ deliveries \in SUBSET [packet : Packet, to : {"callback", "block"}]
          /\ cancelled \in SUBSET {"read", "write"} /\ handled \in SUBSET {"read", "write"}
      BY DEF Init
    <2>5. /\ receiveCallback \in BOOLEAN /\ receiveBlock \in BOOLEAN
          /\ writing \in BOOLEAN /\ isSending \in BOOLEAN
      BY DEF Init
    <2>6. /\ suspended \in Int
          /\ destroy \in {"open", "failed", "test", "resume", "cancel", "done"}
      BY DEF Init
    <2>7. QED
      BY <2>1, <2>2, <2>3, <2>4, <2>5, <2>6 DEF TypeOK
  <1>6. QED
    BY <1>1, <1>3, <1>4, <1>5 DEF StructureInv, CloseCounted

LEMMA NextStructure ==
  ASSUME StructureInv, [Next]_vars
  PROVE  StructureInv'
  <1>1. /\ TypeOK /\ IsQueue(pendingPackets) /\ IsFiniteSet(deliveries) /\ CloseCounted
    BY DEF StructureInv
  <1>2. /\ blocks \in Seq(Packet) /\ Waiting \in Seq(Packet)
        /\ sent \in Seq(Packet) /\ written \in Seq(Packet)
    BY StructureTypes
  <1> DEFINE SendTypes == /\ blocks \in Seq(Packet) /\ Waiting \in Seq(Packet)
                          /\ sent \in Seq(Packet) /\ written \in Seq(Packet)
                          /\ IsQueue(pendingPackets)
             Rest == /\ retainCount \in [Packet -> Int]
                     /\ owned \in SUBSET Packet /\ lost \in SUBSET Packet
                     /\ deliveries \in SUBSET [packet : Packet, to : {"callback", "block"}]
                     /\ receiveCallback \in BOOLEAN /\ receiveBlock \in BOOLEAN
                     /\ installs \in 0..MaxInstalls
                     /\ writing \in BOOLEAN /\ isSending \in BOOLEAN /\ suspended \in Int
                     /\ destroy \in {"open", "failed", "test", "resume", "cancel", "done"}
                     /\ cancelled \in SUBSET {"read", "write"}
                     /\ handled \in SUBSET {"read", "write"}
                     /\ closeCount \in 0..2
                     /\ reads \in 0..MaxReads
                     /\ IsFiniteSet(deliveries) /\ CloseCounted
  <1>3. Rest /\ SendTypes
    BY <1>1, <1>2 DEF TypeOK
  <1>4. Rest' /\ SendTypes' => StructureInv'
    BY DEF TypeOK, StructureInv, Waiting
  <1>5. UNCHANGED vars => Rest' /\ SendTypes'
    BY <1>3 DEF vars, pool, receiver, sending, closing, CloseCounted, Waiting
  <1>6. ASSUME NEW p \in Packet, net_packet_alloc(p) \/ net_packet_release(p)
        PROVE  Rest' /\ SendTypes'
    <2>1. UNCHANGED <<lost, deliveries, receiver, sending, closing, reads>>
      BY <1>6 DEF net_packet_alloc, net_packet_release
    <2>2. owned' \in SUBSET Packet
      BY <1>3, <1>6 DEF net_packet_alloc, net_packet_release
    <2>3. retainCount' \in [Packet -> Int]
      BY <1>3, <1>6 DEF net_packet_alloc, net_packet_release
    <2>4. QED
      BY <1>3, <2>1, <2>2, <2>3 DEF receiver, sending, closing, CloseCounted, Waiting
  <1>7. ASSUME NEW p \in Packet, net_socket_send(p) PROVE Rest' /\ SendTypes'
    <2>1. Append(blocks, p) \in Seq(Packet) /\ Append(sent, p) \in Seq(Packet)
      BY <1>2, AppendProperties
    <2>2. QED
      BY <1>3, <1>7, <2>1 DEF net_socket_send, pool, receiver, closing, CloseCounted, Waiting
  <1>8. ASSUME NEW p \in Packet, NEW d \in Datagram, ReadHandler(p, d)
        PROVE  Rest' /\ SendTypes'
    <2>1. \A to \in {"callback", "block"} :
            IsFiniteSet(deliveries \cup {[packet |-> p, to |-> to]})
      BY <1>1, FS_AddElement
    <2>2. SendTypes'
      BY <1>3, <1>8 DEF ReadHandler, sending, Waiting
    <2>3. IsFiniteSet(deliveries')
      BY <1>3, <1>8, <2>1 DEF ReadHandler
    <2>4. deliveries' \in SUBSET [packet : Packet, to : {"callback", "block"}]
      BY <1>3, <1>8 DEF ReadHandler
    <2>5. retainCount' \in [Packet -> Int] /\ lost' \in SUBSET Packet /\ reads' \in 0..MaxReads
      BY <1>3, <1>8, SocketAssumption DEF ReadHandler
    <2>6. UNCHANGED <<owned, receiver, sending, closing>>
      BY <1>8 DEF ReadHandler
    <2>7. QED
      BY <1>3, <2>2, <2>3, <2>4, <2>5, <2>6 DEF receiver, sending, closing, CloseCounted
  <1>9. ASSUME NEW d \in deliveries, Deliver(d) PROVE Rest' /\ SendTypes'
    <2>1. IsFiniteSet(deliveries \ {d})
      BY <1>1, FS_RemoveElement
    <2>2. QED
      BY <1>3, <1>9, <2>1 DEF Deliver, receiver, sending, closing, CloseCounted, Waiting
  <1>10. ASSUME \/ net_socket_set_receive_callback \/ net_socket_set_receive_block
                \/ net_socket_set_info
         PROVE  Rest' /\ SendTypes'
    <2>1. UNCHANGED <<pool, deliveries, sending, closing, reads>>
      BY <1>10 DEF net_socket_set_receive_callback, net_socket_set_receive_block,
                   net_socket_set_info
    <2>2. receiveCallback' \in BOOLEAN /\ receiveBlock' \in BOOLEAN
      BY <1>3, <1>10 DEF net_socket_set_receive_callback, net_socket_set_receive_block,
                         net_socket_set_info
    <2>3. installs' \in 0..MaxInstalls
      BY <1>3, <1>10, SocketAssumption
      DEF net_socket_set_receive_callback, net_socket_set_receive_block, net_socket_set_info
    <2>4. QED
      BY <1>3, <2>1, <2>2, <2>3 DEF pool, sending, closing, CloseCounted, Waiting
  <1>11. ASSUME Destroy PROVE Rest' /\ SendTypes'
    <2>1. UNCHANGED <<pool, deliveries, receiver, blocks, pendingPackets, writing, sent, written,
                      closeCount, handled, reads>>
      BY <1>11 DEF Destroy, DestroyRead, DestroyTest, DestroyResume, DestroyWrite, sending
    <2>2. /\ destroy' \in {"open", "failed", "test", "resume", "cancel", "done"}
          /\ cancelled' \in SUBSET {"read", "write"}
      BY <1>3, <1>11 DEF Destroy, DestroyRead, DestroyTest, DestroyResume, DestroyWrite
    <2>3. isSending' \in BOOLEAN
      BY <1>3, <1>11 DEF Destroy, DestroyRead, DestroyTest, DestroyResume, DestroyWrite, sending
    <2>4. suspended' \in Int
      BY <1>3, <1>11 DEF Destroy, DestroyRead, DestroyTest, DestroyResume, DestroyWrite, sending
    <2>5. QED
      BY <1>3, <2>1, <2>2, <2>3, <2>4 DEF pool, receiver, CloseCounted, Waiting
  <1>12. ASSUME RunSend PROVE Rest' /\ SendTypes'
    <2>1. blocks' \in Seq(Packet) /\ Waiting' \in Seq(Packet) /\ IsQueue(pendingPackets')
      BY <1>12, RunSendEffect
    <2>2. UNCHANGED <<pool, deliveries, receiver, writing, sent, written, closing, reads>>
      BY <1>12 DEF RunSend
    <2>3. isSending' \in BOOLEAN
      BY <1>3, <1>12 DEF RunSend, net_socket_resume_write
    <2>4. suspended' \in Int
      BY <1>3, <1>12 DEF RunSend, net_socket_resume_write
    <2>5. QED
      BY <1>3, <2>1, <2>2, <2>3, <2>4 DEF pool, receiver, closing, CloseCounted
  <1>13. ASSUME WriteBegin \/ WriteEnd PROVE Rest' /\ SendTypes'
    <2>1. UNCHANGED <<pool, deliveries, receiver, blocks, pendingPackets, sent, written, closing,
                      reads>>
      BY <1>13 DEF WriteBegin, WriteEnd
    <2>2. writing' \in BOOLEAN /\ isSending' \in BOOLEAN
      BY <1>3, <1>13 DEF WriteBegin, WriteEnd, net_socket_suspend_write
    <2>3. suspended' \in Int
      BY <1>3, <1>13 DEF WriteBegin, WriteEnd, net_socket_suspend_write
    <2>4. QED
      BY <1>3, <2>1, <2>2, <2>3 DEF pool, receiver, closing, CloseCounted, Waiting
  <1>14. ASSUME WriteNext PROVE Rest' /\ SendTypes'
    <2>1. /\ Head(Waiting) \in Packet /\ Waiting' \in Seq(Packet) /\ written' \in Seq(Packet)
          /\ retainCount' = [retainCount EXCEPT ![Head(Waiting)] = @ - 1]
          /\ IsQueue(pendingPackets')
      BY <1>14, WriteNextEffect
    <2>2. UNCHANGED <<owned, lost, deliveries, receiver, blocks, writing, isSending, suspended,
                      sent, closing, reads>>
      BY <1>14 DEF WriteNext
    <2>3. retainCount' \in [Packet -> Int]
      BY <1>3, <2>1
    <2>4. QED
      BY <1>3, <2>1, <2>2, <2>3 DEF receiver, closing, CloseCounted
  <1>15. ASSUME NEW source \in {"read", "write"}, CancelHandler(source)
         PROVE  Rest' /\ SendTypes'
    <2>1. /\ source \notin handled /\ handled' = handled \cup {source}
          /\ closeCount' = closeCount - 1
          /\ UNCHANGED <<pool, deliveries, receiver, sending, destroy, cancelled, reads>>
      BY <1>15 DEF CancelHandler
    <2>2. CloseCounted' /\ closeCount' \in 0..2
      BY <1>3, <2>1 DEF CloseCounted
    <2>3. QED
      BY <1>3, <2>1, <2>2 DEF pool, receiver, sending, Waiting
  <1>16. QED
    BY <1>4, <1>5, <1>6, <1>7, <1>8, <1>9, <1>10, <1>11, <1>12, <1>13, <1>14, <1>15
    DEF Next, WriteHandler

-----------------------------------------------------------------------------
(* Order *)

\* Moving the head of one sequence to the end of another keeps them in order.
LEMMA MoveHead ==
  ASSUME NEW S, NEW s \in Seq(S), NEW t \in Seq(S), t # << >>
  PROVE  Append(s, Head(t)) \o Tail(t) = s \o t
  <1> DEFINE a == Append(s, Head(t))
             u == Tail(t)
  <1>1. Head(t) \in S /\ u \in Seq(S) /\ Len(u) = Len(t) - 1
        /\ \A i \in 1..Len(u) : u[i] = t[i + 1]
    BY HeadTailProperties
  <1>2. /\ a \in Seq(S) /\ Len(a) = Len(s) + 1 /\ a[Len(s) + 1] = Head(t)
        /\ \A i \in 1..Len(s) : a[i] = s[i]
    BY <1>1, AppendProperties
  <1>3. Len(s) \in Nat /\ Len(t) \in Nat /\ Len(t) # 0 /\ Head(t) = t[1]
    BY LenProperties
  <1> HIDE DEF a, u
  <1>4. /\ a \o u \in Seq(S) /\ Len(a \o u) = Len(a) + Len(u)
        /\ \A i \in 1..(Len(a) + Len(u)) :
             (a \o u)[i] = IF i <= Len(a) THEN a[i] ELSE u[i - Len(a)]
    BY <1>1, <1>2, ConcatProperties
  <1>5. /\ s \o t \in Seq(S) /\ Len(s \o t) = Len(s) + Len(t)
        /\ \A i \in 1..(Len(s) + Len(t)) :
             (s \o t)[i] = IF i <= Len(s) THEN s[i] ELSE t[i - Len(s)]
    BY ConcatProperties
  <1>6. Len(a) + Len(u) = Len(s) + Len(t)
    BY <1>1, <1>2, <1>3
  <1>7. ASSUME NEW i \in 1..(Len(s) + Len(t)) PROVE (a \o u)[i] = (s \o t)[i]
    <2>1. CASE i <= Len(s)
      BY <1>2, <1>3, <1>4, <1>5, <1>6, <2>1
    <2>2. CASE i = Len(s) + 1
      <3>1. i - Len(s) = 1 /\ ~(i <= Len(s)) /\ i <= Len(a)
        BY <1>2, <1>3, <2>2
      <3>2. QED
        BY <1>2, <1>3, <1>4, <1>5, <1>6, <2>2, <3>1
    <2>3. CASE i > Len(s) + 1
      <3>1. /\ ~(i <= Len(s)) /\ ~(i <= Len(a))
            /\ i - Len(a) \in 1..Len(u) /\ (i - Len(a)) + 1 = i - Len(s)
        BY <1>1, <1>2, <1>3, <2>3
      <3>2. u[i - Len(a)] = t[i - Len(s)]
        BY <1>1, <3>1
      <3>3. QED
        BY <1>4, <1>5, <1>6, <3>1, <3>2
    <2>4. i <= Len(s) \/ i = Len(s) + 1 \/ i > Len(s) + 1
      BY <1>3
    <2>5. QED
      BY <2>1, <2>2, <2>3, <2>4
  <1>8. a \o u = s \o t
    BY <1>4, <1>5, <1>6, <1>7, SeqEqual
  <1>9. QED
    BY <1>8 DEF a, u

LEMMA ConcatPackets ==
  ASSUME NEW s \in Seq(Packet), NEW t \in Seq(Packet), NEW u \in Seq(Packet)
  PROVE  s \o (t \o u) = (s \o t) \o u
  BY ConcatAssociative

LEMMA MoveHeadOn ==
  ASSUME NEW s \in Seq(Packet), NEW t \in Seq(Packet), t # << >>, NEW u \in Seq(Packet)
  PROVE  Append(s, Head(t)) \o (Tail(t) \o u) = s \o (t \o u)
  <1> DEFINE a == Append(s, Head(t))
             v == Tail(t)
  <1>1. a \in Seq(Packet) /\ v \in Seq(Packet)
    BY HeadTailProperties, AppendProperties
  <1>2. a \o v = s \o t
    BY MoveHead
  <1> HIDE DEF a, v
  <1>3. \A x, y, z \in Seq(Packet) : (x \o y) \o z = x \o (y \o z)
    BY ConcatPackets
  <1>4. a \o (v \o u) = (a \o v) \o u /\ s \o (t \o u) = (s \o t) \o u
    BY <1>1, <1>3, Zenon
  <1>5. a \o (v \o u) = s \o (t \o u)
    BY <1>2, <1>3, <1>4
  <1>6. QED
    BY <1>5 DEF a, v

LEMMA ConcatAppend ==
  ASSUME NEW s \in Seq(Packet), NEW t \in Seq(Packet), NEW x \in Packet
  PROVE  Append(s \o t, x) = s \o Append(t, x)
  <1>1. s \o t \in Seq(Packet) /\ <<x>> \in Seq(Packet)
    BY ConcatProperties
  <1>2. Append(s \o t, x) = (s \o t) \o <<x>> /\ Append(t, x) = t \o <<x>>
    BY <1>1, AppendIsConcat
  <1>3. QED
    BY <1>1, <1>2, ConcatAssociative

LEMMA NextSentInOrder ==
  ASSUME StructureInv, SentInOrder, [Next]_vars
  PROVE  SentInOrder'
  <1>1. /\ blocks \in Seq(Packet) /\ Waiting \in Seq(Packet)
        /\ sent \in Seq(Packet) /\ written \in Seq(Packet)
    BY StructureTypes
  <1>2. Waiting \o blocks \in Seq(Packet)
    BY <1>1, ConcatProperties
  <1>3. UNCHANGED <<sent, written, pendingPackets, blocks>> => SentInOrder'
    BY DEF SentInOrder, Waiting
  <1>4. ASSUME NEW p \in Packet, net_socket_send(p) PROVE SentInOrder'
    <2>1. /\ sent' = Append(sent, p) /\ blocks' = Append(blocks, p)
          /\ UNCHANGED <<written, Waiting>>
      BY <1>4 DEF net_socket_send, Waiting
    <2>2. Append(Waiting \o blocks, p) = Waiting \o Append(blocks, p)
      BY <1>1, ConcatAppend
    <2>3. Append(written \o (Waiting \o blocks), p) = written \o Append(Waiting \o blocks, p)
      BY <1>1, <1>2, ConcatAppend
    <2>4. QED
      BY <2>1, <2>2, <2>3 DEF SentInOrder
  <1>5. ASSUME RunSend PROVE SentInOrder'
    <2>1. /\ Waiting' = Append(Waiting, Head(blocks)) /\ blocks' = Tail(blocks)
          /\ blocks # << >>
      BY <1>5, RunSendEffect
    <2>2. Append(Waiting, Head(blocks)) \o Tail(blocks) = Waiting \o blocks
      BY <1>1, <2>1, MoveHead
    <2>3. UNCHANGED <<sent, written>>
      BY <1>5 DEF RunSend
    <2>4. QED
      BY <2>1, <2>2, <2>3 DEF SentInOrder
  <1>6. ASSUME WriteNext PROVE SentInOrder'
    <2>1. /\ Waiting # << >> /\ Head(Waiting) \in Packet
          /\ Waiting' = Tail(Waiting) /\ Waiting' \in Seq(Packet)
          /\ written' = Append(written, Head(Waiting)) /\ written' \in Seq(Packet)
      BY <1>6, WriteNextEffect
    <2>2. UNCHANGED <<sent, blocks>>
      BY <1>6 DEF WriteNext
    <2>3. Append(written, Head(Waiting)) \o (Tail(Waiting) \o blocks)
            = written \o (Waiting \o blocks)
      BY <1>1, <2>1, MoveHeadOn
    <2>4. QED
      BY <2>1, <2>2, <2>3 DEF SentInOrder
  <1>7. QED
    BY <1>3, <1>4, <1>5, <1>6
    DEF Next, net_packet_alloc, net_packet_release, ReadHandler, Deliver,
        net_socket_set_receive_callback, net_socket_set_receive_block, net_socket_set_info,
        Destroy, DestroyRead, DestroyTest, DestroyResume, DestroyWrite, WriteHandler, WriteBegin,
        WriteEnd, CancelHandler, sending, vars

LEMMA OrderGivesPrefix ==
  ASSUME StructureInv, SentInOrder
  PROVE  WrittenInOrder
  <1> DEFINE u == Waiting \o blocks
  <1>1. written \in Seq(Packet) /\ u \in Seq(Packet) /\ sent = written \o u
    BY StructureTypes, ConcatProperties DEF SentInOrder
  <1> HIDE DEF u
  <1>2. /\ Len(sent) = Len(written) + Len(u) /\ Len(written) \in Nat /\ Len(u) \in Nat
        /\ SubSeq(sent, 1, Len(written)) = written
    BY <1>1, ConcatProperties, LenProperties, SubSeqOfConcat1
  <1>3. SubSeq(written, 1, Len(written)) = written
    BY <1>1, SubSeqFull
  <1>4. QED
    BY <1>2, <1>3 DEF WrittenInOrder, IsPrefix

-----------------------------------------------------------------------------
(* Retain counts *)

\* Deliveries that hold packet p
Held(ds, p) == Cardinality({d \in ds : d.packet = p})

\* PacketsAccounted for one packet
Accounted(p) ==
  retainCount[p] = (IF p \in owned THEN 1 ELSE 0) + (IF p \in lost THEN 1 ELSE 0)
                     + Held(deliveries, p) + Occurrences(p, blocks) + Occurrences(p, Waiting)

LEMMA AccountedEach == PacketsAccounted <=> \A p \in Packet : Accounted(p)
  BY DEF PacketsAccounted, Accounted, Held, Waiting

LEMMA HeldCount ==
  ASSUME NEW ds, IsFiniteSet(ds), NEW p
  PROVE  /\ Held(ds, p) \in Nat
         /\ \A d : d.packet = p /\ d \notin ds => Held(ds \cup {d}, p) = Held(ds, p) + 1
         /\ \A d : d.packet # p => Held(ds \cup {d}, p) = Held(ds, p)
         /\ \A d \in ds : d.packet = p => Held(ds \ {d}, p) = Held(ds, p) - 1
         /\ \A d : d.packet # p => Held(ds \ {d}, p) = Held(ds, p)
         /\ Held(ds, p) = 0 => \A d \in ds : d.packet # p
  <1> DEFINE H == {d \in ds : d.packet = p}
  <1>1. IsFiniteSet(H) /\ Cardinality(H) \in Nat
    <2>1. H \in SUBSET ds
      OBVIOUS
    <2>2. QED
      BY <2>1, FS_Subset, FS_CardinalityType
  <1>2. Held(ds, p) = Cardinality(H)
    BY DEF Held
  <1>3. ASSUME NEW d, d.packet = p, d \notin ds PROVE Held(ds \cup {d}, p) = Held(ds, p) + 1
    <2>1. {x \in ds \cup {d} : x.packet = p} = H \cup {d} /\ d \notin H
      BY <1>3
    <2> HIDE DEF H
    <2>2. QED
      BY <1>1, <1>2, <2>1, FS_AddElement DEF Held
  <1>4. ASSUME NEW d, d.packet # p PROVE Held(ds \cup {d}, p) = Held(ds, p)
    <2>1. {x \in ds \cup {d} : x.packet = p} = H
      BY <1>4
    <2>2. QED
      BY <1>2, <2>1 DEF Held
  <1>5. ASSUME NEW d \in ds, d.packet = p PROVE Held(ds \ {d}, p) = Held(ds, p) - 1
    <2>1. {x \in ds \ {d} : x.packet = p} = H \ {d} /\ d \in H
      BY <1>5
    <2> HIDE DEF H
    <2>2. QED
      BY <1>1, <1>2, <2>1, FS_RemoveElement DEF Held
  <1>6. ASSUME NEW d, d.packet # p PROVE Held(ds \ {d}, p) = Held(ds, p)
    <2>1. {x \in ds \ {d} : x.packet = p} = H
      BY <1>6
    <2>2. QED
      BY <1>2, <2>1 DEF Held
  <1>7. Held(ds, p) = 0 => \A d \in ds : d.packet # p
    <2>1. Held(ds, p) = 0 => H = {}
      <3> HIDE DEF H
      <3>1. QED
        BY <1>1, <1>2, FS_EmptySet
    <2>2. QED
      BY <2>1
  <1>8. QED
    BY <1>1, <1>2, <1>3, <1>4, <1>5, <1>6, <1>7

LEMMA InitAccounted == Init => PacketsAccounted
  <1> SUFFICES ASSUME Init, NEW p \in Packet PROVE Accounted(p)
    BY AccountedEach
  <1>1. Waiting = << >> /\ blocks = << >> /\ deliveries = {}
    BY QueueCreate DEF Init, Waiting
  <1>2. Occurrences(p, << >>) = 0
    <2>1. {i \in DOMAIN << >> : << >>[i] = p} = {}
      OBVIOUS
    <2>2. QED
      BY <2>1, FS_EmptySet DEF Occurrences
  <1>3. Held({}, p) = 0
    <2>1. {d \in {} : d.packet = p} = {}
      OBVIOUS
    <2>2. QED
      BY <2>1, FS_EmptySet DEF Held
  <1>4. retainCount[p] = 0 /\ p \notin owned /\ p \notin lost
    BY DEF Init
  <1>5. QED
    BY <1>1, <1>2, <1>3, <1>4 DEF Accounted

LEMMA OccurrencesNat ==
  ASSUME NEW s \in Seq(Packet), NEW p \in Packet
  PROVE  Occurrences(p, s) \in Nat
  BY OccurrencesAppend

LEMMA NextAccounted ==
  ASSUME StructureInv, PacketsAccounted, [Next]_vars
  PROVE  PacketsAccounted'
  <1>1. /\ blocks \in Seq(Packet) /\ Waiting \in Seq(Packet)
        /\ retainCount \in [Packet -> Int] /\ IsFiniteSet(deliveries)
        /\ deliveries \in SUBSET [packet : Packet, to : {"callback", "block"}]
    BY StructureTypes DEF StructureInv, TypeOK
  <1> SUFFICES ASSUME NEW x \in Packet PROVE Accounted(x)'
    BY DEF PacketsAccounted, Accounted, Held, Waiting
  <1>2. Accounted(x)
    BY AccountedEach
  <1>3. Held(deliveries, x) \in Nat /\ Occurrences(x, blocks) \in Nat /\ Occurrences(x, Waiting) \in Nat
    BY <1>1, HeldCount, OccurrencesNat
  <1>4. UNCHANGED <<pool, deliveries, blocks, pendingPackets>> => Accounted(x)'
    BY <1>2 DEF pool, Accounted, Waiting
  <1>5. ASSUME NEW p \in Packet, net_packet_alloc(p) PROVE Accounted(x)'
    <2>1. /\ retainCount[p] = 0
          /\ retainCount' = [retainCount EXCEPT ![p] = 1] /\ owned' = owned \cup {p}
          /\ UNCHANGED <<lost, deliveries, blocks, Waiting>>
      BY <1>5 DEF net_packet_alloc, sending, Waiting
    <2>2. CASE x = p
      BY <1>1, <1>2, <1>3, <2>1, <2>2 DEF Accounted
    <2>3. CASE x # p
      BY <1>1, <1>2, <2>1, <2>3 DEF Accounted
    <2>4. QED
      BY <2>2, <2>3
  <1>6. ASSUME NEW p \in Packet, net_packet_release(p) PROVE Accounted(x)'
    <2>1. /\ p \in owned
          /\ retainCount' = [retainCount EXCEPT ![p] = @ - 1] /\ owned' = owned \ {p}
          /\ UNCHANGED <<lost, deliveries, blocks, Waiting>>
      BY <1>6 DEF net_packet_release, sending, Waiting
    <2>2. CASE x = p
      BY <1>1, <1>2, <1>3, <2>1, <2>2 DEF Accounted
    <2>3. CASE x # p
      BY <1>1, <1>2, <2>1, <2>3 DEF Accounted
    <2>4. QED
      BY <2>2, <2>3
  <1>7. ASSUME NEW p \in Packet, net_socket_send(p) PROVE Accounted(x)'
    <2>1. /\ retainCount' = [retainCount EXCEPT ![p] = @ + 1]
          /\ blocks' = Append(blocks, p)
          /\ UNCHANGED <<owned, lost, deliveries, Waiting>>
      BY <1>7 DEF net_socket_send, Waiting
    <2>2. Occurrences(x, blocks') = Occurrences(x, blocks) + (IF p = x THEN 1 ELSE 0)
      BY <1>1, <2>1, OccurrencesAppend
    <2>3. retainCount'[x] = retainCount[x] + (IF p = x THEN 1 ELSE 0)
      BY <1>1, <2>1
    <2>4. QED
      BY <1>1, <1>2, <1>3, <2>1, <2>2, <2>3 DEF Accounted
  <1>8. ASSUME NEW p \in Packet, NEW d \in Datagram, ReadHandler(p, d) PROVE Accounted(x)'
    <2> DEFINE new == [packet |-> p, to |-> IF receiveBlock THEN "block" ELSE "callback"]
    <2>1. /\ retainCount[p] = 0 /\ UNCHANGED <<owned, blocks, Waiting>>
          /\ \/ UNCHANGED <<retainCount, deliveries, lost>>
             \/ /\ retainCount' = [retainCount EXCEPT ![p] = 1]
                /\ \/ deliveries' = deliveries \cup {new} /\ lost' = lost
                   \/ deliveries' = deliveries /\ lost' = lost \cup {p}
      BY <1>8 DEF ReadHandler, sending, Waiting
    <2>2. new.packet = p
      OBVIOUS
    <2> HIDE DEF new
    <2>3. CASE x # p
      <3>1. Held(deliveries \cup {new}, x) = Held(deliveries, x)
        BY <1>1, <2>2, <2>3, HeldCount
      <3>2. QED
        BY <1>1, <1>2, <2>1, <2>3, <3>1 DEF Accounted
    <2>4. CASE x = p
      <3> DEFINE h == Held(deliveries, x)
                 b == Occurrences(x, blocks)
                 w == Occurrences(x, Waiting)
      <3>1. retainCount[x] = 0
        BY <2>1, <2>4
      <3>2. h \in Nat /\ b \in Nat /\ w \in Nat
        BY <1>3
      <3>3. 0 = (IF x \in owned THEN 1 ELSE 0) + (IF x \in lost THEN 1 ELSE 0) + h + b + w
        BY <1>2, <3>1 DEF Accounted
      <3> HIDE DEF h, b, w
      <3>4. x \notin owned /\ x \notin lost /\ h = 0 /\ b = 0 /\ w = 0
        BY <3>2, <3>3
      <3>5. Held(deliveries, x) = 0 /\ Occurrences(x, blocks) = 0 /\ Occurrences(x, Waiting) = 0
        BY <3>4 DEF h, b, w
      <3>6. new \notin deliveries
        BY <1>1, <2>2, <2>4, <3>5, HeldCount
      <3>7. Held(deliveries \cup {new}, x) = 1
        BY <1>1, <2>2, <2>4, <3>5, <3>6, HeldCount
      <3>8. CASE UNCHANGED <<retainCount, deliveries, lost>>
        BY <1>2, <2>1, <3>8 DEF Accounted
      <3>9. CASE retainCount' = [retainCount EXCEPT ![p] = 1]
        <4>1. retainCount'[x] = 1 /\ x \notin owned'
          BY <1>1, <2>1, <2>4, <3>4, <3>9
        <4>2. CASE deliveries' = deliveries \cup {new} /\ lost' = lost
          BY <2>1, <3>4, <3>5, <3>7, <4>1, <4>2 DEF Accounted
        <4>3. CASE deliveries' = deliveries /\ lost' = lost \cup {p}
          BY <2>1, <2>4, <3>4, <3>5, <4>1, <4>3 DEF Accounted
        <4>4. CASE UNCHANGED <<retainCount, deliveries, lost>>
          BY <1>2, <2>1, <4>4 DEF Accounted
        <4>5. QED
          BY <2>1, <4>2, <4>3, <4>4
      <3>10. QED
        BY <2>1, <3>8, <3>9
    <2>5. QED
      BY <2>3, <2>4
  <1>9. ASSUME NEW d \in deliveries, Deliver(d) PROVE Accounted(x)'
    <2>1. /\ deliveries' = deliveries \ {d}
          /\ retainCount' = [retainCount EXCEPT ![d.packet] = @ - 1]
          /\ UNCHANGED <<owned, lost, blocks, Waiting>>
      BY <1>9 DEF Deliver, sending, Waiting
    <2>2. Held(deliveries', x) = Held(deliveries, x) - (IF d.packet = x THEN 1 ELSE 0)
      BY <1>1, <1>3, <2>1, HeldCount
    <2>3. retainCount'[x] = retainCount[x] - (IF d.packet = x THEN 1 ELSE 0)
      BY <1>1, <2>1
    <2>4. QED
      BY <1>1, <1>2, <1>3, <2>1, <2>2, <2>3 DEF Accounted
  <1>10. ASSUME RunSend PROVE Accounted(x)'
    <2>1. /\ Head(blocks) \in Packet /\ blocks # << >> /\ blocks' = Tail(blocks)
          /\ Waiting' = Append(Waiting, Head(blocks))
      BY <1>10, RunSendEffect
    <2>2. UNCHANGED <<retainCount, owned, lost, deliveries>>
      BY <1>10 DEF RunSend, pool
    <2>3. /\ Occurrences(x, blocks') \in Nat
          /\ Occurrences(x, blocks) = Occurrences(x, blocks') + (IF Head(blocks) = x THEN 1 ELSE 0)
      BY <1>1, <2>1, OccurrencesTail
    <2>4. Occurrences(x, Waiting') = Occurrences(x, Waiting) + (IF Head(blocks) = x THEN 1 ELSE 0)
      BY <1>1, <2>1, OccurrencesAppend
    <2>5. QED
      BY <1>1, <1>2, <1>3, <2>2, <2>3, <2>4 DEF Accounted
  <1>11. ASSUME WriteNext PROVE Accounted(x)'
    <2>1. /\ Waiting # << >> /\ Head(Waiting) \in Packet /\ Waiting' = Tail(Waiting)
          /\ retainCount' = [retainCount EXCEPT ![Head(Waiting)] = @ - 1]
      BY <1>11, WriteNextEffect
    <2>2. UNCHANGED <<owned, lost, deliveries, blocks>>
      BY <1>11 DEF WriteNext
    <2>3. /\ Occurrences(x, Waiting') \in Nat
          /\ Occurrences(x, Waiting) = Occurrences(x, Waiting') + (IF Head(Waiting) = x THEN 1 ELSE 0)
      BY <1>1, <2>1, OccurrencesTail
    <2>4. retainCount'[x] = retainCount[x] - (IF Head(Waiting) = x THEN 1 ELSE 0)
      BY <1>1, <2>1
    <2>5. QED
      BY <1>1, <1>2, <1>3, <2>2, <2>3, <2>4 DEF Accounted
  <1>12. QED
    BY <1>4, <1>5, <1>6, <1>7, <1>8, <1>9, <1>10, <1>11
    DEF Next, net_socket_set_receive_callback, net_socket_set_receive_block, net_socket_set_info,
        Destroy, DestroyRead, DestroyTest, DestroyResume, DestroyWrite, WriteHandler, WriteBegin,
        WriteEnd, CancelHandler, sending, vars

-----------------------------------------------------------------------------
LEMMA InitSentInOrder == Init => SentInOrder
  <1> SUFFICES ASSUME Init PROVE SentInOrder
    OBVIOUS
  <1>1. Waiting = << >> /\ blocks = << >> /\ sent = << >> /\ written = << >>
    BY QueueCreate DEF Init, Waiting
  <1>2. << >> \o (<< >> \o << >>) = << >>
    OBVIOUS
  <1>3. QED
    BY <1>1, <1>2 DEF SentInOrder

LEMMA SocketInvariant == Spec => []SocketInv
  <1>1. Init => SocketInv
    BY InitStructure, InitAccounted, InitSentInOrder DEF SocketInv
  <1>2. SocketInv /\ [Next]_vars => SocketInv'
    BY NextStructure, NextAccounted, NextSentInOrder DEF SocketInv
  <1>3. QED
    BY <1>1, <1>2, PTL DEF Spec

\* Every variable keeps its type, whatever race is lost; the close count of
\* the two sources never goes below zero.
THEOREM SocketTypes == Spec => []TypeOK
  <1>1. SocketInv => TypeOK
    BY DEF SocketInv, StructureInv
  <1>2. QED
    BY <1>1, SocketInvariant, PTL

\* The retain count of every packet is the number of its holders, whatever
\* race is lost: none is handed out again while it waits to be written.
THEOREM PacketsAlwaysAccounted == Spec => []PacketsAccounted
  <1>1. SocketInv => PacketsAccounted
    BY DEF SocketInv
  <1>2. QED
    BY <1>1, SocketInvariant, PTL

\* Packets are written in the order in which they were sent, each once,
\* through the queue of queue.c and the nodes it uses again; whatever race is
\* lost.
THEOREM AlwaysWrittenInOrder == Spec => []WrittenInOrder
  <1>1. SocketInv => WrittenInOrder
    BY OrderGivesPrefix DEF SocketInv
  <1>2. QED
    BY <1>1, SocketInvariant, PTL

-----------------------------------------------------------------------------
(* The write source *)

\* net_socket_destroy resumes the write source only while it is suspended.
BalanceInv == WriteBalanced /\ (destroy = "resume" => ~isSending)

\* While net_socket_destroy runs without the queue in between, the write
\* source's suspend count follows isSending: the source is never resumed
\* while it runs, which libdispatch answers with a crash.
THEOREM WriteAlwaysBalanced ==
  ASSUME "destroy" \notin Races
  PROVE  Spec => []WriteBalanced
  <1>1. Init => BalanceInv
    BY DEF Init, BalanceInv, WriteBalanced
  <1>2. ASSUME BalanceInv, [Next]_vars PROVE BalanceInv'
    <2>1. WriteBalanced /\ (destroy = "resume" => ~isSending)
      BY <1>2 DEF BalanceInv
    <2>2. ASSUME UNCHANGED <<isSending, suspended, destroy>> PROVE BalanceInv'
      BY <2>1, <2>2 DEF BalanceInv, WriteBalanced
    <2>3. ASSUME DestroyRead PROVE BalanceInv'
      BY <2>1, <2>3 DEF DestroyRead, sending, BalanceInv, WriteBalanced
    <2>4. ASSUME DestroyTest PROVE BalanceInv'
      <3>1. UNCHANGED <<isSending, suspended>> /\ destroy' = IF isSending THEN "cancel" ELSE "resume"
        BY <2>4 DEF DestroyTest, sending
      <3>2. QED
        BY <2>1, <3>1 DEF BalanceInv, WriteBalanced
    <2>5. ASSUME DestroyResume PROVE BalanceInv'
      BY <2>1, <2>5 DEF DestroyResume, BalanceInv, WriteBalanced
    <2>6. ASSUME DestroyWrite PROVE BalanceInv'
      BY <2>1, <2>6 DEF DestroyWrite, sending, BalanceInv, WriteBalanced
    <2>7. ASSUME RunSend PROVE BalanceInv'
      <3>1. destroy \in {"open", "done"} /\ destroy' = destroy
        BY <2>7 DEF RunSend, QueueMayRun, closing
      <3>2. CASE isSending
        BY <2>1, <2>7, <3>1, <3>2 DEF RunSend, net_socket_resume_write, BalanceInv, WriteBalanced
      <3>3. CASE ~isSending
        <4>1. isSending' = TRUE /\ suspended' = suspended - 1 /\ suspended = 1
          BY <2>1, <2>7, <3>3 DEF RunSend, net_socket_resume_write, WriteBalanced
        <4>2. QED
          BY <3>1, <4>1 DEF BalanceInv, WriteBalanced
      <3>4. QED
        BY <3>2, <3>3
    <2>8. ASSUME WriteEnd PROVE BalanceInv'
      <3>1. destroy \in {"open", "done"} /\ destroy' = destroy
        BY <2>8 DEF WriteEnd, QueueMayRun, closing
      <3>2. CASE isSending
        <4>1. isSending' = FALSE /\ suspended' = suspended + 1 /\ suspended = 0
          BY <2>1, <2>8, <3>2 DEF WriteEnd, net_socket_suspend_write, WriteBalanced
        <4>2. QED
          BY <3>1, <4>1 DEF BalanceInv, WriteBalanced
      <3>3. CASE ~isSending
        BY <2>1, <2>8, <3>1, <3>3 DEF WriteEnd, net_socket_suspend_write, BalanceInv, WriteBalanced
      <3>4. QED
        BY <3>2, <3>3
    <2>9. QED
      BY <1>2, <2>2, <2>3, <2>4, <2>5, <2>6, <2>7, <2>8
      DEF Next, net_packet_alloc, net_packet_release, net_socket_send, ReadHandler, Deliver,
          net_socket_set_receive_callback, net_socket_set_receive_block, net_socket_set_info,
          Destroy, WriteHandler, WriteBegin, WriteNext, CancelHandler, sending, closing, vars
  <1>3. BalanceInv => WriteBalanced
    BY DEF BalanceInv
  <1>4. QED
    BY <1>1, <1>2, <1>3, PTL DEF Spec

-----------------------------------------------------------------------------
(* The closing of the socket *)

\* Once the write source's cancel handler has run, nothing of the dispatch
\* queue is left or comes; once both have, no delivery is.
CloseInv ==
  /\ StructureInv
  /\ handled \subseteq cancelled
  /\ "write" \in cancelled => destroy = "done"
  /\ "write" \in handled => blocks = << >> /\ ~writing
  /\ Freed => deliveries = {}
  /\ \A d \in deliveries : d.to = "block" => receiveBlock

LEMMA FreedHandled ==
  ASSUME CloseInv
  PROVE  Freed => handled = {"read", "write"}
  <1>1. CloseCounted /\ handled \in SUBSET {"read", "write"}
    BY DEF CloseInv, StructureInv, TypeOK
  <1>2. Freed => "read" \in handled /\ "write" \in handled
    BY <1>1 DEF CloseCounted, Freed
  <1>3. QED
    BY <1>1, <1>2

LEMMA NextClose ==
  ASSUME "restore" \notin Races, "free" \notin Races, CloseInv, [Next]_vars
  PROVE  CloseInv'
  <1>1. StructureInv'
    BY NextStructure DEF CloseInv
  <1> DEFINE Rest == /\ handled \subseteq cancelled
                     /\ "write" \in cancelled => destroy = "done"
                     /\ "write" \in handled => blocks = << >> /\ ~writing
                     /\ closeCount = 0 => deliveries = {}
                     /\ \A d \in deliveries : d.to = "block" => receiveBlock
  <1>2. Rest
    BY DEF CloseInv, Freed
  <1>3. Rest' => CloseInv'
    BY <1>1 DEF CloseInv, Freed
  <1>4. UNCHANGED vars => Rest'
    BY <1>2 DEF vars, receiver, sending, closing
  <1>5. ASSUME NEW p \in Packet, net_packet_alloc(p) \/ net_packet_release(p) PROVE Rest'
    BY <1>2, <1>5 DEF net_packet_alloc, net_packet_release, receiver, sending, closing
  <1>6. ASSUME NEW p \in Packet, net_socket_send(p) PROVE Rest'
    <2>1. destroy = "open" /\ UNCHANGED <<deliveries, receiveBlock, writing, closing>>
      BY <1>6 DEF net_socket_send, receiver
    <2>2. "write" \notin handled
      BY <1>2, <2>1
    <2>3. QED
      BY <1>2, <2>1, <2>2 DEF closing
  <1>7. ASSUME NEW p \in Packet, NEW e \in Datagram, ReadHandler(p, e) PROVE Rest'
    <2> DEFINE to == IF receiveBlock THEN "block" ELSE "callback"
    <2>1. /\ "read" \notin cancelled /\ UNCHANGED <<receiveBlock, blocks, writing, closing>>
          /\ deliveries' \subseteq deliveries \cup {[packet |-> p, to |-> to]}
      BY <1>7 DEF ReadHandler, receiver, sending
    <2>2. closeCount # 0
      BY <1>2, <2>1, FreedHandled DEF Freed
    <2>3. \A d \in deliveries' : d.to = "block" => receiveBlock
      BY <1>2, <2>1
    <2>4. QED
      BY <1>2, <2>1, <2>2, <2>3 DEF closing
  <1>8. ASSUME NEW d \in deliveries, Deliver(d) PROVE Rest'
    BY <1>2, <1>8 DEF Deliver, receiver, sending, closing
  <1>9. ASSUME net_socket_set_receive_callback \/ net_socket_set_receive_block PROVE Rest'
    BY <1>2, <1>9 DEF net_socket_set_receive_callback, net_socket_set_receive_block, sending,
                      closing
  <1>10. ASSUME net_socket_set_info PROVE Rest'
    BY <1>2, <1>10 DEF net_socket_set_info, sending, closing
  <1>11. ASSUME Destroy PROVE Rest'
    <2>1. /\ UNCHANGED <<deliveries, receiveBlock, blocks, writing, closeCount, handled>>
          /\ cancelled \subseteq cancelled' /\ destroy # "done"
          /\ "write" \in cancelled' => "write" \in cancelled \/ destroy' = "done"
      BY <1>11 DEF Destroy, DestroyRead, DestroyTest, DestroyResume, DestroyWrite, receiver,
                   sending
    <2>2. QED
      BY <1>2, <2>1
  <1>12. ASSUME RunSend PROVE Rest'
    <2>1. blocks # << >> /\ UNCHANGED <<deliveries, receiveBlock, writing, closing>>
      BY <1>12 DEF RunSend, receiver
    <2>2. QED
      BY <1>2, <2>1 DEF closing
  <1>13. ASSUME WriteHandler PROVE Rest'
    <2>1. /\ UNCHANGED <<deliveries, receiveBlock, blocks, closing>>
          /\ writing \/ "write" \notin cancelled
      BY <1>13 DEF WriteHandler, WriteBegin, WriteNext, WriteEnd, receiver
    <2>2. "write" \notin handled
      BY <1>2, <2>1
    <2>3. QED
      BY <1>2, <2>1, <2>2 DEF closing
  <1>14. ASSUME NEW source \in {"read", "write"}, CancelHandler(source) PROVE Rest'
    <2>1. /\ source \in cancelled /\ handled' = handled \cup {source}
          /\ source = "write" => ~writing /\ blocks = << >>
          /\ closeCount > 1 \/ deliveries = {}
          /\ closeCount' = closeCount - 1
          /\ UNCHANGED <<deliveries, receiveBlock, blocks, writing, destroy, cancelled>>
      BY <1>14 DEF CancelHandler, receiver, sending
    <2>2. closeCount \in 0..2
      BY DEF CloseInv, StructureInv, TypeOK
    <2>3. closeCount' = 0 => deliveries = {}
      BY <2>1, <2>2
    <2>4. QED
      BY <1>2, <2>1, <2>3
  <1>15. QED
    BY <1>3, <1>4, <1>5, <1>6, <1>7, <1>8, <1>9, <1>10, <1>11, <1>12, <1>13, <1>14 DEF Next

\* Nothing uses the socket after it was freed, and a delivery finds the block
\* it was dispatched for, while the two unprotected hand-overs are not lost:
\* no receive block is taken away, and no socket freed, while a delivery
\* waits.  The race of net_socket_destroy with the queue cannot break this.
THEOREM SocketMemorySafe ==
  ASSUME "restore" \notin Races, "free" \notin Races
  PROVE  Spec => []MemorySafe
  <1>1. Init => CloseInv
    BY InitStructure DEF Init, CloseInv
  <1>2. CloseInv /\ [Next]_vars => CloseInv'
    BY NextClose
  <1>3. CloseInv => MemorySafe
    BY FreedHandled DEF CloseInv, MemorySafe
  <1>4. QED
    BY <1>1, <1>2, <1>3, PTL DEF Spec
=============================================================================
