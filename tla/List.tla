-------------------------------- MODULE List --------------------------------
(***************************************************************************)
(* The linked list of list.c: nodes in one reallocated block, named by     *)
(* their index because the block may move; index 0 is the null node.  The  *)
(* nodes of the list are linked in both directions, the reserved ones      *)
(* through next only.  A removed node is the first to be used again, so    *)
(* its stale links are always about to matter.                             *)
(*                                                                         *)
(* A list belongs to one serial queue (stream.c), so an operation is one   *)
(* action, and stream.c removes only objects it has found.  realloc is     *)
(* taken to succeed.                                                       *)
(***************************************************************************)
EXTENDS Naturals, Sequences, FiniteSets, SequencesExt

CONSTANTS
  Object,             \* the objects clients add
  NULL,               \* the null pointer
  InitialCapacities,  \* arguments of list_create
  DefaultCapacity,    \* kListDefaultCapacity
  MaxCapacity         \* bound on the growth of the block

ASSUME ListAssumption ==
  /\ NULL \notin Object
  /\ InitialCapacities \subseteq Nat
  /\ DefaultCapacity \in Nat \ {0} /\ MaxCapacity \in Nat

VARIABLES
  nodes,      \* reserved_mem: object, next and previous of each node
  head, tail, \* first and last node of the list
  reserved,   \* first reserved node
  answer      \* what the last call gave its caller

vars == <<nodes, head, tail, reserved, answer>>

Capacity == Len(nodes)

\* The nodes a loop from index i on visits.  A loop that does not end is cut
\* off after one node more than there are.
Walk(i) ==
  LET index[k \in 0..Capacity] ==
        IF k = 0 THEN i ELSE IF index[k - 1] = 0 THEN 0 ELSE nodes[index[k - 1]].next
      visited == {k \in 0..Capacity : index[k] # 0}
  IN [k \in 1..Cardinality(visited) |-> index[k - 1]]

Chain == Walk(head)
Free == Walk(reserved)
Objects == [k \in DOMAIN Chain |-> nodes[Chain[k]].object]

-----------------------------------------------------------------------------
\* add and remove give their caller nothing.
Nothing == [found |-> NULL]

\* list_reserve: the nodes it adds to n existing ones, woven in index order.
Woven(n, capacity) ==
  [i \in 1..capacity |->
    [object |-> NULL, next |-> IF i = capacity THEN 0 ELSE n + i + 1, previous |-> 0]]

\* list_create; list_reserve of no nodes leaves nothing reserved.
Init ==
  /\ \E c \in InitialCapacities : nodes = Woven(0, c) /\ reserved = IF c > 0 THEN 1 ELSE 0
  /\ head = 0 /\ tail = 0
  /\ answer = Nothing

\* list_add: the first reserved node becomes the tail.
list_add(o) ==
  LET full == reserved = 0
      mem == IF full THEN nodes \o Woven(Capacity, DefaultCapacity) ELSE nodes
      n == IF full THEN Capacity + 1 ELSE reserved
      added == [mem EXCEPT ![n] = [object |-> o, next |-> 0, previous |-> tail]]
  IN /\ Len(mem) <= MaxCapacity
     /\ reserved' = mem[n].next
     /\ nodes' = IF tail # 0 THEN [added EXCEPT ![tail].next = n] ELSE added
     /\ head' = IF tail # 0 THEN head ELSE n
     /\ tail' = n
     /\ answer' = Nothing

\* Mutant: only the forward links are mended.
Unlinked_slip(n) ==
  LET p == nodes[n].previous
  IN IF p # 0 THEN [nodes EXCEPT ![p].next = nodes[n].next] ELSE nodes

\* The neighbours of node n are linked to each other.
Unlinked(n) ==
  LET p == nodes[n].previous
      x == nodes[n].next
      forward == IF p # 0 THEN [nodes EXCEPT ![p].next = x] ELSE nodes
  IN IF x # 0 THEN [forward EXCEPT ![x].previous = p] ELSE forward

\* The first node with the object.
list_find_node_index(o) == Chain[Min({k \in DOMAIN Chain : Objects[k] = o})]

\* Head, tail, both or neither go over to a neighbour.  The removed node
\* keeps its object and becomes the first reserved one.
list_remove(o) ==
  /\ \E k \in DOMAIN Chain : Objects[k] = o
  /\ LET n == list_find_node_index(o)
     IN /\ nodes' = [Unlinked(n) EXCEPT ![n].next = reserved, ![n].previous = 0]
        /\ head' = IF nodes[n].previous = 0 THEN nodes[n].next ELSE head
        /\ tail' = IF nodes[n].next = 0 THEN nodes[n].previous ELSE tail
        /\ reserved' = n
  /\ answer' = Nothing

\* The compare block accepts some of the objects (an address, in stream.c).
list_find(accepted) ==
  /\ LET matches == {k \in DOMAIN Chain : Objects[k] \in accepted}
     IN answer' = [found |-> IF matches = {} THEN NULL ELSE Objects[Min(matches)]]
  /\ UNCHANGED <<nodes, head, tail, reserved>>

\* The iterate block changes no list (stream.c).
list_iterate ==
  /\ answer' = [visited |-> Objects]
  /\ UNCHANGED <<nodes, head, tail, reserved>>

list_is_empty ==
  /\ answer' = [empty |-> head = 0 /\ tail = 0]
  /\ UNCHANGED <<nodes, head, tail, reserved>>

Next ==
  \/ \E o \in Object : list_add(o) \/ list_remove(o)
  \/ \E accepted \in SUBSET Object : list_find(accepted)
  \/ list_iterate \/ list_is_empty

Spec == Init /\ [][Next]_vars

-----------------------------------------------------------------------------
\* Every node is in one of the two chains and in it once, so no node is lost
\* or used twice however often the block grew and nodes were reused; the
\* backward links of the list mirror the forward ones, and head and tail are
\* its ends (debug_list_added_count and debug_list_reserved_count add up to
\* the capacity).
ChainsExact ==
  /\ Len(Chain) + Len(Free) = Capacity
  /\ ToSet(Chain) \cup ToSet(Free) = 1..Capacity
  /\ \A k \in DOMAIN Chain :
       nodes[Chain[k]].previous = IF k = 1 THEN 0 ELSE Chain[k - 1]
  /\ IF Chain = << >> THEN head = 0 /\ tail = 0 ELSE tail = Last(Chain)

Promise == INSTANCE ListSpec WITH list <- Objects

\* The list behaves as a sequence of objects: added at the end, the first
\* occurrence removed, found and visited in order.
ListPromise == Promise!Spec
=============================================================================
