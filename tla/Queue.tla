-------------------------------- MODULE Queue --------------------------------
(***************************************************************************)
(* The queue of queue.c as operators on a record: nodes linked from head   *)
(* to tail, and a chain of popped nodes that the next pushes use again.    *)
(* A node is its number in the order of the mallocs, 0 the null pointer;   *)
(* malloc is taken to succeed.                                             *)
(***************************************************************************)
EXTENDS Naturals, Sequences, FiniteSets

queue_create == [nodes |-> << >>, head |-> 0, tail |-> 0, reserved |-> 0]

queue_is_empty(q) == q.head = 0 /\ q.tail = 0

\* Mutant: the reused node stays the first reserved one.
queue_push_slip(q, o) ==
  LET n == IF q.reserved # 0 THEN q.reserved ELSE Len(q.nodes) + 1
      node == [object |-> o, next |-> 0]
      nodes == IF q.reserved # 0 THEN [q.nodes EXCEPT ![n] = node] ELSE Append(q.nodes, node)
  IN [nodes |-> IF queue_is_empty(q) THEN nodes ELSE [nodes EXCEPT ![q.tail].next = n],
      head |-> IF queue_is_empty(q) THEN n ELSE q.head,
      tail |-> n,
      reserved |-> q.reserved]

queue_push(q, o) ==
  LET n == IF q.reserved # 0 THEN q.reserved ELSE Len(q.nodes) + 1
      node == [object |-> o, next |-> 0]
      nodes == IF q.reserved # 0 THEN [q.nodes EXCEPT ![n] = node] ELSE Append(q.nodes, node)
  IN [nodes |-> IF queue_is_empty(q) THEN nodes ELSE [nodes EXCEPT ![q.tail].next = n],
      head |-> IF queue_is_empty(q) THEN n ELSE q.head,
      tail |-> n,
      reserved |-> IF q.reserved # 0 THEN q.nodes[n].next ELSE 0]

\* What queue_pop returns, and what it leaves, of a queue that is not empty.
Popped(q) == q.nodes[q.head].object

queue_pop(q) ==
  LET single == q.head = q.tail
  IN [nodes |-> [q.nodes EXCEPT ![q.head].next = q.reserved],
      head |-> IF single THEN 0 ELSE q.nodes[q.head].next,
      tail |-> IF single THEN 0 ELSE q.tail,
      reserved |-> q.head]

\* The nodes a loop from node i on visits, as debug_queue_enqueued_count and
\* debug_queue_reserved_count count them.
Linked(q, i) ==
  LET node[k \in 0..Len(q.nodes)] ==
        IF k = 0 THEN i ELSE IF node[k - 1] = 0 THEN 0 ELSE q.nodes[node[k - 1]].next
      visited == {k \in 0..Len(q.nodes) : node[k] # 0}
  IN [k \in 1..Cardinality(visited) |-> node[k - 1]]

Enqueued(q) == [k \in DOMAIN Linked(q, q.head) |-> q.nodes[Linked(q, q.head)[k]].object]
=============================================================================
