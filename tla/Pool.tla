-------------------------------- MODULE Pool --------------------------------
(***************************************************************************)
(* The memory pool of pool.c: objects carved out of one memory block, a    *)
(* LIFO free list threaded through their nodes, a retain count per object  *)
(* and an allocation count per pool.  Each operation is one action: the    *)
(* pool as one thread sees it.  PoolThreads takes the same operations      *)
(* apart into single memory accesses.                                      *)
(*                                                                         *)
(* An address is its block's number.  1..Capacity are the pool's objects;  *)
(* 0 and Capacity + 1 stand for every address below memblock and from      *)
(* membound on.  "holder" is the clients' side: which reference keeps      *)
(* which address.  Clients follow the ownership rule of net_socket.h: the  *)
(* caller of an allocation owns a reference, a retain creates another one, *)
(* and each reference is released once.                                    *)
(***************************************************************************)
EXTENDS Naturals, Sequences, FiniteSets

CONSTANTS
  Capacity,   \* number of objects of the pool
  Ref,        \* the references the clients may keep
  NULL        \* the null pointer

ASSUME CapacityAssumption == Capacity \in Nat
ASSUME RefAssumption == IsFiniteSet(Ref)
ASSUME NullAssumption == NULL \notin Nat

Object == 1..Capacity
Address == 0..(Capacity + 1)

VARIABLES
  freeList,      \* free objects, the head of the list first
  retainCount,   \* retain count of each object's node
  allocCount,    \* number of allocated objects
  holder,        \* the address each reference keeps, or NULL
  answer         \* what the last pool_alloc for each reference answered, until
                 \* the reference is given up

vars == <<freeList, retainCount, allocCount, holder, answer>>

-----------------------------------------------------------------------------
\* Mutant: the weaving loop runs one node past the memory block.
Init_slip ==
  /\ freeList = [i \in 1..(Capacity + 1) |-> i]
  /\ retainCount = [o \in Object |-> 0]
  /\ allocCount = 0
  /\ holder = [r \in Ref |-> NULL]
  /\ answer = [r \in Ref |-> "none"]

\* pool_weave_freelist: the nodes are linked in address order.
Init ==
  /\ freeList = [i \in 1..Capacity |-> i]
  /\ retainCount = [o \in Object |-> 0]
  /\ allocCount = 0
  /\ holder = [r \in Ref |-> NULL]
  /\ answer = [r \in Ref |-> "none"]

\* The test every operation but pool_alloc makes before it touches a node.
Ignored(a) == allocCount = 0 \/ a < 1 \/ a >= Capacity + 1

\* Mutant: pool_alloc leaves the node at the head of the free list.
pool_alloc_slip(r) ==
  /\ holder[r] = NULL
  /\ freeList # << >>
  /\ holder' = [holder EXCEPT ![r] = Head(freeList)]
  /\ retainCount' = [retainCount EXCEPT ![Head(freeList)] = 1]
  /\ allocCount' = allocCount + 1
  /\ answer' = [answer EXCEPT ![r] = "given"]
  /\ UNCHANGED freeList

pool_alloc(r) ==
  /\ holder[r] = NULL
  /\ freeList # << >>
  /\ holder' = [holder EXCEPT ![r] = Head(freeList)]
  /\ freeList' = Tail(freeList)
  /\ retainCount' = [retainCount EXCEPT ![Head(freeList)] = 1]
  /\ allocCount' = allocCount + 1
  /\ answer' = [answer EXCEPT ![r] = "given"]

pool_alloc_null(r) ==
  /\ holder[r] = NULL
  /\ freeList = << >>
  /\ answer' = [answer EXCEPT ![r] = "refused"]
  /\ UNCHANGED <<freeList, retainCount, allocCount, holder>>

\* A client comes by an object of another pool.
Borrow(r) ==
  /\ holder[r] = NULL
  /\ \E a \in Address \ Object : holder' = [holder EXCEPT ![r] = a]
  /\ UNCHANGED <<freeList, retainCount, allocCount, answer>>

\* Mutant: pool_retain forgets the count of an object retained before.
pool_retain_slip(r, q) ==
  /\ holder[r] # NULL
  /\ holder[q] = NULL
  /\ retainCount' = IF Ignored(holder[r]) THEN retainCount
                    ELSE [retainCount EXCEPT ![holder[r]] = 2]
  /\ holder' = [holder EXCEPT ![q] = holder[r]]
  /\ UNCHANGED <<freeList, allocCount, answer>>

pool_retain(r, q) ==
  /\ holder[r] # NULL
  /\ holder[q] = NULL
  /\ retainCount' = IF Ignored(holder[r]) THEN retainCount
                    ELSE [retainCount EXCEPT ![holder[r]] = retainCount[holder[r]] + 1]
  /\ holder' = [holder EXCEPT ![q] = holder[r]]
  /\ UNCHANGED <<freeList, allocCount, answer>>

\* Mutant: pool_free_node forgets the retain count: a pool_free leaves it at 1.
pool_free_node_slip(o) ==
  /\ freeList' = <<o>> \o freeList
  /\ allocCount' = allocCount - 1
  /\ UNCHANGED retainCount

pool_free_node(o) ==
  /\ freeList' = <<o>> \o freeList
  /\ retainCount' = [retainCount EXCEPT ![o] = 0]
  /\ allocCount' = allocCount - 1

pool_release(r) ==
  /\ holder[r] # NULL
  /\ LET a == holder[r] IN
       IF Ignored(a)
       THEN UNCHANGED <<freeList, retainCount, allocCount>>
       ELSE IF retainCount[a] = 1
       THEN pool_free_node(a)
       ELSE /\ retainCount' = [retainCount EXCEPT ![a] = retainCount[a] - 1]
            /\ UNCHANGED <<freeList, allocCount>>
  /\ holder' = [holder EXCEPT ![r] = NULL]
  /\ answer' = [answer EXCEPT ![r] = "none"]

\* pool_free gives the object back whatever its count: its only callers are
\* the error paths of the read handler, which own the packet alone.
pool_free(r) ==
  /\ holder[r] # NULL
  /\ \A q \in Ref \ {r} : holder[q] # holder[r]
  /\ IF Ignored(holder[r])
     THEN UNCHANGED <<freeList, retainCount, allocCount>>
     ELSE pool_free_node(holder[r])
  /\ holder' = [holder EXCEPT ![r] = NULL]
  /\ answer' = [answer EXCEPT ![r] = "none"]

Next ==
  \E r \in Ref :
    \/ pool_alloc(r)
    \/ pool_alloc_null(r)
    \/ Borrow(r)
    \/ pool_release(r)
    \/ pool_free(r)
    \/ \E q \in Ref : pool_retain(r, q)

Spec == Init /\ [][Next]_vars

-----------------------------------------------------------------------------
Holders(o) == {r \in Ref : holder[r] = o}
InUse == {o \in Object : retainCount[o] # 0}

\* Every variable has its type.
TypeOK ==
  /\ freeList \in Seq(Object)
  /\ retainCount \in [Object -> Nat]
  /\ allocCount \in Nat
  /\ holder \in [Ref -> Address \cup {NULL}]
  /\ answer \in [Ref -> {"none", "given", "refused"}]

\* The retain count of an object is the number of references to it: no
\* release is lost and none is counted twice, so an object goes back to the
\* free list with its last reference and not before.
RetainCountExact ==
  \A o \in Object : retainCount[o] = Cardinality(Holders(o))

\* The free list holds each object with retain count 0, once: no object is
\* lost to the pool and none can be handed out twice.
FreeListExact ==
  /\ \A i, j \in 1..Len(freeList) : freeList[i] = freeList[j] => i = j
  /\ \A o \in Object :
       retainCount[o] = 0 <=> \E i \in 1..Len(freeList) : freeList[i] = o

\* allocCount, which the early returns of retain, free and release rely on,
\* is the number of objects in use.
AllocCountExact == allocCount = Cardinality(InUse)

\* Both counts are exact at once: each is what the operations test before they
\* change the other.
CountsExact == RetainCountExact /\ AllocCountExact

IInv == TypeOK /\ RetainCountExact /\ FreeListExact /\ AllocCountExact

\* The pool keeps the promise of PoolSpec: an allocation returns an object
\* no reference holds, and is refused only when every object is held.
Promise == INSTANCE PoolSpec
PoolPromise == Promise!Spec

=============================================================================
