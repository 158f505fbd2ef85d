----------------------------- MODULE PoolThreads -----------------------------
(***************************************************************************)
(* pool_alloc and pool_release of pool.c taken apart into their accesses   *)
(* to shared memory.  The pool has no lock, and net_socket.c calls it from *)
(* the read handler on the global queue, from the write handler on         *)
(* socketDispatchQueue and from whatever thread sends.  Each thread here   *)
(* allocates a packet, owns it, and releases it.                           *)
(*                                                                         *)
(* pc[t] names the statement thread t executes next.  "++" and "--" on a   *)
(* shared counter are a load and a store.                                  *)
(***************************************************************************)
EXTENDS Naturals

CONSTANTS
  Capacity,   \* number of objects
  Thread,     \* the threads that use the pool
  Word,       \* number of values of an unsigned int
  NULL        \* the null pointer

Object == 1..Capacity

VARIABLES
  freeList,      \* head of the free list
  next,          \* next pointer of each node
  retainCount,   \* retain count of each node
  allocCount,    \* allocation count
  pc,            \* statement each thread is about to execute
  node,          \* local variable: the node the thread works on
  load,          \* local copy of allocCount between load and store
  owns           \* the object pool_alloc returned to the thread, or NULL

vars == <<freeList, next, retainCount, allocCount, pc, node, load, owns>>

\* pool_weave_freelist
Init ==
  /\ freeList = IF Capacity = 0 THEN NULL ELSE 1
  /\ next = [o \in Object |-> IF o = Capacity THEN NULL ELSE o + 1]
  /\ retainCount = [o \in Object |-> 0]
  /\ allocCount = 0
  /\ pc = [t \in Thread |-> "idle"]
  /\ node = [t \in Thread |-> NULL]
  /\ load = [t \in Thread |-> 0]
  /\ owns = [t \in Thread |-> NULL]

Goto(t, from, to) == pc[t] = from /\ pc' = [pc EXCEPT ![t] = to]

-----------------------------------------------------------------------------
(* pool_alloc *)

AllocRead(t) ==
  /\ owns[t] = NULL
  /\ freeList # NULL
  /\ Goto(t, "idle", "take")
  /\ node' = [node EXCEPT ![t] = freeList]
  /\ UNCHANGED <<freeList, next, retainCount, allocCount, load, owns>>

AllocTake(t) ==
  /\ Goto(t, "take", "reset")
  /\ freeList' = next[node[t]]
  /\ UNCHANGED <<next, retainCount, allocCount, node, load, owns>>

AllocReset(t) ==
  /\ Goto(t, "reset", "count")
  /\ next' = [next EXCEPT ![node[t]] = NULL]
  /\ retainCount' = [retainCount EXCEPT ![node[t]] = 1]
  /\ UNCHANGED <<freeList, allocCount, node, load, owns>>

AllocLoad(t) ==
  /\ Goto(t, "count", "counted")
  /\ load' = [load EXCEPT ![t] = allocCount]
  /\ UNCHANGED <<freeList, next, retainCount, allocCount, node, owns>>

AllocReturn(t) ==
  /\ Goto(t, "counted", "idle")
  /\ allocCount' = (load[t] + 1) % Word
  /\ owns' = [owns EXCEPT ![t] = node[t]]
  /\ UNCHANGED <<freeList, next, retainCount, node, load>>

-----------------------------------------------------------------------------
(* pool_release and pool_free_node *)

\* The early return is taken when allocCount says that nothing is allocated.
Release(t) ==
  /\ pc[t] = "idle"
  /\ owns[t] # NULL
  /\ LET last == retainCount[owns[t]] = 1 IN
       IF allocCount = 0
       THEN UNCHANGED <<retainCount, pc, node>>
       ELSE /\ retainCount' = [retainCount EXCEPT ![owns[t]] = (@ + Word - 1) % Word]
            /\ pc' = [pc EXCEPT ![t] = IF last THEN "link" ELSE "idle"]
            /\ node' = [node EXCEPT ![t] = owns[t]]
  /\ owns' = [owns EXCEPT ![t] = NULL]
  /\ UNCHANGED <<freeList, next, allocCount, load>>

FreeLink(t) ==
  /\ Goto(t, "link", "push")
  /\ next' = [next EXCEPT ![node[t]] = freeList]
  /\ UNCHANGED <<freeList, retainCount, allocCount, node, load, owns>>

FreePush(t) ==
  /\ Goto(t, "push", "clear")
  /\ freeList' = node[t]
  /\ UNCHANGED <<next, retainCount, allocCount, node, load, owns>>

FreeClear(t) ==
  /\ Goto(t, "clear", "uncount")
  /\ retainCount' = [retainCount EXCEPT ![node[t]] = 0]
  /\ load' = [load EXCEPT ![t] = allocCount]
  /\ UNCHANGED <<freeList, next, allocCount, node, owns>>

FreeReturn(t) ==
  /\ Goto(t, "uncount", "idle")
  /\ allocCount' = (load[t] + Word - 1) % Word
  /\ UNCHANGED <<freeList, next, retainCount, node, load, owns>>

Next ==
  \E t \in Thread :
    \/ AllocRead(t) \/ AllocTake(t) \/ AllocReset(t) \/ AllocLoad(t) \/ AllocReturn(t)
    \/ Release(t)
    \/ FreeLink(t) \/ FreePush(t) \/ FreeClear(t) \/ FreeReturn(t)

Spec == Init /\ [][Next]_vars

-----------------------------------------------------------------------------
\* A packet pool_alloc returned belongs to the caller alone ("Caller assumes
\* ownership for allocated net_packet_t", net_socket.h): no other thread got
\* the same one.
SoleOwner ==
  \A s, t \in Thread : s # t /\ owns[s] # NULL => owns[s] # owns[t]
=============================================================================
