------------------------------ MODULE PoolSpec ------------------------------
(***************************************************************************)
(* What the memory pool of pool.h promises its clients, without a free     *)
(* list or counters.  A client works through references; a reference holds *)
(* one object or nothing.  An object is handed out only when no reference  *)
(* holds it, and an allocation is refused only when every object is held.  *)
(***************************************************************************)
EXTENDS Naturals

CONSTANTS
  Capacity,   \* number of objects of the pool (pool_create's capacity)
  Ref,        \* the references the clients may keep
  NULL        \* "no object"

Object == 1..Capacity

VARIABLES
  holder,     \* holder[r]: the address reference r keeps, NULL if none
  answer      \* what the last allocation for r answered, until r is given up

vars == <<holder, answer>>

Held(a) == \E r \in Ref : holder[r] = a

Init ==
  /\ holder = [r \in Ref |-> NULL]
  /\ answer = [r \in Ref |-> "none"]

Alloc(r) ==
  /\ holder[r] = NULL
  /\ \E o \in Object :
       /\ ~Held(o)
       /\ holder' = [holder EXCEPT ![r] = o]
  /\ answer' = [answer EXCEPT ![r] = "given"]

Refuse(r) ==
  /\ holder[r] = NULL
  /\ \A o \in Object : Held(o)
  /\ answer' = [answer EXCEPT ![r] = "refused"]
  /\ UNCHANGED holder

\* A reference to an object of another pool: never given out by this one.
Borrow(r) ==
  /\ holder[r] = NULL
  /\ \E a \in {0, Capacity + 1} : holder' = [holder EXCEPT ![r] = a]
  /\ UNCHANGED answer

Retain(r, q) ==
  /\ holder[r] # NULL
  /\ holder[q] = NULL
  /\ holder' = [holder EXCEPT ![q] = holder[r]]
  /\ UNCHANGED answer

Drop(r) ==
  /\ holder[r] # NULL
  /\ holder' = [holder EXCEPT ![r] = NULL]
  /\ answer' = [answer EXCEPT ![r] = "none"]

Next ==
  \E r \in Ref :
    \/ Alloc(r)
    \/ Refuse(r)
    \/ Borrow(r)
    \/ Drop(r)
    \/ \E q \in Ref : Retain(r, q)

Spec == Init /\ [][Next]_vars

=============================================================================
