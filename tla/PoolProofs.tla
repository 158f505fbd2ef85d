----------------------------- MODULE PoolProofs -----------------------------
(***************************************************************************)
(* The pool's counts and free list are exact, and the pool keeps the       *)
(* promise of PoolSpec, for every capacity and every finite set of         *)
(* references.                                                             *)
(***************************************************************************)
EXTENDS Pool, FiniteSetTheorems, SequenceTheorems, TLAPS

USE DEF Object, Address

\* The references to an object are finitely many.
LEMMA HoldersFinite == ASSUME NEW o PROVE IsFiniteSet(Holders(o))
  BY RefAssumption, FS_Subset DEF Holders

\* The objects in use are finitely many.
LEMMA InUseFinite == IsFiniteSet(InUse)
  <1>1. IsFiniteSet(1..Capacity)
    BY CapacityAssumption, FS_Interval
  <1>2. QED
    BY <1>1, FS_Subset DEF InUse

\* A reference that took an object adds one to the object's references.
LEMMA HoldersAdd ==
  ASSUME TypeOK, NEW r \in Ref, NEW o \in Object, holder[r] = NULL,
         holder' = [holder EXCEPT ![r] = o]
  PROVE  /\ Cardinality(Holders(o)') = Cardinality(Holders(o)) + 1
         /\ \A p \in Object \ {o} : Holders(p)' = Holders(p)
  <1>0. o # NULL
    BY NullAssumption
  <1>1. Holders(o)' = Holders(o) \cup {r} /\ r \notin Holders(o)
    BY <1>0 DEF Holders, TypeOK
  <1>2. Cardinality(Holders(o) \cup {r}) = Cardinality(Holders(o)) + 1
    BY <1>1, HoldersFinite, FS_AddElement
  <1>3. \A p \in Object \ {o} : Holders(p)' = Holders(p)
    BY NullAssumption DEF Holders, TypeOK
  <1>4. QED
    BY <1>1, <1>2, <1>3

\* A reference that let an object go takes one from the object's references.
LEMMA HoldersRemove ==
  ASSUME TypeOK, NEW r \in Ref, NEW o \in Object, holder[r] = o,
         holder' = [holder EXCEPT ![r] = NULL]
  PROVE  /\ Cardinality(Holders(o)') = Cardinality(Holders(o)) - 1
         /\ \A p \in Object \ {o} : Holders(p)' = Holders(p)
  <1>1. Holders(o)' = Holders(o) \ {r} /\ r \in Holders(o)
    BY NullAssumption DEF Holders, TypeOK
  <1>2. Cardinality(Holders(o) \ {r}) = Cardinality(Holders(o)) - 1
    BY <1>1, HoldersFinite, FS_RemoveElement
  <1>3. \A p \in Object \ {o} : Holders(p)' = Holders(p)
    BY NullAssumption DEF Holders, TypeOK
  <1>4. QED
    BY <1>1, <1>2, <1>3

\* While the counts are exact, an object some reference holds is not free and
\* the early returns of pool_retain, pool_free and pool_release do not hit it.
LEMMA HeldNotIgnored ==
  ASSUME IInv, NEW r \in Ref, holder[r] \in Object
  PROVE  /\ retainCount[holder[r]] # 0
         /\ ~Ignored(holder[r])
  <1>1. r \in Holders(holder[r])
    BY DEF Holders
  <1>2. Cardinality(Holders(holder[r])) # 0
    BY <1>1, HoldersFinite, FS_EmptySet
  <1>3. retainCount[holder[r]] # 0
    BY <1>2 DEF IInv, RetainCountExact
  <1>4. InUse # {}
    BY <1>3 DEF InUse
  <1>5. allocCount # 0
    BY <1>4, InUseFinite, FS_EmptySet DEF IInv, AllocCountExact
  <1>6. QED
    BY <1>3, <1>5, CapacityAssumption DEF Ignored

\* An address of another pool is ignored.
LEMMA ForeignIgnored ==
  ASSUME TypeOK, NEW r \in Ref, holder[r] # NULL, holder[r] \notin Object
  PROVE  Ignored(holder[r])
  BY CapacityAssumption DEF TypeOK, Ignored

LEMMA InitIInv == Init => IInv
  <1> SUFFICES ASSUME Init PROVE IInv
    OBVIOUS
  <1>1. TypeOK
    BY CapacityAssumption DEF Init, TypeOK
  <1>2. RetainCountExact
    <2>1. \A o \in Object : Holders(o) = {}
      BY NullAssumption, CapacityAssumption DEF Init, Holders
    <2>2. QED
      BY <2>1, FS_EmptySet DEF Init, RetainCountExact
  <1>3. FreeListExact
    BY CapacityAssumption DEF Init, FreeListExact
  <1>4. AllocCountExact
    <2>1. InUse = {}
      BY DEF Init, InUse
    <2>2. QED
      BY <2>1, FS_EmptySet DEF Init, AllocCountExact
  <1>5. QED
    BY <1>1, <1>2, <1>3, <1>4 DEF IInv

\* pool_alloc keeps the counts and the free list exact.
LEMMA AllocStep ==
  ASSUME IInv, NEW r \in Ref, pool_alloc(r)
  PROVE  IInv' /\ ~Promise!Held(Head(freeList)) /\ Head(freeList) \in Object
  <1>0. PICK o \in Object : o = Head(freeList)
    <2>1. freeList \in Seq(Object) /\ freeList # << >>
      BY DEF IInv, TypeOK, pool_alloc
    <2>2. Head(freeList) \in Object
      BY <2>1, HeadTailProperties, Zenon
    <2>3. QED
      BY <2>2, Zenon
  <1>1. /\ o = freeList[1] /\ Len(freeList) \in Nat \ {0}
        /\ retainCount[o] = 0
        /\ holder' = [holder EXCEPT ![r] = o]
        /\ retainCount' = [retainCount EXCEPT ![o] = 1]
        /\ allocCount' = allocCount + 1
    BY <1>0 DEF IInv, TypeOK, FreeListExact, pool_alloc
  <1>2. Cardinality(Holders(o)) = 0 /\ holder[r] = NULL
    BY <1>1 DEF IInv, RetainCountExact, pool_alloc
  <1>3. TypeOK'
    BY <1>1, CapacityAssumption DEF IInv, TypeOK, pool_alloc
  <1>4. RetainCountExact'
    <2>1. /\ Cardinality(Holders(o)') = Cardinality(Holders(o)) + 1
          /\ \A p \in Object \ {o} : Holders(p)' = Holders(p)
      BY <1>1, <1>2, HoldersAdd DEF IInv
    <2>2. QED
      BY <1>1, <1>2, <2>1 DEF IInv, TypeOK, RetainCountExact
  <1>5. FreeListExact'
    <2>1. /\ Len(freeList') = Len(freeList) - 1
          /\ \A i \in 1..Len(freeList') : freeList'[i] = freeList[i + 1]
      BY <1>1 DEF IInv, TypeOK, pool_alloc
    <2>2. \A i, j \in 1..Len(freeList') : freeList'[i] = freeList'[j] => i = j
      BY <1>1, <2>1 DEF IInv, FreeListExact
    <2>3. ASSUME NEW p \in Object
          PROVE  retainCount'[p] = 0 <=> \E i \in 1..Len(freeList') : freeList'[i] = p
      <3>1. CASE p = o
        <4>1. \A i \in 1..Len(freeList') : freeList'[i] # o
          BY <1>1, <2>1 DEF IInv, FreeListExact
        <4>2. QED
          BY <1>1, <3>1, <4>1 DEF IInv, TypeOK
      <3>2. CASE p # o
        <4>1. retainCount'[p] = retainCount[p]
          BY <1>1, <3>2 DEF IInv, TypeOK
        <4>2. ASSUME NEW i \in 1..Len(freeList), freeList[i] = p
              PROVE  i - 1 \in 1..Len(freeList') /\ freeList'[i - 1] = p
          BY <1>1, <2>1, <3>2, <4>2
        <4>3. ASSUME NEW i \in 1..Len(freeList'), freeList'[i] = p
              PROVE  i + 1 \in 1..Len(freeList) /\ freeList[i + 1] = p
          BY <1>1, <2>1, <4>3
        <4>4. QED
          BY <4>1, <4>2, <4>3 DEF IInv, FreeListExact
      <3>3. QED
        BY <3>1, <3>2
    <2>4. QED
      BY <2>2, <2>3 DEF FreeListExact
  <1>6. AllocCountExact'
    <2>1. InUse' = InUse \cup {o} /\ o \notin InUse
      BY <1>1 DEF IInv, TypeOK, InUse
    <2>2. QED
      BY <1>1, <2>1, InUseFinite, FS_AddElement DEF IInv, AllocCountExact
  <1>7. ~Promise!Held(o)
    <2>1. Holders(o) = {}
      BY <1>2, HoldersFinite, FS_EmptySet
    <2>2. QED
      BY <2>1 DEF Holders, Promise!Held
  <1>8. QED
    BY <1>0, <1>1, <1>3, <1>4, <1>5, <1>6, <1>7 DEF IInv

\* Putting an object back with its last reference keeps everything exact.
LEMMA FreeNodeStep ==
  ASSUME IInv, NEW r \in Ref, NEW o \in Object, holder[r] = o,
         Cardinality(Holders(o)) = 1, pool_free_node(o),
         holder' = [holder EXCEPT ![r] = NULL], answer' = [answer EXCEPT ![r] = "none"]
  PROVE  IInv'
  <1>1. retainCount[o] # 0 /\ retainCount' = [retainCount EXCEPT ![o] = 0]
    BY HeldNotIgnored DEF pool_free_node
  <1>2. InUse' = InUse \ {o} /\ o \in InUse
    BY <1>1 DEF IInv, TypeOK, InUse
  <1>3. AllocCountExact' /\ allocCount \in Nat \ {0}
    BY <1>2, InUseFinite, FS_RemoveElement, FS_EmptySet
       DEF IInv, TypeOK, AllocCountExact, pool_free_node
  <1>4. TypeOK'
    BY <1>3 DEF IInv, TypeOK, pool_free_node
  <1>5. RetainCountExact'
    <2>1. /\ Cardinality(Holders(o)') = Cardinality(Holders(o)) - 1
          /\ \A p \in Object \ {o} : Holders(p)' = Holders(p)
      BY HoldersRemove DEF IInv
    <2>2. QED
      BY <1>1, <2>1 DEF IInv, TypeOK, RetainCountExact
  <1>6. FreeListExact'
    <2>1. /\ freeList \in Seq(Object)
          /\ freeList' = <<o>> \o freeList
      BY DEF IInv, TypeOK, pool_free_node
    <2>2. /\ Len(freeList) \in Nat
          /\ Len(freeList') = Len(freeList) + 1
          /\ freeList'[1] = o
          /\ \A i \in 2..Len(freeList') : freeList'[i] = freeList[i - 1]
      BY <2>1
    <2>3. \A i \in 1..Len(freeList) : freeList[i] # o
      BY <1>1 DEF IInv, FreeListExact
    <2>4. ASSUME NEW i \in 1..Len(freeList'), NEW j \in 1..Len(freeList'),
                 freeList'[i] = freeList'[j]
          PROVE  i = j
      <3>1. CASE i = 1 \/ j = 1
        BY <2>2, <2>3, <2>4, <3>1
      <3>2. CASE i # 1 /\ j # 1
        <4>1. freeList[i - 1] = freeList[j - 1]
          BY <2>2, <2>4, <3>2
        <4>2. i - 1 \in 1..Len(freeList) /\ j - 1 \in 1..Len(freeList)
          BY <2>2, <3>2
        <4>3. i - 1 = j - 1
          BY <4>1, <4>2 DEF IInv, FreeListExact
        <4>4. QED
          BY <2>2, <4>3
      <3>3. QED
        BY <3>1, <3>2
    <2>5. ASSUME NEW p \in Object
          PROVE  retainCount'[p] = 0 <=> \E i \in 1..Len(freeList') : freeList'[i] = p
      <3>1. CASE p = o
        BY <1>1, <2>2, <3>1 DEF IInv, TypeOK
      <3>2. CASE p # o
        <4>1. retainCount'[p] = retainCount[p]
          BY <1>1, <3>2 DEF IInv, TypeOK
        <4>2. ASSUME NEW i \in 1..Len(freeList), freeList[i] = p
              PROVE  i + 1 \in 1..Len(freeList') /\ freeList'[i + 1] = p
          BY <2>2, <4>2
        <4>3. ASSUME NEW i \in 1..Len(freeList'), freeList'[i] = p
              PROVE  i - 1 \in 1..Len(freeList) /\ freeList[i - 1] = p
          BY <2>2, <3>2, <4>3
        <4>4. QED
          BY <4>1, <4>2, <4>3 DEF IInv, FreeListExact
      <3>3. QED
        BY <3>1, <3>2
    <2>6. QED
      BY <2>4, <2>5 DEF FreeListExact
  <1>7. QED
    BY <1>3, <1>4, <1>5, <1>6 DEF IInv

\* A step that touches neither the pool nor its objects' references.
LEMMA ForeignStep ==
  ASSUME IInv, TypeOK', UNCHANGED <<freeList, retainCount, allocCount>>,
         \A p \in Object : Holders(p)' = Holders(p)
  PROVE  IInv'
  <1>1. InUse' = InUse
    BY DEF InUse
  <1>2. QED
    BY <1>1 DEF IInv, RetainCountExact, FreeListExact, AllocCountExact

\* pool_retain keeps the counts and the free list exact.
LEMMA RetainStep ==
  ASSUME IInv, NEW r \in Ref, NEW q \in Ref, pool_retain(r, q)
  PROVE  IInv'
  <1>1. CASE holder[r] \notin Object
    <2>1. UNCHANGED <<freeList, retainCount, allocCount, answer>>
      BY <1>1, ForeignIgnored DEF IInv, pool_retain
    <2>2. TypeOK'
      BY <2>1 DEF IInv, TypeOK, pool_retain
    <2>3. \A p \in Object : Holders(p)' = Holders(p)
      BY <1>1, NullAssumption DEF IInv, TypeOK, Holders, pool_retain
    <2>4. QED
      BY <2>1, <2>2, <2>3, ForeignStep
  <1>2. CASE holder[r] \in Object
    <2>0. PICK o \in Object : o = holder[r]
      BY <1>2
    <2>1. /\ ~Ignored(o) /\ retainCount[o] # 0
          /\ retainCount' = [retainCount EXCEPT ![o] = retainCount[o] + 1]
          /\ holder[q] = NULL /\ holder' = [holder EXCEPT ![q] = o]
          /\ UNCHANGED <<freeList, allocCount, answer>>
      BY <2>0, HeldNotIgnored DEF pool_retain
    <2>2. TypeOK'
      <3>1. o \in Address /\ retainCount[o] + 1 \in Nat
        BY CapacityAssumption DEF IInv, TypeOK
      <3>2. QED
        BY <2>1, <3>1 DEF IInv, TypeOK
    <2>3. RetainCountExact'
      <3>1. /\ Cardinality(Holders(o)') = Cardinality(Holders(o)) + 1
            /\ \A p \in Object \ {o} : Holders(p)' = Holders(p)
        BY <2>1, HoldersAdd DEF IInv
      <3>2. QED
        BY <2>1, <3>1 DEF IInv, TypeOK, RetainCountExact
    <2>4. \A p \in Object : retainCount'[p] = 0 <=> retainCount[p] = 0
      BY <1>2, <2>1 DEF IInv, TypeOK
    <2>5. FreeListExact'
      BY <2>1, <2>4 DEF IInv, FreeListExact
    <2>6. InUse' = InUse
      BY <2>4 DEF InUse
    <2>7. QED
      BY <2>1, <2>2, <2>3, <2>5, <2>6 DEF IInv, AllocCountExact
  <1>3. QED
    BY <1>1, <1>2

\* pool_release and pool_free keep the counts and the free list exact.
LEMMA DropStep ==
  ASSUME IInv, NEW r \in Ref, pool_release(r) \/ pool_free(r)
  PROVE  IInv'
  <1>0. /\ holder[r] # NULL
        /\ holder' = [holder EXCEPT ![r] = NULL]
        /\ answer' = [answer EXCEPT ![r] = "none"]
    BY DEF pool_release, pool_free
  <1>1. CASE holder[r] \notin Object
    <2>1. UNCHANGED <<freeList, retainCount, allocCount>>
      BY <1>0, <1>1, ForeignIgnored DEF IInv, pool_release, pool_free
    <2>2. TypeOK'
      BY <1>0, <2>1 DEF IInv, TypeOK
    <2>3. \A p \in Object : Holders(p)' = Holders(p)
      BY <1>0, <1>1, NullAssumption DEF IInv, TypeOK, Holders
    <2>4. QED
      BY <2>1, <2>2, <2>3, ForeignStep
  <1>2. CASE holder[r] \in Object
    <2>0. PICK o \in Object : o = holder[r]
      BY <1>2
    <2>1. ~Ignored(o) /\ retainCount[o] \in Nat \ {0}
      BY <2>0, HeldNotIgnored DEF IInv, TypeOK
    <2>2. retainCount[o] = Cardinality(Holders(o))
      BY <1>2 DEF IInv, RetainCountExact
    <2>3. CASE pool_release(r) /\ retainCount[o] # 1
      <3>1. /\ retainCount' = [retainCount EXCEPT ![o] = retainCount[o] - 1]
            /\ UNCHANGED <<freeList, allocCount>>
        BY <2>0, <2>1, <2>3 DEF pool_release
      <3>2. TypeOK'
        BY <1>0, <1>2, <2>1, <3>1 DEF IInv, TypeOK
      <3>3. RetainCountExact'
        <4>1. /\ Cardinality(Holders(o)') = Cardinality(Holders(o)) - 1
              /\ \A p \in Object \ {o} : Holders(p)' = Holders(p)
          BY <1>0, <2>0, HoldersRemove DEF IInv
        <4>2. QED
          BY <2>2, <3>1, <4>1 DEF IInv, TypeOK, RetainCountExact
      <3>4. \A p \in Object : retainCount'[p] = 0 <=> retainCount[p] = 0
        BY <1>2, <2>1, <2>3, <3>1 DEF IInv, TypeOK
      <3>5. FreeListExact'
        BY <3>1, <3>4 DEF IInv, FreeListExact
      <3>6. InUse' = InUse
        BY <3>4 DEF InUse
      <3>7. QED
        BY <3>1, <3>2, <3>3, <3>5, <3>6 DEF IInv, AllocCountExact
    <2>4. CASE pool_release(r) /\ retainCount[o] = 1
      <3>1. pool_free_node(o)
        BY <2>0, <2>1, <2>4 DEF pool_release
      <3>2. QED
        BY <1>0, <2>0, <2>2, <2>4, <3>1, FreeNodeStep
    <2>5. CASE pool_free(r)
      <3>1. pool_free_node(o)
        BY <2>0, <2>1, <2>5 DEF pool_free
      <3>2. Holders(o) = {r}
        BY <2>0, <2>5 DEF Holders, pool_free
      <3>3. Cardinality(Holders(o)) = 1
        BY <3>2, FS_Singleton
      <3>4. QED
        BY <1>0, <2>0, <3>1, <3>3, FreeNodeStep
    <2>6. QED
      BY <2>3, <2>4, <2>5
  <1>3. QED
    BY <1>1, <1>2

\* Taking an object of another pool leaves this one alone.
LEMMA BorrowStep ==
  ASSUME IInv, NEW r \in Ref, Borrow(r)
  PROVE  IInv'
  <1>1. PICK a \in Address \ Object : holder' = [holder EXCEPT ![r] = a]
    BY DEF Borrow
  <1>2. UNCHANGED <<freeList, retainCount, allocCount, answer>> /\ holder[r] = NULL
    BY DEF Borrow
  <1>3. TypeOK'
    BY <1>1, <1>2 DEF IInv, TypeOK
  <1>4. \A p \in Object : Holders(p)' = Holders(p)
    BY <1>1, <1>2, NullAssumption DEF IInv, TypeOK, Holders
  <1>5. QED
    BY <1>2, <1>3, <1>4, ForeignStep

LEMMA NextIInv == IInv /\ [Next]_vars => IInv'
  <1> SUFFICES ASSUME IInv, [Next]_vars PROVE IInv'
    OBVIOUS
  <1>1. ASSUME NEW r \in Ref, pool_alloc(r) PROVE IInv'
    BY <1>1, AllocStep
  <1>2. ASSUME NEW r \in Ref, pool_alloc_null(r) PROVE IInv'
    BY <1>2 DEF IInv, TypeOK, RetainCountExact, FreeListExact, AllocCountExact,
                Holders, InUse, pool_alloc_null
  <1>3. ASSUME NEW r \in Ref, Borrow(r) PROVE IInv'
    BY <1>3, BorrowStep
  <1>4. ASSUME NEW r \in Ref, pool_release(r) \/ pool_free(r) PROVE IInv'
    BY <1>4, DropStep
  <1>5. ASSUME NEW r \in Ref, NEW q \in Ref, pool_retain(r, q) PROVE IInv'
    BY <1>5, RetainStep
  <1>6. CASE UNCHANGED vars
    BY <1>6 DEF vars, IInv, TypeOK, RetainCountExact, FreeListExact, AllocCountExact,
                Holders, InUse
  <1>7. QED
    BY <1>1, <1>2, <1>3, <1>4, <1>5, <1>6 DEF Next

LEMMA PoolInvariant == Spec => []IInv
  BY InitIInv, NextIInv, PTL DEF Spec

\* Every variable of the pool keeps its type: the free list holds objects of
\* the pool only, and no count gets negative.
THEOREM PoolTypes == Spec => []TypeOK
  <1>1. IInv => TypeOK
    BY DEF IInv
  <1>2. QED
    BY <1>1, PoolInvariant, PTL

\* Whatever clients do with their references, the retain count of an object
\* is the number of its holders and the allocation count of pool.c the number
\* of objects in use.
THEOREM PoolCountsExact == Spec => []CountsExact
  <1>1. IInv => CountsExact
    BY DEF IInv, CountsExact
  <1>2. QED
    BY <1>1, PoolInvariant, PTL

\* Whatever clients do, the free list of pool.c links the objects that are
\* free, each once, and no other.
THEOREM PoolFreeListExact == Spec => []FreeListExact
  <1>1. IInv => FreeListExact
    BY DEF IInv
  <1>2. QED
    BY <1>1, PoolInvariant, PTL

\* A refused allocation found every object held.
LEMMA RefuseStep ==
  ASSUME IInv, NEW r \in Ref, pool_alloc_null(r)
  PROVE  Promise!Refuse(r)
  <1>1. ASSUME NEW o \in Object PROVE Promise!Held(o)
    <2>1. retainCount[o] # 0
      BY DEF IInv, FreeListExact, pool_alloc_null
    <2>2. Cardinality(Holders(o)) # 0
      BY <2>1 DEF IInv, RetainCountExact
    <2>3. Holders(o) # {}
      BY <2>2, FS_EmptySet
    <2>4. QED
      BY <2>3 DEF Holders, Promise!Held
  <1>2. QED
    BY <1>1 DEF pool_alloc_null, Promise!Refuse, Promise!Object

LEMMA NextPromise == IInv /\ [Next]_vars => [Promise!Next]_(Promise!vars)
  <1> SUFFICES ASSUME IInv, [Next]_vars PROVE Promise!Next \/ UNCHANGED Promise!vars
    OBVIOUS
  <1>1. ASSUME NEW r \in Ref, pool_alloc(r) PROVE Promise!Alloc(r)
    BY <1>1, AllocStep DEF pool_alloc, Promise!Alloc, Promise!Object
  <1>2. ASSUME NEW r \in Ref, pool_alloc_null(r) PROVE Promise!Refuse(r)
    BY <1>2, RefuseStep
  <1>3. ASSUME NEW r \in Ref, Borrow(r) PROVE Promise!Borrow(r)
    <2>1. \A a \in Address \ Object : a \in {0, Capacity + 1}
      BY CapacityAssumption
    <2>2. QED
      BY <1>3, <2>1 DEF Borrow, Promise!Borrow
  <1>4. ASSUME NEW r \in Ref, pool_release(r) \/ pool_free(r) PROVE Promise!Drop(r)
    BY <1>4 DEF pool_release, pool_free, Promise!Drop
  <1>5. ASSUME NEW r \in Ref, NEW q \in Ref, pool_retain(r, q) PROVE Promise!Retain(r, q)
    BY <1>5 DEF pool_retain, Promise!Retain
  <1>6. CASE UNCHANGED vars
    BY <1>6 DEF vars, Promise!vars
  <1>7. QED
    BY <1>1, <1>2, <1>3, <1>4, <1>5, <1>6 DEF Next, Promise!Next

\* The pool implements its abstract specification: pool_alloc never returns
\* an object a reference still holds, and returns NULL only when all are held.
THEOREM PoolKeepsPromise == Spec => PoolPromise
  <1>1. Init => Promise!Init
    BY DEF Init, Promise!Init
  <1>2. QED
    BY <1>1, InitIInv, NextIInv, NextPromise, PTL DEF Spec, PoolPromise, Promise!Spec
=============================================================================
