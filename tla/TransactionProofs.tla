-------------------------- MODULE TransactionProofs --------------------------
(***************************************************************************)
(* What the transaction agent guarantees for every number of requests,     *)
(* every bound on ids, retries and packets, and, where nothing else is     *)
(* said, every way its threads overtake each other (Preempt).              *)
(***************************************************************************)
EXTENDS Transaction, FiniteSetTheorems, SequenceTheorems, TLAPS

(* What each operation of timeout_t does to its fields, and that a timeout *)
(* whose handler is not overtaken has one source at a time.                *)

SourceStatus == {"none", "armed", "called", "cleared", "done", "cancelled"}

LEMMA TimeoutFields ==
  ASSUME NEW to \in TimeoutType
  PROVE  /\ to.valid \in BOOLEAN
         /\ to.source \in 0..MaxSources
         /\ to.status \in [SourceId -> SourceStatus]
         /\ to.refs \in [SourceId -> Int]
  BY DEF TimeoutType, SourceStatus

LEMMA NewTimeoutFields ==
  /\ NewTimeout \in TimeoutType
  /\ ~NewTimeout.valid
  /\ NewTimeout.source = 0
  /\ NewTimeout.status = [n \in SourceId |-> "none"]
  /\ NewTimeout.refs = [n \in SourceId |-> 0]
  BY MaxSourcesAssumption DEF NewTimeout, TimeoutType

\* dispatch_release gives up a reference to the source the timeout points to;
\* the last one cancels a source that has not fired.
LEMMA ReleaseEffect ==
  ASSUME NEW to \in TimeoutType
  PROVE  LET d == dispatch_release(to)
             s == to.source
         IN  /\ d \in TimeoutType
             /\ d.valid = to.valid
             /\ d.source = s
             /\ d.refs = [n \in SourceId |-> IF n = s THEN to.refs[n] - 1 ELSE to.refs[n]]
             /\ d.status = [n \in SourceId |->
                              IF n = s /\ to.refs[n] = 1 /\ to.status[n] = "armed"
                              THEN "cancelled" ELSE to.status[n]]
  <1> DEFINE s == to.source
             r == [to.refs EXCEPT ![s] = to.refs[s] - 1]
             st == [to.status EXCEPT ![s] =
                      IF to.refs[s] = 1 /\ to.status[s] = "armed"
                      THEN "cancelled" ELSE to.status[s]]
  <1>1. dispatch_release(to) = [to EXCEPT !.refs = r, !.status = st]
    BY DEF dispatch_release
  <1>2. r = [n \in SourceId |-> IF n = s THEN to.refs[n] - 1 ELSE to.refs[n]]
    BY TimeoutFields
  <1>3. st = [n \in SourceId |-> IF n = s /\ to.refs[n] = 1 /\ to.status[n] = "armed"
                               THEN "cancelled" ELSE to.status[n]]
    BY TimeoutFields
  <1> HIDE DEF r, st
  <1>4. r \in [SourceId -> Int]
    BY <1>2, TimeoutFields
  <1>5. st \in [SourceId -> SourceStatus]
    BY <1>3, TimeoutFields DEF SourceStatus
  <1>6. QED
    BY <1>1, <1>2, <1>3, <1>4, <1>5 DEF TimeoutType, SourceStatus

\* timeout_destroy cancels the source of a valid timeout, if it has not fired,
\* and gives up a reference to it; it keeps the pointer.
LEMMA DestroyEffect ==
  ASSUME NEW to \in TimeoutType
  PROVE  LET d == timeout_destroy(to)
             Hit(n) == to.valid /\ n = to.source
         IN  /\ d \in TimeoutType
             /\ ~d.valid
             /\ d.source = to.source
             /\ d.refs = [n \in SourceId |-> IF Hit(n) THEN to.refs[n] - 1 ELSE to.refs[n]]
             /\ d.status = [n \in SourceId |-> IF Hit(n) /\ to.status[n] = "armed"
                                             THEN "cancelled" ELSE to.status[n]]
  <1>1. CASE to.valid
    <2> DEFINE s == to.source
               r == dispatch_release(to)
               c == IF to.status[s] = "armed" THEN "cancelled" ELSE to.status[s]
               st == [r.status EXCEPT ![s] = c]
    <2>1. timeout_destroy(to) = [r EXCEPT !.valid = FALSE, !.status = st]
      BY <1>1 DEF timeout_destroy
    <2>2. /\ r \in TimeoutType /\ r.source = s
          /\ r.refs = [n \in SourceId |-> IF n = s THEN to.refs[n] - 1 ELSE to.refs[n]]
          /\ r.status = [n \in SourceId |->
                           IF n = s /\ to.refs[n] = 1 /\ to.status[n] = "armed"
                           THEN "cancelled" ELSE to.status[n]]
      BY ReleaseEffect
    <2> HIDE DEF r
    <2>3. st = [n \in SourceId |-> IF n = s /\ to.status[n] = "armed"
                                 THEN "cancelled" ELSE to.status[n]]
      BY <2>2
    <2> HIDE DEF st
    <2>4. st \in [SourceId -> SourceStatus]
      BY <2>3, TimeoutFields DEF SourceStatus
    <2>5. /\ timeout_destroy(to) \in TimeoutType
          /\ ~timeout_destroy(to).valid
          /\ timeout_destroy(to).source = s
          /\ timeout_destroy(to).refs = r.refs
          /\ timeout_destroy(to).status = st
      BY <2>1, <2>2, <2>4 DEF TimeoutType, SourceStatus
    <2>6. QED
      BY <1>1, <2>2, <2>3, <2>5
  <1>2. CASE ~to.valid
    <2>1. timeout_destroy(to) = to
      BY <1>2 DEF timeout_destroy
    <2>2. QED
      BY <1>2, <2>1, TimeoutFields
  <1>3. QED
    BY <1>1, <1>2

\* timeout_create_block destroys the source there is and arms the next one.
LEMMA CreateEffect ==
  ASSUME NEW to \in TimeoutType, to.source < MaxSources
  PROVE  LET d == timeout_create_block(to)
             o == timeout_destroy(to)
             s == to.source + 1
         IN  /\ d \in TimeoutType
             /\ d.valid
             /\ d.source = s
             /\ d.refs = [n \in SourceId |-> IF n = s THEN 1 ELSE o.refs[n]]
             /\ d.status = [n \in SourceId |-> IF n = s THEN "armed" ELSE o.status[n]]
  <1> DEFINE s == to.source + 1
             o == timeout_destroy(to)
             r == [o.refs EXCEPT ![s] = 1]
             st == [o.status EXCEPT ![s] = "armed"]
  <1>1. timeout_create_block(to) = [o EXCEPT !.valid = TRUE, !.source = s, !.status = st,
                                             !.refs = r]
    BY DEF timeout_create_block
  <1>2. o \in TimeoutType
    BY DestroyEffect
  <1>3. s \in SourceId /\ s \in 0..MaxSources
    BY TimeoutFields, MaxSourcesAssumption DEF SourceId
  <1> HIDE DEF o
  <1>4. r = [n \in SourceId |-> IF n = s THEN 1 ELSE o.refs[n]]
    BY <1>2, TimeoutFields
  <1>5. st = [n \in SourceId |-> IF n = s THEN "armed" ELSE o.status[n]]
    BY <1>2, TimeoutFields
  <1> HIDE DEF r, st
  <1>6. r \in [SourceId -> Int]
    BY <1>2, <1>4, TimeoutFields
  <1>7. st \in [SourceId -> SourceStatus]
    BY <1>2, <1>5, TimeoutFields DEF SourceStatus
  <1> HIDE DEF s
  <1>8. /\ timeout_create_block(to) \in TimeoutType
        /\ timeout_create_block(to).valid
        /\ timeout_create_block(to).source = s
        /\ timeout_create_block(to).refs = r
        /\ timeout_create_block(to).status = st
    BY <1>1, <1>2, <1>3, <1>6, <1>7 DEF TimeoutType, SourceStatus
  <1>9. QED
    BY <1>4, <1>5, <1>8 DEF s, o

\* The block of a source's handler leaves the timeout as it is,
LEMMA HandlerBlockEffect ==
  ASSUME NEW to \in TimeoutType, NEW n \in SourceId
  PROVE  LET d == handler_block(to, n)
         IN  /\ d \in TimeoutType
             /\ d.valid = to.valid
             /\ d.source = to.source
             /\ d.refs = to.refs
             /\ d.status = [to.status EXCEPT ![n] = "called"]
  BY DEF handler_block, TimeoutType

\* then the timeout is made invalid, whatever source it points to,
LEMMA HandlerClearEffect ==
  ASSUME NEW to \in TimeoutType, NEW n \in SourceId
  PROVE  LET d == handler_clear(to, n)
         IN  /\ d \in TimeoutType
             /\ ~d.valid
             /\ d.source = to.source
             /\ d.refs = to.refs
             /\ d.status = [to.status EXCEPT ![n] = "cleared"]
  BY DEF handler_clear, TimeoutType

\* and the source it points to is released.
LEMMA HandlerReleaseEffect ==
  ASSUME NEW to \in TimeoutType, NEW n \in SourceId
  PROVE  LET d == handler_release(to, n)
             r == dispatch_release(to)
         IN  /\ d \in TimeoutType
             /\ d.valid = to.valid
             /\ d.source = to.source
             /\ d.refs = r.refs
             /\ d.status = [r.status EXCEPT ![n] = "done"]
  <1> DEFINE r == dispatch_release(to)
  <1>1. r \in TimeoutType /\ r.valid = to.valid /\ r.source = to.source
    BY ReleaseEffect
  <1>2. handler_release(to, n) = [r EXCEPT !.status[n] = "done"]
    BY DEF handler_release
  <1> HIDE DEF r
  <1>3. QED
    BY <1>1, <1>2 DEF TimeoutType, r

-----------------------------------------------------------------------------
(* One source at a time *)

Active == {"armed", "called", "cleared"}

\* The program owns one reference to the source that is armed or whose handler
\* runs, and none to any other; that source is the one the timeout points to,
\* and the timeout is valid until the handler clears it.
OneSource(to) ==
  /\ \A n \in SourceId :
       /\ to.refs[n] = IF to.status[n] \in Active THEN 1 ELSE 0
       /\ to.status[n] \in Active => n = to.source
       /\ n > to.source => to.status[n] = "none"
  /\ to.valid <=> \E n \in SourceId : n = to.source /\ to.status[n] \in {"armed", "called"}

LEMMA NewOneSource == OneSource(NewTimeout)
  BY NewTimeoutFields, MaxSourcesAssumption DEF OneSource, Active, SourceId

\* Destroying a timeout whose handler is not running leaves it no source.
LEMMA DestroyOneSource ==
  ASSUME NEW to \in TimeoutType, OneSource(to), InHandler(to) = {}
  PROVE  /\ OneSource(timeout_destroy(to))
         /\ Armed(timeout_destroy(to)) = {}
         /\ InHandler(timeout_destroy(to)) = {}
  <1> DEFINE d == timeout_destroy(to)
  <1>1. /\ ~d.valid
        /\ d.source = to.source
        /\ d.refs = [n \in SourceId |-> IF to.valid /\ n = to.source
                                      THEN to.refs[n] - 1 ELSE to.refs[n]]
        /\ d.status = [n \in SourceId |-> IF (to.valid /\ n = to.source)
                                            /\ to.status[n] = "armed"
                                        THEN "cancelled" ELSE to.status[n]]
    BY DestroyEffect
  <1> HIDE DEF d
  <1>2. \A n \in SourceId : to.status[n] \notin {"called", "cleared"}
    BY DEF InHandler
  <1>3. \A n \in SourceId : d.status[n] \notin Active
    BY <1>1, <1>2, TimeoutFields DEF OneSource, Active
  <1>4. \A n \in SourceId : d.refs[n] = 0
    BY <1>1, <1>2, TimeoutFields DEF OneSource, Active
  <1>5. \A n \in SourceId : n > d.source => d.status[n] = "none"
    BY <1>1, TimeoutFields DEF OneSource
  <1>6. OneSource(d)
    BY <1>1, <1>3, <1>4, <1>5 DEF OneSource, Active
  <1>7. Armed(d) = {} /\ InHandler(d) = {}
    BY <1>3 DEF Armed, InHandler, Active
  <1>8. QED
    BY <1>6, <1>7 DEF d

\* Creating one arms its new source only.
LEMMA CreateOneSource ==
  ASSUME NEW to \in TimeoutType, OneSource(to), InHandler(to) = {}, to.source < MaxSources
  PROVE  /\ OneSource(timeout_create_block(to))
         /\ Armed(timeout_create_block(to)) # {}
         /\ InHandler(timeout_create_block(to)) = {}
  <1> DEFINE d == timeout_create_block(to)
             o == timeout_destroy(to)
             s == to.source + 1
  <1>1. /\ d.valid /\ d.source = s
        /\ d.refs = [n \in SourceId |-> IF n = s THEN 1 ELSE o.refs[n]]
        /\ d.status = [n \in SourceId |-> IF n = s THEN "armed" ELSE o.status[n]]
    BY CreateEffect
  <1>2. OneSource(o) /\ Armed(o) = {} /\ InHandler(o) = {} /\ o.source = to.source
    BY DestroyOneSource, DestroyEffect
  <1>3. s \in SourceId
    BY TimeoutFields, MaxSourcesAssumption DEF SourceId
  <1> HIDE DEF d, o
  <1>4. \A n \in SourceId : o.status[n] \notin Active
    BY <1>2 DEF Armed, InHandler, Active
  <1>5. OneSource(d)
    <2>1. ASSUME NEW n \in SourceId
          PROVE  /\ d.refs[n] = IF d.status[n] \in Active THEN 1 ELSE 0
                 /\ d.status[n] \in Active => n = d.source
                 /\ n > d.source => d.status[n] = "none"
      <3>1. CASE n = s
        <4>1. ~(n > d.source)
          BY <1>1, <3>1, TimeoutFields
        <4>2. QED
          BY <1>1, <3>1, <4>1 DEF Active
      <3>2. CASE n # s
        <4>1. d.refs[n] = 0 /\ d.status[n] \notin Active
          BY <1>1, <1>2, <1>4, <3>2 DEF OneSource
        <4>2. n > d.source => d.status[n] = "none"
          <5>1. n > d.source => n > o.source
            BY <1>1, <1>2, TimeoutFields DEF SourceId
          <5>2. QED
            BY <1>1, <1>2, <3>2, <5>1 DEF OneSource
        <4>3. QED
          BY <4>1, <4>2
      <3>3. QED
        BY <3>1, <3>2
    <2>2. d.valid <=> \E n \in SourceId : n = d.source /\ d.status[n] \in {"armed", "called"}
      BY <1>1, <1>3
    <2>3. QED
      BY <2>1, <2>2 DEF OneSource
  <1>6. Armed(d) # {} /\ InHandler(d) = {}
    BY <1>1, <1>3, <1>4 DEF Armed, InHandler, Active
  <1>7. QED
    BY <1>5, <1>6 DEF d

\* A source that fires is the one the timeout points to, and stays the only
\* one until its handler has released it.
LEMMA HandlerOneSource ==
  ASSUME NEW to \in TimeoutType, OneSource(to), NEW n \in SourceId
  PROVE  /\ to.status[n] = "armed" =>
              OneSource(handler_block(to, n)) /\ InHandler(handler_block(to, n)) = {n}
         /\ to.status[n] = "called" =>
              OneSource(handler_clear(to, n)) /\ InHandler(handler_clear(to, n)) = {n}
         /\ to.status[n] = "cleared" =>
              /\ OneSource(handler_release(to, n))
              /\ InHandler(handler_release(to, n)) = {}
              /\ Armed(handler_release(to, n)) = {}
  <1>1. ASSUME to.status[n] = "armed"
        PROVE  OneSource(handler_block(to, n)) /\ InHandler(handler_block(to, n)) = {n}
    <2> DEFINE d == handler_block(to, n)
    <2>1. /\ d.valid = to.valid /\ d.source = to.source /\ d.refs = to.refs
          /\ d.status = [to.status EXCEPT ![n] = "called"]
      BY HandlerBlockEffect
    <2> HIDE DEF d
    <2>2. OneSource(d)
      BY <1>1, <2>1, TimeoutFields DEF OneSource, Active
    <2>3. InHandler(d) = {n}
      BY <1>1, <2>1, TimeoutFields DEF InHandler, OneSource, Active
    <2>4. QED
      BY <2>2, <2>3 DEF d
  <1>2. ASSUME to.status[n] = "called"
        PROVE  OneSource(handler_clear(to, n)) /\ InHandler(handler_clear(to, n)) = {n}
    <2> DEFINE d == handler_clear(to, n)
    <2>1. /\ ~d.valid /\ d.source = to.source /\ d.refs = to.refs
          /\ d.status = [to.status EXCEPT ![n] = "cleared"]
      BY HandlerClearEffect
    <2> HIDE DEF d
    <2>2. OneSource(d)
      BY <1>2, <2>1, TimeoutFields DEF OneSource, Active
    <2>3. InHandler(d) = {n}
      BY <1>2, <2>1, TimeoutFields DEF InHandler, OneSource, Active
    <2>4. QED
      BY <2>2, <2>3 DEF d
  <1>3. ASSUME to.status[n] = "cleared"
        PROVE  /\ OneSource(handler_release(to, n))
               /\ InHandler(handler_release(to, n)) = {}
               /\ Armed(handler_release(to, n)) = {}
    <2> DEFINE d == handler_release(to, n)
               r == dispatch_release(to)
    <2>1. n = to.source /\ to.refs[n] = 1 /\ ~to.valid
      BY <1>3, TimeoutFields DEF OneSource, Active
    <2>2. /\ r.refs = [m \in SourceId |-> IF m = to.source THEN to.refs[m] - 1 ELSE to.refs[m]]
          /\ r.status = [m \in SourceId |->
                           IF m = to.source /\ to.refs[m] = 1 /\ to.status[m] = "armed"
                           THEN "cancelled" ELSE to.status[m]]
      BY ReleaseEffect
    <2>3. /\ d.valid = to.valid /\ d.source = to.source /\ d.refs = r.refs
          /\ d.status = [r.status EXCEPT ![n] = "done"]
      BY HandlerReleaseEffect
    <2> HIDE DEF d, r
    <2>4. /\ d.refs = [m \in SourceId |-> IF m = n THEN 0 ELSE to.refs[m]]
          /\ d.status = [m \in SourceId |-> IF m = n THEN "done" ELSE to.status[m]]
      BY <1>3, <2>1, <2>2, <2>3, TimeoutFields
    <2>5. \A m \in SourceId : d.status[m] \notin Active /\ d.refs[m] = 0
      BY <2>1, <2>4 DEF OneSource, Active
    <2>6. OneSource(d)
      <3>1. \A m \in SourceId : m > d.source => m # n
        BY <2>1, <2>3, TimeoutFields
      <3>2. \A m \in SourceId : m > d.source => d.status[m] = "none"
        BY <2>3, <2>4, <3>1 DEF OneSource
      <3>3. QED
        BY <2>1, <2>3, <2>5, <3>2 DEF OneSource, Active
    <2>7. InHandler(d) = {} /\ Armed(d) = {}
      BY <2>5 DEF InHandler, Armed, Active
    <2>8. QED
      BY <2>6, <2>7 DEF d
  <1>4. QED
    BY <1>1, <1>2, <1>3

-----------------------------------------------------------------------------
(* The inductive invariant *)

\* Each (re)transmission has at most one dispatch source: one is created by
\* transactionRequest, before which there is none, and one by each retry.
SourcePerSend ==
  \A t \in Txn :
    /\ txn[t].timeout.source <= txn[t].retries + 1
    /\ retrying = t => txn[t].timeout.source <= txn[t].retries
    /\ pc[t] # "done" => txn[t].timeout.source = 0
    /\ pc[t] = "start" => txn[t].mem = "none"
    /\ (retrying = t \/ txn[t].state = "Waiting") => pc[t] = "done"

\* An insert block is for a transaction that is live and not yet in the table,
\* and there is one such block for it.
InsertsFresh ==
  \A i \in 1..Len(queue) : queue[i].op = "insert" =>
    /\ txn[queue[i].txn].mem = "live"
    /\ \A k \in TransactionId : transactions[k] # queue[i].txn
    /\ \A j \in 1..Len(queue) :
         queue[j].op = "insert" /\ queue[j].txn = queue[i].txn => j = i

Live == {t \in Txn : txn[t].mem = "live"}
ResponseBlocks(q) == {i \in 1..Len(q) : q[i].op = "response"}

\* The packets of the requests that wait in the peer's queue, one by one
Answers == {a \in Txn \X Nat : a[2] \in 1..answering[a[1]]}

PacketCount ==
  /\ IsFiniteSet(Live)
  /\ PacketsConserved

PeerPacketCount ==
  /\ IsFiniteSet(Answers)
  /\ peerPackets + Cardinality(Answers) = PeerPoolSize

AgentInv == TypeOK /\ SourcePerSend /\ InsertsFresh /\ TableLive /\ PacketCount /\ PeerPacketCount

-----------------------------------------------------------------------------
(* Types *)

LEMMA NextIdType == ASSUME cseq \in 0..(MaxId - 1) PROVE NextId \in 0..(MaxId - 1)
  BY MaxIdAssumption DEF NextId

LEMMA StructFields ==
  ASSUME NEW x \in Struct
  PROVE  /\ x.mem \in {"none", "live", "freed"}
         /\ x.state \in {"Idle", "Waiting", "Acknowledged", "Error", "Timeout"}
         /\ x.id \in TransactionId
         /\ x.retries \in 0..MaxRetries
         /\ x.timeout \in TimeoutType
  BY DEF Struct

LEMMA NewTransactionFields ==
  ASSUME NEW id \in TransactionId
  PROVE  /\ NewTransaction(id) \in Struct
         /\ NewTransaction(id).mem = "live"
         /\ NewTransaction(id).state = "Idle"
         /\ NewTransaction(id).id = id
         /\ NewTransaction(id).retries = 0
         /\ NewTransaction(id).timeout = NewTimeout
  BY NewTimeoutFields, RetriesAssumption DEF NewTransaction, Struct

\* The first block of the queue has the fields of its kind.
LEMMA HeadFields ==
  ASSUME TypeOK, NEW op, Runs(op)
  PROVE  /\ Tail(queue) \in Seq(Block)
         /\ op = "insert" => Head(queue).txn \in Txn
         /\ op = "response" => Head(queue).id \in TransactionId
         /\ op = "retry" => Head(queue).id \in TransactionId
  <1>1. Head(queue) \in Block /\ Tail(queue) \in Seq(Block)
    BY DEF TypeOK, Runs
  <1>2. QED
    BY <1>1 DEF Runs, Block

\* What a block finds in the table is NULL or a transaction.
LEMMA SearchType ==
  ASSUME TypeOK, NEW id \in TransactionId
  PROVE  /\ hashtable_search(transactions, id) \in Txn \cup {NULL}
         /\ hashtable_search(transactions, id) = transactions[id]
  BY DEF TypeOK, hashtable_search

\* transactionSetComplete frees t, destroys its timeout and takes it off the
\* table, and touches no other transaction.
LEMMA SetCompleteEffect ==
  ASSUME TypeOK, NEW t \in Txn, NEW state \in {"Acknowledged", "Error", "Timeout"},
         NEW extra \in {0, 1}, transactionSetComplete(t, state, extra)
  PROVE  /\ txn' \in [Txn -> Struct]
         /\ txn'[t].mem = "freed" /\ txn'[t].state = state
         /\ txn'[t].id = txn[t].id /\ txn'[t].retries = txn[t].retries
         /\ txn'[t].timeout = timeout_destroy(txn[t].timeout)
         /\ \A s \in Txn \ {t} : txn'[s] = txn[s]
         /\ transactions' = [k \in TransactionId |->
                               IF k = txn[t].id THEN NULL ELSE transactions[k]]
         /\ outcome' = [outcome EXCEPT ![t] = IF state = "Acknowledged" THEN "acked"
                                                ELSE "failed"]
         /\ freePackets' = freePackets + 1 + extra
  <1>1. txn[t] \in Struct
    BY DEF TypeOK
  <1>2. timeout_destroy(txn[t].timeout) \in TimeoutType
    BY <1>1, StructFields, DestroyEffect
  <1>3. /\ txn' \in [Txn -> Struct]
        /\ txn'[t].mem = "freed" /\ txn'[t].state = state
        /\ txn'[t].id = txn[t].id /\ txn'[t].retries = txn[t].retries
        /\ txn'[t].timeout = timeout_destroy(txn[t].timeout)
        /\ \A s \in Txn \ {t} : txn'[s] = txn[s]
    BY <1>1, <1>2 DEF transactionSetComplete, TypeOK, Struct
  <1>4. transactions' = [k \in TransactionId |->
                           IF k = txn[t].id THEN NULL ELSE transactions[k]]
    BY <1>1, StructFields DEF transactionSetComplete, hashtable_delete, TypeOK
  <1>5. QED
    BY <1>3, <1>4 DEF transactionSetComplete

\* The transactions the hashtable holds
Stored == {transactions[k] : k \in hashtable_iterate(transactions)}

\* transactionRemoveAll frees what the hashtable holds, and nothing else.
LEMMA RemoveAllEffect ==
  ASSUME TypeOK, transactionRemoveAll
  PROVE  /\ txn' \in [Txn -> Struct]
         /\ \A t \in Stored :
              /\ txn'[t].mem = "freed" /\ txn'[t].state = txn[t].state
              /\ txn'[t].id = txn[t].id /\ txn'[t].retries = txn[t].retries
              /\ txn'[t].timeout = timeout_destroy(txn[t].timeout)
         /\ \A t \in Txn \ Stored : txn'[t] = txn[t]
         /\ transactions' = [k \in TransactionId |-> NULL]
         /\ outcome' = [t \in Txn |-> IF t \in Stored THEN "removed" ELSE outcome[t]]
         /\ freePackets' = freePackets + Cardinality(hashtable_iterate(transactions))
         /\ Stored \subseteq Txn
         /\ Stored = {t \in Txn : \E k \in TransactionId : transactions[k] = t}
  <1>1. Stored = {t \in Txn : \E k \in TransactionId : transactions[k] = t}
    BY NullTxnAssumption DEF Stored, hashtable_iterate, TypeOK
  <1>2. /\ transactions' = [k \in TransactionId |-> NULL]
        /\ txn' = [t \in Txn |-> IF t \in Stored THEN Removed(txn[t]) ELSE txn[t]]
        /\ outcome' = [t \in Txn |-> IF t \in Stored THEN "removed" ELSE outcome[t]]
        /\ freePackets' = freePackets + Cardinality(hashtable_iterate(transactions))
    BY DEF transactionRemoveAll, Stored
  <1>3. ASSUME NEW t \in Txn
        PROVE  /\ Removed(txn[t]) \in Struct
               /\ Removed(txn[t]).mem = "freed" /\ Removed(txn[t]).state = txn[t].state
               /\ Removed(txn[t]).id = txn[t].id /\ Removed(txn[t]).retries = txn[t].retries
               /\ Removed(txn[t]).timeout = timeout_destroy(txn[t].timeout)
    <2>1. txn[t] \in Struct
      BY DEF TypeOK
    <2>2. timeout_destroy(txn[t].timeout) \in TimeoutType
      BY <2>1, StructFields, DestroyEffect
    <2>3. QED
      BY <2>1, <2>2 DEF Removed, Struct
  <1>4. \A t \in Txn : txn[t] \in Struct
    BY DEF TypeOK
  <1>5. QED
    BY <1>1, <1>2, <1>3, <1>4

\* The table has finitely many keys in use.
LEMMA KeysFinite == ASSUME TypeOK PROVE IsFiniteSet(hashtable_iterate(transactions))
  <1>1. IsFiniteSet(0..MaxId)
    BY MaxIdAssumption, FS_Interval
  <1>2. hashtable_iterate(transactions) \subseteq 0..MaxId
    BY DEF hashtable_iterate, TypeOK, TransactionId
  <1>3. QED
    BY <1>1, <1>2, FS_Subset

\* A step that only gives t another timeout
LEMMA TimeoutUpdate ==
  ASSUME TypeOK, NEW t \in Txn, NEW to \in TimeoutType,
         txn' = [txn EXCEPT ![t].timeout = to]
  PROVE  /\ txn' \in [Txn -> Struct]
         /\ txn'[t].mem = txn[t].mem /\ txn'[t].state = txn[t].state
         /\ txn'[t].id = txn[t].id /\ txn'[t].retries = txn[t].retries
         /\ txn'[t].timeout = to
         /\ \A s \in Txn \ {t} : txn'[s] = txn[s]
  <1>1. txn[t] \in Struct
    BY DEF TypeOK
  <1>2. QED
    BY <1>1 DEF TypeOK, Struct

\* The three steps of the handler of a timeout change the timeout only, and
\* not the source it points to.
LEMMA TimerEffect ==
  ASSUME TypeOK, NEW t \in Txn, NEW n \in SourceId, Timer(t, n)
  PROVE  /\ txn' \in [Txn -> Struct]
         /\ txn'[t].mem = txn[t].mem /\ txn'[t].state = txn[t].state
         /\ txn'[t].id = txn[t].id /\ txn'[t].retries = txn[t].retries
         /\ txn'[t].timeout.source = txn[t].timeout.source
         /\ \A s \in Txn \ {t} : txn'[s] = txn[s]
  <1> DEFINE to == txn[t].timeout
  <1>1. to \in TimeoutType
    BY StructFields DEF TypeOK
  <1>2. \E x \in {handler_block(to, n), handler_clear(to, n), handler_release(to, n)} :
          txn' = [txn EXCEPT ![t].timeout = x]
    BY DEF Timer, TimerBlock, TimerClear, TimerRelease
  <1>3. /\ handler_block(to, n) \in TimeoutType /\ handler_block(to, n).source = to.source
        /\ handler_clear(to, n) \in TimeoutType /\ handler_clear(to, n).source = to.source
        /\ handler_release(to, n) \in TimeoutType /\ handler_release(to, n).source = to.source
    BY <1>1, HandlerBlockEffect, HandlerClearEffect, HandlerReleaseEffect
  <1> HIDE DEF to
  <1>4. PICK x : x \in TimeoutType /\ x.source = to.source /\ txn' = [txn EXCEPT ![t].timeout = x]
    BY <1>2, <1>3
  <1>5. /\ txn' \in [Txn -> Struct]
        /\ txn'[t].mem = txn[t].mem /\ txn'[t].state = txn[t].state
        /\ txn'[t].id = txn[t].id /\ txn'[t].retries = txn[t].retries
        /\ txn'[t].timeout = x
        /\ \A s \in Txn \ {t} : txn'[s] = txn[s]
    BY <1>4, TimeoutUpdate
  <1>6. QED
    BY <1>4, <1>5 DEF to

\* Which handler step it is depends on where source n stands.
LEMMA TimerTimeout ==
  ASSUME TypeOK, NEW t \in Txn, NEW n \in SourceId, Timer(t, n)
  PROVE  LET to == txn[t].timeout
         IN  \/ to.status[n] = "armed" /\ txn'[t].timeout = handler_block(to, n)
             \/ to.status[n] = "called" /\ txn'[t].timeout = handler_clear(to, n)
             \/ to.status[n] = "cleared" /\ txn'[t].timeout = handler_release(to, n)
  <1> DEFINE to == txn[t].timeout
  <1>1. \/ to.status[n] = "armed" /\ txn' = [txn EXCEPT ![t].timeout = handler_block(to, n)]
        \/ to.status[n] = "called" /\ txn' = [txn EXCEPT ![t].timeout = handler_clear(to, n)]
        \/ to.status[n] = "cleared" /\ txn' = [txn EXCEPT ![t].timeout = handler_release(to, n)]
    BY DEF Timer, TimerBlock, TimerClear, TimerRelease, Armed
  <1>2. to \in TimeoutType
    BY StructFields DEF TypeOK
  <1>3. /\ handler_block(to, n) \in TimeoutType
        /\ handler_clear(to, n) \in TimeoutType
        /\ handler_release(to, n) \in TimeoutType
    BY <1>2, HandlerBlockEffect, HandlerClearEffect, HandlerReleaseEffect
  <1> HIDE DEF to
  <1>4. QED
    BY <1>1, <1>3, TimeoutUpdate DEF to

\* The first timeout of a transaction
LEMMA RequestArmEffect ==
  ASSUME TypeOK, SourcePerSend, NEW t \in Txn, RequestArm(t)
  PROVE  /\ txn' \in [Txn -> Struct]
         /\ txn'[t].mem = txn[t].mem /\ txn'[t].state = "Waiting"
         /\ txn'[t].id = txn[t].id /\ txn'[t].retries = txn[t].retries
         /\ txn'[t].timeout = timeout_create_block(txn[t].timeout)
         /\ txn[t].timeout.source = 0 /\ txn'[t].timeout.source = 1
         /\ \A s \in Txn \ {t} : txn'[s] = txn[s]
  <1>1. txn[t] \in Struct
    BY DEF TypeOK
  <1>2. txn[t].timeout.source = 0 /\ 0 < MaxSources
    BY MaxSourcesAssumption DEF RequestArm, SourcePerSend
  <1>3. /\ timeout_create_block(txn[t].timeout) \in TimeoutType
        /\ timeout_create_block(txn[t].timeout).source = 1
    <2>1. txn[t].timeout \in TimeoutType
      BY <1>1, StructFields
    <2>2. /\ timeout_create_block(txn[t].timeout) \in TimeoutType
          /\ timeout_create_block(txn[t].timeout).source = txn[t].timeout.source + 1
      BY <1>2, <2>1, CreateEffect
    <2>3. QED
      BY <1>2, <2>2
  <1>4. QED
    BY <1>1, <1>2, <1>3 DEF RequestArm, TypeOK, Struct

\* The first half of a retry
RetryOf(t) ==
  /\ t \in Txn
  /\ txn[t].state = "Waiting"
  /\ MayRetry(t)
  /\ txn' = [txn EXCEPT ![t].timeout = timeout_destroy(txn[t].timeout),
                        ![t].retries = txn[t].retries + 1]
  /\ requests' = [requests EXCEPT ![t] = requests[t] + 1]
  /\ retrying' = t
  /\ UNCHANGED <<transactions, freePackets, outcome>>

LEMMA RetryEffect ==
  ASSUME TypeOK, NEW t, RetryOf(t)
  PROVE  /\ txn' \in [Txn -> Struct]
         /\ txn'[t].mem = txn[t].mem /\ txn'[t].state = "Waiting"
         /\ txn'[t].id = txn[t].id /\ txn'[t].retries = txn[t].retries + 1
         /\ txn'[t].timeout = timeout_destroy(txn[t].timeout)
         /\ txn'[t].timeout.source = txn[t].timeout.source
         /\ \A s \in Txn \ {t} : txn'[s] = txn[s]
  <1>1. txn[t] \in Struct
    BY DEF TypeOK, RetryOf
  <1>2. /\ timeout_destroy(txn[t].timeout) \in TimeoutType
        /\ timeout_destroy(txn[t].timeout).source = txn[t].timeout.source
    BY <1>1, StructFields, DestroyEffect
  <1>3. txn[t].retries + 1 \in 0..MaxRetries
    BY <1>1, StructFields, RetriesAssumption DEF RetryOf, MayRetry
  <1>4. QED
    BY <1>1, <1>2, <1>3 DEF RetryOf, TypeOK, Struct

\* ... and the second
LEMMA RetryArmEffect ==
  ASSUME TypeOK, SourcePerSend, RetryArm
  PROVE  /\ retrying \in Txn
         /\ txn' \in [Txn -> Struct]
         /\ txn'[retrying].mem = txn[retrying].mem
         /\ txn'[retrying].state = txn[retrying].state
         /\ txn'[retrying].id = txn[retrying].id
         /\ txn'[retrying].retries = txn[retrying].retries
         /\ txn'[retrying].timeout = timeout_create_block(txn[retrying].timeout)
         /\ txn[retrying].timeout.source < MaxSources
         /\ txn'[retrying].timeout.source = txn[retrying].timeout.source + 1
         /\ \A s \in Txn \ {retrying} : txn'[s] = txn[s]
  <1>1. retrying \in Txn /\ txn[retrying] \in Struct
    BY DEF TypeOK, RetryArm
  <1>2. txn[retrying].timeout.source < MaxSources
    BY <1>1, StructFields, TimeoutFields, RetriesAssumption DEF SourcePerSend
  <1>3. /\ timeout_create_block(txn[retrying].timeout) \in TimeoutType
        /\ timeout_create_block(txn[retrying].timeout).source = txn[retrying].timeout.source + 1
    BY <1>1, <1>2, StructFields, CreateEffect
  <1>4. QED
    BY <1>1, <1>2, <1>3, TimeoutUpdate DEF RetryArm

-----------------------------------------------------------------------------
(* Every action keeps the types *)

LEMMA TypeStep == ASSUME AgentInv, Next, peerPackets' \in 0..PeerPoolSize PROVE TypeOK'
  <1> USE DEF AgentInv, peer, net, ghosts, control
  <1>1. ASSUME NEW t \in Txn, transactionRequest(t) PROVE TypeOK'
    <2>1. cseq \in TransactionId
      BY MaxIdAssumption DEF TypeOK, TransactionId
    <2>2. [op |-> "insert", txn |-> t] \in Block
      BY DEF Block
    <2>3. NewTransaction(cseq) \in Struct
      BY <2>1, NewTransactionFields
    <2>4. CASE freePackets = 0
      BY <1>1, <2>4 DEF transactionRequest, TypeOK
    <2>5. CASE freePackets # 0
      <3>1. txn' \in [Txn -> Struct] /\ cseq' \in 0..(MaxId - 1)
        BY <1>1, <2>3, <2>5, NextIdType DEF transactionRequest, TypeOK
      <3>2. queue' \in Seq(Block) /\ freePackets' \in Nat
        <4>1. Append(queue, [op |-> "insert", txn |-> t]) \in Seq(Block)
          BY <2>2, AppendProperties DEF TypeOK
        <4>2. /\ queue' = Append(queue, [op |-> "insert", txn |-> t])
              /\ freePackets' = freePackets - 1
          BY <1>1, <2>5 DEF transactionRequest
        <4>3. freePackets - 1 \in Nat
          BY <2>5 DEF TypeOK
        <4>4. QED
          BY <4>1, <4>2, <4>3
      <3>3. pc' \in [Txn -> {"start", "packed", "sent", "done"}]
        BY <1>1, <2>5 DEF transactionRequest, TypeOK
      <3>4. UNCHANGED <<transactions, isEnabled, retrying, net, control, ghosts>>
        BY <1>1, <2>5 DEF transactionRequest
      <3>5. QED
        BY <3>1, <3>2, <3>3, <3>4 DEF TypeOK
    <2>6. QED
      BY <2>4, <2>5
  <1>2. ASSUME NEW t \in Txn, RequestSend(t) PROVE TypeOK'
    BY <1>2 DEF RequestSend, TypeOK
  <1>3. ASSUME NEW t \in Txn, RequestArm(t) PROVE TypeOK'
    <2>1. txn' \in [Txn -> Struct]
      BY <1>3, RequestArmEffect
    <2>2. QED
      BY <1>3, <2>1 DEF RequestArm, TypeOK
  <1>4. ASSUME NEW t \in Txn, NEW n \in SourceId, Timer(t, n) PROVE TypeOK'
    <2>1. txn' \in [Txn -> Struct]
      BY <1>4, TimerEffect
    <2>2. [op |-> "retry", id |-> txn[t].id] \in Block
      BY StructFields DEF TypeOK, Block
    <2>3. queue' \in Seq(Block)
      <3>1. Append(queue, [op |-> "retry", id |-> txn[t].id]) \in Seq(Block)
        BY <2>2, AppendProperties DEF TypeOK
      <3>2. \/ queue' = queue
            \/ queue' = Append(queue, [op |-> "retry", id |-> txn[t].id])
        BY <1>4 DEF Timer, TimerBlock, TimerClear, TimerRelease
      <3>3. QED
        BY <3>1, <3>2 DEF TypeOK
    <2>4. QED
      BY <1>4, <2>1, <2>3 DEF Timer, TimerBlock, TimerClear, TimerRelease, TypeOK
  <1>5. ASSUME NEW t \in Txn, DidReceiveResponse(t) PROVE TypeOK'
    <2>1. \A type \in ResponseType :
            [op |-> "response", id |-> txn[t].id, type |-> type] \in Block
      BY StructFields DEF TypeOK, Block
    <2>2. \A type \in ResponseType :
            Append(queue, [op |-> "response", id |-> txn[t].id, type |-> type]) \in Seq(Block)
      BY <2>1, AppendProperties DEF TypeOK
    <2>3. queue' \in Seq(Block)
      BY <1>5, <2>2 DEF DidReceiveResponse, TypeOK
    <2>4. freePackets' \in Nat /\ responses' \in [Txn -> Nat]
      BY <1>5 DEF DidReceiveResponse, TypeOK
    <2>5. UNCHANGED <<transactions, cseq, isEnabled, txn, pc, retrying, requests, peer,
                      control, ghosts>>
      BY <1>5 DEF DidReceiveResponse
    <2>6. QED
      BY <2>3, <2>4, <2>5 DEF TypeOK
  <1>6. ASSUME NEW t \in Txn, DidReceiveRequest(t) PROVE TypeOK'
    <2>1. requests' \in [Txn -> Nat] /\ answering' \in [Txn -> Nat]
      BY <1>6 DEF DidReceiveRequest, TypeOK
    <2>2. QED
      BY <1>6, <2>1 DEF DidReceiveRequest, TypeOK
  <1>7. ASSUME NEW t \in Txn, RunRequest(t) PROVE TypeOK'
    BY <1>7, UnderstoodAssumption DEF RunRequest, TypeOK
  <1>8. ASSUME NEW op \in {"enable", "disable"}, Toggle(op) PROVE TypeOK'
    <2>1. [op |-> op] \in Block
      BY DEF Block
    <2>2. QED
      BY <1>8, <2>1, ToggleAssumption DEF Toggle, TypeOK
  <1>9. ASSUME RunInsert PROVE TypeOK'
    <2>1. Head(queue).txn \in Txn /\ Tail(queue) \in Seq(Block)
      BY <1>9, HeadFields DEF RunInsert
    <2>2. QED
      BY <1>9, <2>1 DEF RunInsert, hashtable_insert, TypeOK
  <1>10. ASSUME RunResponse PROVE TypeOK'
    <2>1. Head(queue).id \in TransactionId /\ Tail(queue) \in Seq(Block)
      BY <1>10, HeadFields DEF RunResponse
    <2> DEFINE t == hashtable_search(transactions, Head(queue).id)
               state == IF Head(queue).type = "Success" THEN "Acknowledged" ELSE "Error"
    <2>2. t \in Txn \cup {NULL}
      BY <2>1, SearchType
    <2>3. CASE t = NULL
      BY <1>10, <2>1, <2>3 DEF RunResponse, TypeOK
    <2>4. CASE t # NULL
      <3>1. t \in Txn /\ transactionSetComplete(t, state, 1)
        BY <1>10, <2>2, <2>4 DEF RunResponse
      <3>2. /\ txn' \in [Txn -> Struct]
            /\ transactions' = [k \in TransactionId |->
                                  IF k = txn[t].id THEN NULL ELSE transactions[k]]
            /\ outcome' = [outcome EXCEPT ![t] = IF state = "Acknowledged" THEN "acked"
                                                   ELSE "failed"]
            /\ freePackets' = freePackets + 1 + 1
        BY <3>1, SetCompleteEffect
      <3>3. UNCHANGED <<cseq, isEnabled, pc, retrying, net, control, received, leaked>>
              /\ queue' = Tail(queue)
        BY <1>10, <2>4 DEF RunResponse
      <3> HIDE DEF t, state
      <3>4. QED
        BY <2>1, <3>1, <3>2, <3>3 DEF TypeOK
    <2>5. QED
      BY <2>3, <2>4
  <1>11. ASSUME transactionRetryOrFail PROVE TypeOK'
    <2>1. Head(queue).id \in TransactionId /\ Tail(queue) \in Seq(Block)
      BY <1>11, HeadFields DEF transactionRetryOrFail
    <2> DEFINE t == hashtable_search(transactions, Head(queue).id)
    <2>2. t \in Txn \cup {NULL}
      BY <2>1, SearchType
    <2>3. /\ UNCHANGED <<cseq, isEnabled, pc, peer, responses, control, received, leaked>>
          /\ queue' = Tail(queue)
      BY <1>11 DEF transactionRetryOrFail
    <2>4. \/ UNCHANGED <<transactions, txn, retrying, requests, freePackets, outcome>>
          \/ RetryOf(t)
          \/ /\ t \in Txn
             /\ transactionSetComplete(t, "Timeout", 0)
             /\ UNCHANGED <<retrying, requests>>
      BY <1>11, <2>2 DEF transactionRetryOrFail, RetryOf
    <2> HIDE DEF t
    <2>5. CASE UNCHANGED <<transactions, txn, retrying, requests, freePackets, outcome>>
      BY <2>1, <2>3, <2>5 DEF TypeOK
    <2>6. CASE RetryOf(t)
      <3>1. txn' \in [Txn -> Struct]
        BY <2>6, RetryEffect
      <3>2. QED
        BY <2>1, <2>3, <2>6, <3>1 DEF RetryOf, TypeOK
    <2>7. CASE /\ t \in Txn
               /\ transactionSetComplete(t, "Timeout", 0)
               /\ UNCHANGED <<retrying, requests>>
      <3>1. /\ txn' \in [Txn -> Struct]
            /\ transactions' = [k \in TransactionId |->
                                  IF k = txn[t].id THEN NULL ELSE transactions[k]]
            /\ outcome' = [outcome EXCEPT ![t] = "failed"]
            /\ freePackets' = freePackets + 1 + 0
        BY <2>7, SetCompleteEffect
      <3>2. QED
        BY <2>1, <2>3, <2>7, <3>1 DEF TypeOK
    <2>8. QED
      BY <2>4, <2>5, <2>6, <2>7
  <1>12. ASSUME RetryArm PROVE TypeOK'
    <2>1. txn' \in [Txn -> Struct]
      BY <1>12, RetryArmEffect
    <2>2. QED
      BY <1>12, <2>1 DEF RetryArm, TypeOK
  <1>13. ASSUME RunEnable PROVE TypeOK'
    <2>1. Tail(queue) \in Seq(Block)
      BY <1>13, HeadFields DEF RunEnable
    <2>2. QED
      BY <1>13, <2>1 DEF RunEnable, TypeOK
  <1>14. ASSUME transactionRemoveAll,
                UNCHANGED <<cseq, pc, retrying, net, toggles, received, leaked>>,
                isEnabled' \in BOOLEAN, torn' \in BOOLEAN, queue' \in Seq(Block)
         PROVE  TypeOK'
    <2>1. /\ txn' \in [Txn -> Struct]
          /\ transactions' = [k \in TransactionId |-> NULL]
          /\ outcome' = [t \in Txn |-> IF t \in Stored THEN "removed" ELSE outcome[t]]
          /\ freePackets' = freePackets + Cardinality(hashtable_iterate(transactions))
      BY <1>14, RemoveAllEffect
    <2>3. Cardinality(hashtable_iterate(transactions)) \in Nat
      BY KeysFinite, FS_CardinalityType
    <2>4. QED
      BY <1>14, <2>1, <2>3 DEF TypeOK
  <1>15. ASSUME RunDisable PROVE TypeOK'
    <2>1. Tail(queue) \in Seq(Block)
      BY <1>15, HeadFields DEF RunDisable
    <2>2. CASE isEnabled
      <3>1. /\ transactionRemoveAll
            /\ UNCHANGED <<cseq, pc, retrying, net, toggles, received, leaked>>
            /\ isEnabled' \in BOOLEAN /\ torn' \in BOOLEAN /\ queue' \in Seq(Block)
        BY <1>15, <2>1, <2>2 DEF RunDisable, TypeOK
      <3>2. QED
        BY <1>14, <3>1
    <2>3. CASE ~isEnabled
      BY <1>15, <2>1, <2>3 DEF RunDisable, TypeOK
    <2>4. QED
      BY <2>2, <2>3
  <1>16. ASSUME transactionTeardown PROVE TypeOK'
    <2>1. /\ transactionRemoveAll
          /\ UNCHANGED <<cseq, pc, retrying, net, toggles, received, leaked>>
          /\ isEnabled' \in BOOLEAN /\ torn' \in BOOLEAN /\ queue' \in Seq(Block)
      BY <1>16 DEF transactionTeardown, TypeOK
    <2>2. QED
      BY <1>14, <2>1
  <1>17. QED
    BY <1>1, <1>2, <1>3, <1>4, <1>5, <1>6, <1>7, <1>8, <1>9, <1>10, <1>11, <1>12, <1>13,
       <1>15, <1>16 DEF Next, Caller, Network, DispatchQueue

-----------------------------------------------------------------------------
(* The two blocks that look a transaction up *)

\* The transaction stored under id completes.
CompletesAt(id, t, state, extra) ==
  /\ t \in Txn /\ transactions[id] = t
  /\ txn[t].mem = "live" /\ txn[t].id = id
  /\ transactionSetComplete(t, state, extra)
  /\ txn'[t].mem = "freed" /\ txn'[t].id = id
  /\ txn'[t].retries = txn[t].retries
  /\ txn'[t].state = state /\ state # "Waiting"
  /\ txn'[t].timeout = timeout_destroy(txn[t].timeout)
  /\ txn'[t].timeout.source = txn[t].timeout.source
  /\ \A s \in Txn \ {t} : txn'[s] = txn[s]
  /\ transactions' = [k \in TransactionId |-> IF k = id THEN NULL ELSE transactions[k]]
  /\ outcome' = [outcome EXCEPT ![t] = IF state = "Acknowledged" THEN "acked" ELSE "failed"]
  /\ freePackets' = freePackets + 1 + extra

LEMMA CompleteAt ==
  ASSUME TypeOK, TableLive, NEW id \in TransactionId, NEW t \in Txn, transactions[id] = t,
         NEW state \in {"Acknowledged", "Error", "Timeout"}, NEW extra \in {0, 1},
         transactionSetComplete(t, state, extra)
  PROVE  CompletesAt(id, t, state, extra)
  <1>1. txn[t].mem = "live" /\ txn[t].id = id
    BY NullTxnAssumption DEF TableLive
  <1>2. timeout_destroy(txn[t].timeout).source = txn[t].timeout.source
    BY StructFields, DestroyEffect DEF TypeOK
  <1>3. QED
    BY <1>1, <1>2, SetCompleteEffect DEF CompletesAt

\* A response's block finds nothing, or completes what it finds.
LEMMA ResponseCases ==
  ASSUME TypeOK, TableLive, RunResponse
  PROVE  LET id == Head(queue).id
         IN  /\ id \in TransactionId
             /\ \/ /\ transactions[id] = NULL
                   /\ leaked' = leaked + 1
                   /\ UNCHANGED <<transactions, txn, freePackets, outcome>>
                \/ \E t \in Txn : \E state \in {"Acknowledged", "Error"} :
                     /\ CompletesAt(id, t, state, 1)
                     /\ (state = "Acknowledged") => Head(queue).type = "Success"
                     /\ UNCHANGED leaked
  <1> DEFINE id == Head(queue).id
             t == hashtable_search(transactions, id)
             state == IF Head(queue).type = "Success" THEN "Acknowledged" ELSE "Error"
  <1>1. id \in TransactionId
    BY HeadFields DEF RunResponse
  <1>2. t \in Txn \cup {NULL} /\ t = transactions[id]
    BY <1>1, SearchType
  <1>3. CASE t = NULL
    BY <1>1, <1>2, <1>3 DEF RunResponse
  <1>4. CASE t # NULL
    <2>1. t \in Txn /\ transactionSetComplete(t, state, 1) /\ UNCHANGED leaked
      BY <1>2, <1>4 DEF RunResponse
    <2> HIDE DEF id, t
    <2>2. CompletesAt(id, t, state, 1)
      BY <1>1, <1>2, <2>1, CompleteAt
    <2>3. state \in {"Acknowledged", "Error"} /\ (state = "Acknowledged" => Head(queue).type = "Success")
      OBVIOUS
    <2> HIDE DEF state
    <2>4. QED
      BY <1>1, <2>1, <2>2, <2>3 DEF id
  <1>5. QED
    BY <1>3, <1>4

\* A retry's block finds nothing that waits, or sends what it finds again, or
\* completes it.
LEMMA RetryCases ==
  ASSUME TypeOK, TableLive, transactionRetryOrFail
  PROVE  LET id == Head(queue).id
         IN  /\ id \in TransactionId
             /\ \/ /\ transactions[id] = NULL \/ txn[transactions[id]].state # "Waiting"
                   /\ UNCHANGED <<transactions, txn, retrying, requests, freePackets, outcome>>
                \/ /\ RetryOf(transactions[id])
                   /\ txn[transactions[id]].mem = "live" /\ txn[transactions[id]].id = id
                \/ \E t \in Txn :
                     /\ CompletesAt(id, t, "Timeout", 0)
                     /\ UNCHANGED <<retrying, requests>>
  <1> DEFINE id == Head(queue).id
             t == hashtable_search(transactions, id)
  <1>1. id \in TransactionId
    BY HeadFields DEF transactionRetryOrFail
  <1>2. t \in Txn \cup {NULL} /\ t = transactions[id]
    BY <1>1, SearchType
  <1>3. \/ /\ t = NULL \/ txn[t].state # "Waiting"
           /\ UNCHANGED <<transactions, txn, retrying, requests, freePackets, outcome>>
        \/ RetryOf(t)
        \/ /\ t \in Txn
           /\ transactionSetComplete(t, "Timeout", 0)
           /\ UNCHANGED <<retrying, requests>>
    BY <1>2 DEF transactionRetryOrFail, RetryOf
  <1> HIDE DEF id, t
  <1>4. CASE RetryOf(t)
    BY <1>1, <1>2, <1>4, NullTxnAssumption DEF TableLive, RetryOf, id
  <1>5. CASE /\ t \in Txn
             /\ transactionSetComplete(t, "Timeout", 0)
             /\ UNCHANGED <<retrying, requests>>
    <2>1. CompletesAt(id, t, "Timeout", 0)
      BY <1>1, <1>2, <1>5, CompleteAt
    <2>2. QED
      BY <1>1, <1>5, <2>1 DEF id
  <1>6. QED
    BY <1>1, <1>2, <1>3, <1>4, <1>5 DEF id

\* The first block of the queue is taken off it.
LEMMA TailFacts ==
  ASSUME TypeOK, NEW op, Runs(op), queue' = Tail(queue)
  PROVE  /\ queue[1] = Head(queue) /\ queue[1].op = op
         /\ Len(queue) \in Nat \ {0} /\ Len(queue') = Len(queue) - 1
         /\ \A i \in 1..Len(queue') : queue'[i] = queue[i + 1] /\ i + 1 \in 2..Len(queue)
  BY DEF TypeOK, Runs

LEMMA AppendFacts ==
  ASSUME TypeOK, NEW b, queue' = Append(queue, b)
  PROVE  /\ Len(queue) \in Nat /\ Len(queue') = Len(queue) + 1
         /\ queue'[Len(queue) + 1] = b
         /\ \A i \in 1..Len(queue) : queue'[i] = queue[i] /\ i \in 1..Len(queue')
         /\ \A i \in 1..Len(queue') : i \in 1..Len(queue) \/ i = Len(queue) + 1
  BY DEF TypeOK

-----------------------------------------------------------------------------
LEMMA SourcePerSendStep == ASSUME AgentInv, Next PROVE SourcePerSend'
  <1> USE DEF AgentInv
  <1>0. \A t \in Txn : /\ txn[t] \in Struct /\ txn[t].retries \in Int
                       /\ txn[t].timeout.source \in Int
    BY StructFields, TimeoutFields, RetriesAssumption DEF TypeOK
  <1>1. ASSUME NEW t \in Txn, transactionRequest(t) PROVE SourcePerSend'
    <2>1. NewTransaction(cseq).timeout.source = 0 /\ NewTransaction(cseq).retries = 0
          /\ NewTransaction(cseq).state = "Idle"
      BY NewTimeoutFields DEF NewTransaction
    <2>2. /\ pc[t] = "start" /\ retrying' = retrying
          /\ \A s \in Txn \ {t} : pc'[s] = pc[s] /\ txn'[s] = txn[s]
          /\ \/ pc'[t] = "done" /\ txn'[t] = txn[t]
             \/ pc'[t] = "packed" /\ txn'[t] = NewTransaction(cseq)
      BY <1>1 DEF transactionRequest, TypeOK
    <2>3. retrying # t
      BY <2>2 DEF SourcePerSend
    <2>4. QED
      BY <1>0, <2>1, <2>2, <2>3 DEF SourcePerSend
  <1>2. ASSUME NEW t \in Txn, RequestSend(t) PROVE SourcePerSend'
    BY <1>0, <1>2 DEF RequestSend, SourcePerSend, TypeOK
  <1>3. ASSUME NEW t \in Txn, RequestArm(t) PROVE SourcePerSend'
    <2>1. /\ txn'[t].retries = txn[t].retries /\ txn'[t].timeout.source = 1
          /\ \A s \in Txn \ {t} : txn'[s] = txn[s]
          /\ 0 <= txn[t].retries
      <3>1. 0 <= txn[t].retries
        BY <1>0, StructFields
      <3>2. QED
        BY <1>3, <3>1, RequestArmEffect
    <2>2. /\ pc[t] = "sent" /\ pc'[t] = "done" /\ retrying' = retrying
          /\ \A s \in Txn \ {t} : pc'[s] = pc[s]
      BY <1>3 DEF RequestArm, TypeOK
    <2>3. retrying # t
      BY <2>2 DEF SourcePerSend
    <2>4. QED
      BY <1>0, <2>1, <2>2, <2>3 DEF SourcePerSend
  <1>4. ASSUME NEW t \in Txn, NEW n \in SourceId, Timer(t, n) PROVE SourcePerSend'
    <2>1. UNCHANGED <<pc, retrying>>
      BY <1>4 DEF Timer, TimerBlock, TimerClear, TimerRelease
    <2>2. QED
      BY <1>0, <1>4, <2>1, TimerEffect DEF SourcePerSend
  <1>5. ASSUME UNCHANGED <<txn, pc, retrying>> PROVE SourcePerSend'
    BY <1>5 DEF SourcePerSend
  <1>6. ASSUME RunResponse PROVE SourcePerSend'
    <2>1. UNCHANGED <<pc, retrying>>
      BY <1>6 DEF RunResponse
    <2>2. QED
      BY <1>0, <1>6, <2>1, ResponseCases DEF SourcePerSend, CompletesAt
  <1>7. ASSUME transactionRetryOrFail PROVE SourcePerSend'
    <2>1. UNCHANGED pc
      BY <1>7 DEF transactionRetryOrFail
    <2>2. CASE RetryOf(transactions[Head(queue).id])
      <3> DEFINE t == transactions[Head(queue).id]
      <3>1. /\ t \in Txn /\ txn[t].state = "Waiting" /\ retrying' = t
            /\ txn'[t].retries = txn[t].retries + 1
            /\ txn'[t].timeout.source = txn[t].timeout.source
            /\ \A s \in Txn \ {t} : txn'[s] = txn[s]
            /\ txn'[t].state = "Waiting"
        BY <2>2, RetryEffect DEF RetryOf
      <3> HIDE DEF t
      <3>2. QED
        BY <1>0, <2>1, <3>1 DEF SourcePerSend
    <2>3. CASE ~RetryOf(transactions[Head(queue).id])
      BY <1>0, <1>7, <2>1, <2>3, RetryCases DEF SourcePerSend, CompletesAt
    <2>4. QED
      BY <2>2, <2>3
  <1>8. ASSUME RetryArm PROVE SourcePerSend'
    <2>1. UNCHANGED pc /\ retrying' = NULL
      BY <1>8 DEF RetryArm
    <2>2. QED
      BY <1>0, <1>8, <2>1, RetryArmEffect, NullTxnAssumption DEF SourcePerSend
  <1>9. ASSUME transactionRemoveAll, UNCHANGED <<pc, retrying>> PROVE SourcePerSend'
    <2>1. \A t \in Txn : /\ txn'[t].timeout.source = txn[t].timeout.source
                         /\ txn'[t].retries = txn[t].retries
                         /\ txn'[t].state = txn[t].state
                         /\ txn[t].mem = "none" => txn'[t].mem = "none"
      <3>1. ASSUME NEW t \in Stored
            PROVE  /\ txn'[t].timeout.source = txn[t].timeout.source
                   /\ txn'[t].retries = txn[t].retries
                   /\ txn'[t].state = txn[t].state
                   /\ txn[t].mem = "live"
        <4>1. t \in Txn /\ \E k \in TransactionId : transactions[k] = t
          BY <1>9, RemoveAllEffect
        <4>2. txn[t].mem = "live"
          BY <4>1, NullTxnAssumption DEF TableLive
        <4>3. timeout_destroy(txn[t].timeout).source = txn[t].timeout.source
          BY <1>0, <4>1, DestroyEffect, StructFields
        <4>4. QED
          BY <1>9, <4>2, <4>3, RemoveAllEffect
      <3>2. \A t \in Txn \ Stored : txn'[t] = txn[t]
        BY <1>9, RemoveAllEffect
      <3>3. QED
        BY <3>1, <3>2
    <2>2. QED
      BY <1>0, <1>9, <2>1 DEF SourcePerSend
  <1>10. QED
    BY <1>1, <1>2, <1>3, <1>4, <1>5, <1>6, <1>7, <1>8, <1>9
    DEF Next, Caller, Network, DispatchQueue, DidReceiveResponse, DidReceiveRequest, RunRequest,
        Toggle, RunInsert, RunEnable, RunDisable, transactionTeardown

-----------------------------------------------------------------------------
(* The hashtable *)

\* The transaction of an insert block is not one that a block finds by id.
LEMMA WaitingInserts ==
  ASSUME TypeOK, InsertsFresh, NEW i \in 1..Len(queue), queue[i].op = "insert"
  PROVE  /\ queue[i].txn \in Txn
         /\ txn[queue[i].txn].mem = "live"
         /\ \A k \in TransactionId : transactions[k] # queue[i].txn
  <1>1. queue[i].txn \in Txn
    <2>1. queue[i] \in Block
      BY DEF TypeOK
    <2>2. QED
      BY <2>1 DEF Block
  <1>2. QED
    BY <1>1 DEF InsertsFresh

\* A step that frees nothing, leaves the table and dispatches another block
LEMMA InsertsAppend ==
  ASSUME TypeOK, InsertsFresh, NEW b, b.op # "insert", queue' = Append(queue, b),
         transactions' = transactions,
         \A t \in Txn : txn[t].mem = "live" => txn'[t].mem = "live"
  PROVE  InsertsFresh'
  <1>1. \A i \in 1..Len(queue) : queue[i].op = "insert" => queue[i].txn \in Txn
    BY WaitingInserts
  <1>2. /\ \A i \in 1..Len(queue) : queue'[i] = queue[i]
        /\ queue'[Len(queue) + 1] = b
        /\ \A i \in 1..Len(queue') : i \in 1..Len(queue) \/ i = Len(queue) + 1
    BY AppendFacts
  <1>3. \A i \in 1..Len(queue') : queue'[i].op = "insert" =>
          i \in 1..Len(queue) /\ queue'[i] = queue[i]
    BY <1>2
  <1>4. QED
    BY <1>1, <1>3 DEF InsertsFresh

\* A step that runs the first block, and of the transactions whose insert
\* block waits neither frees one nor stores one
LEMMA InsertsTail ==
  ASSUME TypeOK, InsertsFresh, NEW op, Runs(op), queue' = Tail(queue),
         \A i \in 2..Len(queue) : queue[i].op = "insert" =>
           /\ txn'[queue[i].txn].mem = "live"
           /\ \A k \in TransactionId : transactions'[k] # queue[i].txn
  PROVE  InsertsFresh'
  <1>1. /\ Len(queue) \in Nat \ {0} /\ Len(queue') = Len(queue) - 1
        /\ \A i \in 1..Len(queue') : queue'[i] = queue[i + 1] /\ i + 1 \in 2..Len(queue)
    BY TailFacts
  <1>2. ASSUME NEW i \in 1..Len(queue'), queue'[i].op = "insert",
               NEW j \in 1..Len(queue'), queue'[j].op = "insert", queue'[j].txn = queue'[i].txn
        PROVE  j = i
    <2>1. i + 1 \in 1..Len(queue) /\ j + 1 \in 1..Len(queue)
      BY <1>1
    <2>2. j + 1 = i + 1
      BY <1>1, <1>2, <2>1 DEF InsertsFresh
    <2>3. QED
      BY <1>1, <2>2
  <1>3. ASSUME NEW i \in 1..Len(queue'), queue'[i].op = "insert"
        PROVE  /\ txn'[queue'[i].txn].mem = "live"
               /\ \A k \in TransactionId : transactions'[k] # queue'[i].txn
    BY <1>1, <1>3
  <1>4. QED
    BY <1>2, <1>3 DEF InsertsFresh

LEMMA InsertsStep == ASSUME AgentInv, Next PROVE InsertsFresh'
  <1> USE DEF AgentInv
  <1>1. ASSUME NEW t \in Txn, transactionRequest(t) PROVE InsertsFresh'
    <2>1. txn[t].mem = "none"
      BY <1>1 DEF transactionRequest, SourcePerSend
    <2>2. CASE freePackets = 0
      BY <1>1, <2>2 DEF transactionRequest, InsertsFresh
    <2>3. CASE freePackets # 0
      <3>1. /\ queue' = Append(queue, [op |-> "insert", txn |-> t])
            /\ transactions' = transactions
            /\ txn' = [txn EXCEPT ![t] = NewTransaction(cseq)]
        BY <1>1, <2>3 DEF transactionRequest
      <3>2. txn'[t].mem = "live" /\ \A s \in Txn \ {t} : txn'[s] = txn[s]
        BY <3>1 DEF TypeOK, NewTransaction
      <3>3. \A k \in TransactionId : transactions[k] # t
        BY <2>1, NullTxnAssumption DEF TableLive
      <3>4. \A i \in 1..Len(queue) : queue[i].op = "insert" =>
              queue[i].txn \in Txn \ {t} /\ txn[queue[i].txn].mem = "live"
        BY <2>1, WaitingInserts
      <3>5. /\ \A i \in 1..Len(queue) : queue'[i] = queue[i]
            /\ queue'[Len(queue) + 1] = [op |-> "insert", txn |-> t]
            /\ \A i \in 1..Len(queue') : i \in 1..Len(queue) \/ i = Len(queue) + 1
        BY <3>1, AppendFacts
      <3>6. ASSUME NEW i \in 1..Len(queue'), queue'[i].op = "insert"
            PROVE  /\ txn'[queue'[i].txn].mem = "live"
                   /\ \A k \in TransactionId : transactions'[k] # queue'[i].txn
        BY <3>1, <3>2, <3>3, <3>4, <3>5, <3>6 DEF InsertsFresh
      <3>7. ASSUME NEW i \in 1..Len(queue'), queue'[i].op = "insert",
                   NEW j \in 1..Len(queue'), queue'[j].op = "insert",
                   queue'[j].txn = queue'[i].txn
            PROVE  j = i
        BY <3>4, <3>5, <3>7 DEF InsertsFresh
      <3>8. QED
        BY <3>6, <3>7 DEF InsertsFresh
    <2>4. QED
      BY <2>2, <2>3
  <1>2. ASSUME NEW t \in Txn, NEW n \in SourceId, Timer(t, n) PROVE InsertsFresh'
    <2>1. \A s \in Txn : txn'[s].mem = txn[s].mem
      BY <1>2, TimerEffect
    <2>2. transactions' = transactions
      BY <1>2 DEF Timer, TimerBlock, TimerClear, TimerRelease
    <2>3. CASE queue' = queue
      BY <2>1, <2>2, <2>3, WaitingInserts DEF InsertsFresh
    <2>4. CASE queue' = Append(queue, [op |-> "retry", id |-> txn[t].id])
      BY <2>1, <2>2, <2>4, InsertsAppend
    <2>5. QED
      BY <1>2, <2>3, <2>4 DEF Timer, TimerBlock, TimerClear, TimerRelease
  <1>3. ASSUME NEW t \in Txn, DidReceiveResponse(t) PROVE InsertsFresh'
    <2>1. UNCHANGED <<transactions, txn>>
      BY <1>3 DEF DidReceiveResponse
    <2>2. \/ queue' = queue
          \/ \E type \in ResponseType :
               queue' = Append(queue, [op |-> "response", id |-> txn[t].id, type |-> type])
      BY <1>3 DEF DidReceiveResponse
    <2>3. CASE queue' = queue
      BY <2>1, <2>3 DEF InsertsFresh
    <2>4. ASSUME NEW type \in ResponseType,
                 queue' = Append(queue, [op |-> "response", id |-> txn[t].id, type |-> type])
          PROVE  InsertsFresh'
      BY <2>1, <2>4, InsertsAppend
    <2>5. QED
      BY <2>2, <2>3, <2>4
  <1>4. ASSUME NEW op \in {"enable", "disable"}, Toggle(op) PROVE InsertsFresh'
    <2>1. UNCHANGED <<transactions, txn>> /\ queue' = Append(queue, [op |-> op])
      BY <1>4 DEF Toggle
    <2>2. QED
      BY <2>1, InsertsAppend
  <1>5. ASSUME NEW t \in Txn, RequestArm(t) PROVE InsertsFresh'
    <2>1. \A s \in Txn : txn'[s].mem = txn[s].mem
      BY <1>5, RequestArmEffect
    <2>2. QED
      BY <1>5, <2>1, WaitingInserts DEF RequestArm, InsertsFresh
  <1>6. ASSUME UNCHANGED <<txn, queue, transactions>> PROVE InsertsFresh'
    BY <1>6 DEF InsertsFresh
  <1>7. ASSUME RunInsert PROVE InsertsFresh'
    <2> DEFINE t == Head(queue).txn
    <2>1. t \in Txn /\ queue' = Tail(queue) /\ Runs("insert") /\ txn' = txn
      BY <1>7, HeadFields DEF RunInsert
    <2>2. queue[1].op = "insert" /\ queue[1].txn = t /\ Len(queue) \in Nat \ {0}
      BY <2>1, TailFacts
    <2>3. transactions' = [transactions EXCEPT ![txn[t].id] = t]
      BY <1>7, <2>1, StructFields DEF RunInsert, hashtable_insert, TypeOK
    <2>4. ASSUME NEW i \in 2..Len(queue), queue[i].op = "insert"
          PROVE  /\ txn'[queue[i].txn].mem = "live"
                 /\ \A k \in TransactionId : transactions'[k] # queue[i].txn
      <3>1. i \in 1..Len(queue) /\ 1 \in 1..Len(queue) /\ i # 1
        BY <2>2
      <3>2. queue[i].txn # t
        BY <2>2, <2>4, <3>1 DEF InsertsFresh
      <3>3. txn[queue[i].txn].mem = "live" /\ \A k \in TransactionId : transactions[k] # queue[i].txn
        BY <2>4, <3>1, WaitingInserts
      <3>4. QED
        BY <2>1, <2>3, <3>2, <3>3 DEF TypeOK
    <2>5. QED
      BY <2>1, <2>4, InsertsTail
  <1>8. ASSUME NEW op, Runs(op), queue' = Tail(queue),
               \A t \in Txn : txn'[t].mem = txn[t].mem \/ \E k \in TransactionId : transactions[k] = t,
               \A k \in TransactionId : transactions'[k] \in {transactions[k], NULL}
        PROVE  InsertsFresh'
    <2>1. ASSUME NEW i \in 2..Len(queue), queue[i].op = "insert"
          PROVE  /\ txn'[queue[i].txn].mem = "live"
                 /\ \A k \in TransactionId : transactions'[k] # queue[i].txn
      <3>1. i \in 1..Len(queue)
        BY <1>8, TailFacts
      <3>2. /\ queue[i].txn \in Txn
            /\ txn[queue[i].txn].mem = "live"
            /\ \A k \in TransactionId : transactions[k] # queue[i].txn
        BY <2>1, <3>1, WaitingInserts
      <3>3. QED
        BY <1>8, <3>2, NullTxnAssumption
    <2>2. QED
      BY <1>8, <2>1, InsertsTail
  <1>9. ASSUME RunResponse PROVE InsertsFresh'
    <2>1. Runs("response") /\ queue' = Tail(queue)
      BY <1>9 DEF RunResponse
    <2>2. /\ \A t \in Txn : txn'[t].mem = txn[t].mem
                            \/ \E k \in TransactionId : transactions[k] = t
          /\ \A k \in TransactionId : transactions'[k] \in {transactions[k], NULL}
      BY <1>9, ResponseCases DEF CompletesAt
    <2>3. QED
      BY <1>8, <2>1, <2>2
  <1>10. ASSUME transactionRetryOrFail PROVE InsertsFresh'
    <2>1. Runs("retry") /\ queue' = Tail(queue)
      BY <1>10 DEF transactionRetryOrFail
    <2>2. /\ \A t \in Txn : txn'[t].mem = txn[t].mem
                            \/ \E k \in TransactionId : transactions[k] = t
          /\ \A k \in TransactionId : transactions'[k] \in {transactions[k], NULL}
      <3>1. CASE RetryOf(transactions[Head(queue).id])
        <4>1. \A t \in Txn : txn'[t].mem = txn[t].mem
          BY <3>1, RetryEffect
        <4>2. QED
          BY <3>1, <4>1 DEF RetryOf
      <3>2. CASE ~RetryOf(transactions[Head(queue).id])
        BY <1>10, <3>2, RetryCases DEF CompletesAt
      <3>3. QED
        BY <3>1, <3>2
    <2>3. QED
      BY <1>8, <2>1, <2>2
  <1>11. ASSUME RetryArm PROVE InsertsFresh'
    <2>1. \A s \in Txn : txn'[s].mem = txn[s].mem
      BY <1>11, RetryArmEffect
    <2>2. QED
      BY <1>11, <2>1, WaitingInserts DEF RetryArm, InsertsFresh
  <1>12. ASSUME RunEnable PROVE InsertsFresh'
    <2>1. Runs("enable") /\ queue' = Tail(queue) /\ UNCHANGED <<txn, transactions>>
      BY <1>12 DEF RunEnable
    <2>2. QED
      BY <1>8, <2>1
  <1>13. ASSUME transactionRemoveAll
         PROVE  /\ \A t \in Txn : txn'[t].mem = txn[t].mem
                                  \/ \E k \in TransactionId : transactions[k] = t
                /\ \A k \in TransactionId : transactions'[k] \in {transactions[k], NULL}
    BY <1>13, RemoveAllEffect
  <1>14. ASSUME RunDisable PROVE InsertsFresh'
    <2>1. Runs("disable") /\ queue' = Tail(queue)
      BY <1>14 DEF RunDisable
    <2>2. transactionRemoveAll \/ UNCHANGED <<txn, transactions>>
      BY <1>14 DEF RunDisable
    <2>3. QED
      BY <1>8, <1>13, <2>1, <2>2
  <1>15. ASSUME transactionTeardown PROVE InsertsFresh'
    <2>1. queue' = queue /\ transactionRemoveAll
      BY <1>15 DEF transactionTeardown
    <2>2. QED
      BY <1>13, <2>1, WaitingInserts, NullTxnAssumption DEF InsertsFresh
  <1>16. QED
    BY <1>1, <1>2, <1>3, <1>4, <1>5, <1>6, <1>7, <1>9, <1>10, <1>11, <1>12, <1>14, <1>15
    DEF Next, Caller, Network, DispatchQueue, RequestSend, DidReceiveRequest, RunRequest

LEMMA TableStep == ASSUME AgentInv, Next PROVE TableLive'
  <1> USE DEF AgentInv
  <1>0. \A k \in TransactionId : transactions[k] # NULL =>
          /\ transactions[k] \in Txn
          /\ txn[transactions[k]].mem = "live"
          /\ txn[transactions[k]].id = k
    BY DEF TableLive, TypeOK
  <1>1. ASSUME NEW t \in Txn, transactionRequest(t) PROVE TableLive'
    <2>1. txn[t].mem = "none" /\ transactions' = transactions
      BY <1>1 DEF transactionRequest, SourcePerSend
    <2>2. \A s \in Txn \ {t} : txn'[s] = txn[s]
      BY <1>1 DEF transactionRequest, TypeOK
    <2>3. QED
      BY <1>0, <2>1, <2>2 DEF TableLive
  <1>2. ASSUME transactions' = transactions,
               \A t \in Txn : txn'[t].mem = txn[t].mem /\ txn'[t].id = txn[t].id
        PROVE  TableLive'
    BY <1>0, <1>2 DEF TableLive
  <1>3. ASSUME NEW t \in Txn, RequestArm(t) PROVE TableLive'
    <2>1. \A s \in Txn : txn'[s].mem = txn[s].mem /\ txn'[s].id = txn[s].id
      BY <1>3, RequestArmEffect
    <2>2. QED
      BY <1>2, <1>3, <2>1 DEF RequestArm
  <1>4. ASSUME NEW t \in Txn, NEW n \in SourceId, Timer(t, n) PROVE TableLive'
    <2>1. \A s \in Txn : txn'[s].mem = txn[s].mem /\ txn'[s].id = txn[s].id
      BY <1>4, TimerEffect
    <2>2. transactions' = transactions
      BY <1>4 DEF Timer, TimerBlock, TimerClear, TimerRelease
    <2>3. QED
      BY <1>2, <2>1, <2>2
  <1>5. ASSUME UNCHANGED <<txn, transactions>> PROVE TableLive'
    BY <1>2, <1>5
  <1>6. ASSUME RunInsert PROVE TableLive'
    <2> DEFINE t == Head(queue).txn
    <2>1. t \in Txn /\ Runs("insert") /\ queue' = Tail(queue) /\ txn' = txn
      BY <1>6, HeadFields DEF RunInsert
    <2>2. transactions' = [transactions EXCEPT ![txn[t].id] = t]
      BY <1>6, <2>1, StructFields DEF RunInsert, hashtable_insert, TypeOK
    <2>3. queue[1].op = "insert" /\ queue[1].txn = t /\ 1 \in 1..Len(queue)
      BY <2>1, TailFacts
    <2>4. txn[t].mem = "live"
      BY <2>3, WaitingInserts
    <2> HIDE DEF t
    <2>5. QED
      BY <1>0, <2>1, <2>2, <2>4 DEF TableLive, TypeOK
  <1>7. ASSUME NEW id \in TransactionId, NEW t \in Txn, NEW state, NEW extra,
               CompletesAt(id, t, state, extra)
        PROVE  TableLive'
    BY <1>0, <1>7 DEF TableLive, CompletesAt
  <1>8. ASSUME RunResponse PROVE TableLive'
    BY <1>5, <1>7, <1>8, ResponseCases
  <1>9. ASSUME transactionRetryOrFail PROVE TableLive'
    <2>1. CASE RetryOf(transactions[Head(queue).id])
      <3>1. \A s \in Txn : txn'[s].mem = txn[s].mem /\ txn'[s].id = txn[s].id
        BY <2>1, RetryEffect
      <3>2. QED
        BY <1>2, <2>1, <3>1 DEF RetryOf
    <2>2. CASE ~RetryOf(transactions[Head(queue).id])
      BY <1>5, <1>7, <1>9, <2>2, RetryCases
    <2>3. QED
      BY <2>1, <2>2
  <1>10. ASSUME RetryArm PROVE TableLive'
    <2>1. \A s \in Txn : txn'[s].mem = txn[s].mem /\ txn'[s].id = txn[s].id
      BY <1>10, RetryArmEffect
    <2>2. QED
      BY <1>2, <1>10, <2>1 DEF RetryArm
  <1>11. ASSUME transactionRemoveAll PROVE TableLive'
    BY <1>11, RemoveAllEffect DEF TableLive
  <1>12. QED
    BY <1>1, <1>3, <1>4, <1>5, <1>6, <1>8, <1>9, <1>10, <1>11
    DEF Next, Caller, Network, DispatchQueue, RequestSend, DidReceiveResponse, DidReceiveRequest,
        RunRequest, Toggle, RunEnable, RunDisable, transactionTeardown

-----------------------------------------------------------------------------
(* The packets of the client's pool *)

LEMMA ResponseBlocksFinite ==
  ASSUME NEW q, Len(q) \in Nat PROVE IsFiniteSet(ResponseBlocks(q))
  <1>1. IsFiniteSet(1..Len(q))
    BY FS_Interval
  <1>2. ResponseBlocks(q) \subseteq 1..Len(q)
    BY DEF ResponseBlocks
  <1>3. QED
    BY <1>1, <1>2, FS_Subset

\* A dispatched response is one more,
LEMMA ResponseBlocksAppend ==
  ASSUME TypeOK, NEW b, queue' = Append(queue, b)
  PROVE  Cardinality(ResponseBlocks(queue')) =
           Cardinality(ResponseBlocks(queue)) + (IF b.op = "response" THEN 1 ELSE 0)
  <1>1. /\ Len(queue) \in Nat /\ Len(queue') = Len(queue) + 1
        /\ \A i \in 1..Len(queue) : queue'[i] = queue[i]
        /\ queue'[Len(queue) + 1] = b
    BY AppendFacts
  <1>2. IsFiniteSet(ResponseBlocks(queue)) /\ Cardinality(ResponseBlocks(queue)) \in Nat
    BY <1>1, ResponseBlocksFinite, FS_CardinalityType
  <1>3. CASE b.op = "response"
    <2>1. /\ ResponseBlocks(queue') = ResponseBlocks(queue) \cup {Len(queue) + 1}
          /\ Len(queue) + 1 \notin ResponseBlocks(queue)
      BY <1>1, <1>3 DEF ResponseBlocks
    <2>2. QED
      BY <1>2, <1>3, <2>1, FS_AddElement
  <1>4. CASE b.op # "response"
    <2>1. ResponseBlocks(queue') = ResponseBlocks(queue)
      BY <1>1, <1>4 DEF ResponseBlocks
    <2>2. QED
      BY <1>2, <1>4, <2>1
  <1>5. QED
    BY <1>3, <1>4

\* and one that runs one less.
LEMMA ResponseBlocksTail ==
  ASSUME TypeOK, NEW op, Runs(op), queue' = Tail(queue)
  PROVE  Cardinality(ResponseBlocks(queue')) =
           Cardinality(ResponseBlocks(queue)) - (IF op = "response" THEN 1 ELSE 0)
  <1> DEFINE S == ResponseBlocks(queue')
             T == ResponseBlocks(queue) \ {1}
             f == [i \in S |-> i + 1]
  <1>1. /\ queue[1].op = op
        /\ Len(queue) \in Nat \ {0} /\ Len(queue') = Len(queue) - 1
        /\ \A i \in 1..Len(queue') : queue'[i] = queue[i + 1]
    BY TailFacts
  <1>2. IsFiniteSet(S) /\ IsFiniteSet(ResponseBlocks(queue))
    BY <1>1, ResponseBlocksFinite
  <1>3. f \in [S -> T]
    BY <1>1 DEF ResponseBlocks
  <1>4. \A i, j \in S : f[i] = f[j] => i = j
    BY DEF ResponseBlocks
  <1>5. \A j \in T : \E i \in S : f[i] = j
    <2>1. ASSUME NEW j \in T PROVE j - 1 \in S /\ f[j - 1] = j
      BY <1>1 DEF ResponseBlocks
    <2>2. QED
      BY <2>1
  <1> HIDE DEF f
  <1>6. ExistsBijection(S, T)
    BY <1>3, <1>4, <1>5 DEF ExistsBijection, Bijection, Injection, Surjection, IsInjective
  <1>7. Cardinality(T) = Cardinality(S)
    BY <1>2, <1>6, FS_Bijection
  <1>8. Cardinality(T) = IF 1 \in ResponseBlocks(queue)
                         THEN Cardinality(ResponseBlocks(queue)) - 1
                         ELSE Cardinality(ResponseBlocks(queue))
    BY <1>2, FS_RemoveElement
  <1>9. 1 \in ResponseBlocks(queue) <=> op = "response"
    BY <1>1 DEF ResponseBlocks
  <1>10. Cardinality(ResponseBlocks(queue)) \in Nat
    BY <1>2, FS_CardinalityType
  <1>11. QED
    BY <1>7, <1>8, <1>9, <1>10

\* The table holds each transaction under one key: as many as it has keys.
LEMMA StoredCount ==
  ASSUME TypeOK, TableLive
  PROVE  /\ IsFiniteSet(Stored)
         /\ Cardinality(Stored) = Cardinality(hashtable_iterate(transactions))
         /\ Stored \subseteq Live
  <1> DEFINE K == hashtable_iterate(transactions)
             f == [k \in K |-> transactions[k]]
  <1>1. K \subseteq TransactionId /\ \A k \in K : transactions[k] # NULL
    BY DEF hashtable_iterate, TypeOK
  <1>2. f \in [K -> Stored] /\ \A t \in Stored : \E k \in K : f[k] = t
    BY DEF Stored
  <1>3. \A k, l \in K : f[k] = f[l] => k = l
    BY <1>1 DEF TableLive
  <1>4. Stored \subseteq Live
    BY <1>1 DEF TableLive, Stored, Live, TypeOK
  <1> HIDE DEF K, f
  <1>5. ExistsBijection(K, Stored)
    BY <1>2, <1>3 DEF ExistsBijection, Bijection, Injection, Surjection, IsInjective
  <1>6. QED
    BY <1>4, <1>5, KeysFinite, FS_Bijection DEF K

LEMMA PacketStep == ASSUME AgentInv, Next PROVE PacketCount'
  <1> USE DEF AgentInv
  <1> DEFINE R == Cardinality(ResponseBlocks(queue))
             N == Cardinality(Live)
  <1>0. /\ IsFiniteSet(Live) /\ N \in Nat /\ R \in Nat
        /\ freePackets \in Nat /\ leaked \in Nat /\ PoolSize \in Nat
        /\ freePackets + N + R + leaked = PoolSize
    <2>1. Len(queue) \in Nat
      BY DEF TypeOK
    <2>2. IsFiniteSet(Live) /\ N \in Nat
      BY FS_CardinalityType DEF PacketCount
    <2>3. R \in Nat
      BY <2>1, ResponseBlocksFinite, FS_CardinalityType
    <2>4. QED
      BY <2>2, <2>3, PoolSizeAssumption DEF PacketCount, PacketsConserved, Live, ResponseBlocks, TypeOK
  <1>1. ASSUME IsFiniteSet(Live'),
               freePackets' + Cardinality(Live') + Cardinality(ResponseBlocks(queue')) + leaked'
                 = PoolSize
        PROVE  PacketCount'
    BY <1>1 DEF PacketCount, PacketsConserved, Live, ResponseBlocks
  <1>2. ASSUME \A t \in Txn : txn'[t].mem = txn[t].mem
        PROVE  Live' = Live
    BY <1>2 DEF Live
  <1>3. ASSUME \A t \in Txn : txn'[t].mem = txn[t].mem, UNCHANGED <<queue, freePackets, leaked>>
        PROVE  PacketCount'
    BY <1>0, <1>1, <1>2, <1>3
  <1>4. ASSUME NEW t \in Txn, transactionRequest(t) PROVE PacketCount'
    <2>1. CASE freePackets = 0
      BY <1>3, <1>4, <2>1 DEF transactionRequest
    <2>2. CASE freePackets # 0
      <3>1. /\ queue' = Append(queue, [op |-> "insert", txn |-> t])
            /\ txn' = [txn EXCEPT ![t] = NewTransaction(cseq)]
            /\ freePackets' = freePackets - 1 /\ leaked' = leaked
            /\ txn[t].mem = "none"
        BY <1>4, <2>2 DEF transactionRequest, SourcePerSend
      <3>2. Live' = Live \cup {t} /\ t \notin Live
        BY <3>1 DEF Live, TypeOK, NewTransaction
      <3>3. IsFiniteSet(Live') /\ Cardinality(Live') = N + 1
        BY <1>0, <3>2, FS_AddElement
      <3>4. Cardinality(ResponseBlocks(queue')) = R
        BY <1>0, <3>1, ResponseBlocksAppend
      <3>5. QED
        BY <1>0, <1>1, <3>1, <3>3, <3>4
    <2>3. QED
      BY <2>1, <2>2
  <1>5. ASSUME NEW t \in Txn, RequestArm(t) PROVE PacketCount'
    <2>1. \A s \in Txn : txn'[s].mem = txn[s].mem
      BY <1>5, RequestArmEffect
    <2>2. QED
      BY <1>3, <1>5, <2>1 DEF RequestArm, ghosts
  <1>6. ASSUME NEW t \in Txn, NEW n \in SourceId, Timer(t, n) PROVE PacketCount'
    <2>1. \A s \in Txn : txn'[s].mem = txn[s].mem
      BY <1>6, TimerEffect
    <2>2. UNCHANGED <<freePackets, leaked>>
      BY <1>6 DEF Timer, TimerBlock, TimerClear, TimerRelease, ghosts
    <2>3. CASE queue' = Append(queue, [op |-> "retry", id |-> txn[t].id])
      <3>1. Cardinality(ResponseBlocks(queue')) = R
        BY <1>0, <2>3, ResponseBlocksAppend
      <3>2. QED
        BY <1>0, <1>1, <1>2, <2>1, <2>2, <3>1
    <2>4. QED
      BY <1>3, <1>6, <2>1, <2>2, <2>3 DEF Timer, TimerBlock, TimerClear, TimerRelease
  <1>7. ASSUME NEW t \in Txn, DidReceiveResponse(t) PROVE PacketCount'
    <2>1. UNCHANGED <<txn, leaked>>
      BY <1>7 DEF DidReceiveResponse, ghosts
    <2>2. ASSUME NEW type \in ResponseType,
                 queue' = Append(queue, [op |-> "response", id |-> txn[t].id, type |-> type]),
                 freePackets' = freePackets - 1
          PROVE  PacketCount'
      <3>1. Cardinality(ResponseBlocks(queue')) = R + 1
        BY <1>0, <2>2, ResponseBlocksAppend
      <3>2. QED
        BY <1>0, <1>1, <1>2, <2>1, <2>2, <3>1
    <2>3. QED
      BY <1>3, <1>7, <2>1, <2>2 DEF DidReceiveResponse
  <1>8. ASSUME NEW op \in {"enable", "disable"}, Toggle(op) PROVE PacketCount'
    <2>1. UNCHANGED <<txn, freePackets, leaked>> /\ queue' = Append(queue, [op |-> op])
      BY <1>8 DEF Toggle, ghosts
    <2>2. Cardinality(ResponseBlocks(queue')) = R
      BY <1>0, <2>1, ResponseBlocksAppend
    <2>3. QED
      BY <1>0, <1>1, <1>2, <2>1, <2>2
  <1>9. ASSUME NEW op \in {"insert", "retry", "enable", "disable"}, Runs(op),
               queue' = Tail(queue), \A t \in Txn : txn'[t].mem = txn[t].mem,
               UNCHANGED <<freePackets, leaked>>
        PROVE  PacketCount'
    <2>1. Cardinality(ResponseBlocks(queue')) = R
      BY <1>0, <1>9, ResponseBlocksTail
    <2>2. QED
      BY <1>0, <1>1, <1>2, <1>9, <2>1
  <1>10. ASSUME RunInsert \/ RunEnable \/ (RunDisable /\ ~isEnabled) PROVE PacketCount'
    BY <1>9, <1>10 DEF RunInsert, RunEnable, RunDisable, ghosts
  <1>11. ASSUME NEW id, NEW t \in Txn, NEW state, NEW extra, CompletesAt(id, t, state, extra)
         PROVE  IsFiniteSet(Live') /\ Cardinality(Live') = N - 1
    <2>1. Live' = Live \ {t} /\ t \in Live
      BY <1>11 DEF CompletesAt, Live
    <2>2. QED
      BY <1>0, <2>1, FS_RemoveElement
  <1>12. ASSUME RunResponse PROVE PacketCount'
    <2>1. Runs("response") /\ queue' = Tail(queue)
      BY <1>12 DEF RunResponse
    <2>2. Cardinality(ResponseBlocks(queue')) = R - 1
      BY <1>0, <2>1, ResponseBlocksTail
    <2>3. CASE leaked' = leaked + 1 /\ UNCHANGED <<txn, freePackets>>
      BY <1>0, <1>1, <1>2, <2>2, <2>3
    <2>4. ASSUME NEW t \in Txn, NEW state, CompletesAt(Head(queue).id, t, state, 1),
                 leaked' = leaked
          PROVE  PacketCount'
      <3>1. IsFiniteSet(Live') /\ Cardinality(Live') = N - 1
        BY <1>11, <2>4
      <3>2. freePackets' = freePackets + 1 + 1
        BY <2>4 DEF CompletesAt
      <3>3. QED
        BY <1>0, <1>1, <2>2, <2>4, <3>1, <3>2
    <2>5. QED
      BY <1>12, <2>3, <2>4, ResponseCases
  <1>13. ASSUME transactionRetryOrFail PROVE PacketCount'
    <2>1. Runs("retry") /\ queue' = Tail(queue) /\ leaked' = leaked
      BY <1>13 DEF transactionRetryOrFail
    <2>2. CASE UNCHANGED <<txn, freePackets>>
      BY <1>9, <2>1, <2>2
    <2>3. CASE RetryOf(transactions[Head(queue).id])
      <3>1. \A s \in Txn : txn'[s].mem = txn[s].mem
        BY <2>3, RetryEffect
      <3>2. QED
        BY <1>9, <2>1, <2>3, <3>1 DEF RetryOf
    <2>4. ASSUME NEW t \in Txn, CompletesAt(Head(queue).id, t, "Timeout", 0)
          PROVE  PacketCount'
      <3>1. IsFiniteSet(Live') /\ Cardinality(Live') = N - 1
        BY <1>11, <2>4
      <3>2. freePackets' = freePackets + 1 + 0
        BY <2>4 DEF CompletesAt
      <3>3. Cardinality(ResponseBlocks(queue')) = R
        BY <1>0, <2>1, ResponseBlocksTail
      <3>4. QED
        BY <1>0, <1>1, <2>1, <3>1, <3>2, <3>3
    <2>5. QED
      BY <1>13, <2>2, <2>3, <2>4, RetryCases
  <1>14. ASSUME RetryArm PROVE PacketCount'
    <2>1. \A s \in Txn : txn'[s].mem = txn[s].mem
      BY <1>14, RetryArmEffect
    <2>2. QED
      BY <1>3, <1>14, <2>1 DEF RetryArm, ghosts
  <1>15. ASSUME transactionRemoveAll, leaked' = leaked,
                Cardinality(ResponseBlocks(queue')) = R
         PROVE  PacketCount'
    <2> DEFINE C == Cardinality(Stored)
    <2>1. /\ \A t \in Stored : txn'[t].mem = "freed"
          /\ \A t \in Txn \ Stored : txn'[t] = txn[t]
          /\ freePackets' = freePackets + C
      BY <1>15, RemoveAllEffect, StoredCount
    <2>2. Live' = Live \ Stored
      BY <2>1 DEF Live
    <2>3. Live \cap Stored = Stored /\ C \in Nat
      BY StoredCount, FS_CardinalityType
    <2>4. IsFiniteSet(Live') /\ Cardinality(Live') = N - C
      <3>1. /\ IsFiniteSet(Live \ Stored)
            /\ Cardinality(Live \ Stored) = Cardinality(Live) - Cardinality(Live \cap Stored)
        BY <1>0, FS_Difference
      <3>2. QED
        BY <2>2, <2>3, <3>1
    <2> HIDE DEF C
    <2>5. QED
      BY <1>0, <1>1, <1>15, <2>1, <2>3, <2>4
  <1>16. ASSUME RunDisable, isEnabled PROVE PacketCount'
    <2>1. Runs("disable") /\ queue' = Tail(queue) /\ leaked' = leaked /\ transactionRemoveAll
      BY <1>16 DEF RunDisable
    <2>2. Cardinality(ResponseBlocks(queue')) = R
      BY <1>0, <2>1, ResponseBlocksTail
    <2>3. QED
      BY <1>15, <2>1, <2>2
  <1>17. ASSUME transactionTeardown PROVE PacketCount'
    BY <1>15, <1>17 DEF transactionTeardown
  <1>18. QED
    BY <1>3, <1>4, <1>5, <1>6, <1>7, <1>8, <1>10, <1>12, <1>13, <1>14, <1>16, <1>17
    DEF Next, Caller, Network, DispatchQueue, RequestSend, DidReceiveRequest, RunRequest, ghosts

-----------------------------------------------------------------------------
(* The packets of the peer's pool *)

LEMMA PeerStep ==
  ASSUME AgentInv, Next
  PROVE  PeerPacketCount' /\ peerPackets' \in 0..PeerPoolSize
  <1> USE DEF AgentInv
  <1> DEFINE N == Cardinality(Answers)
  <1>0. /\ IsFiniteSet(Answers) /\ N \in Nat /\ peerPackets \in Nat /\ PeerPoolSize \in Nat
        /\ peerPackets + N = PeerPoolSize
    BY FS_CardinalityType, PoolSizeAssumption DEF PeerPacketCount, TypeOK
  <1>1. ASSUME UNCHANGED peer PROVE PeerPacketCount' /\ peerPackets' \in 0..PeerPoolSize
    BY <1>1 DEF peer, PeerPacketCount, Answers, TypeOK
  <1>2. ASSUME NEW t \in Txn, DidReceiveRequest(t)
        PROVE  PeerPacketCount' /\ peerPackets' \in 0..PeerPoolSize
    <2> DEFINE n == answering[t] + 1
    <2>1. /\ answering' = [answering EXCEPT ![t] = n] /\ answering[t] \in Nat
          /\ peerPackets' = peerPackets - 1 /\ peerPackets > 0
      BY <1>2 DEF DidReceiveRequest, TypeOK
    <2>2. Answers' = Answers \cup {<<t, n>>} /\ <<t, n>> \notin Answers
      <3>1. \A s \in Txn, k \in Nat :
              k \in 1..answering'[s] <=> k \in 1..answering[s] \/ (s = t /\ k = n)
        BY <2>1 DEF TypeOK
      <3>2. Answers' = Answers \cup {<<t, n>>}
        BY <2>1, <3>1 DEF Answers
      <3>3. n \notin 1..answering[t]
        BY <2>1
      <3>4. QED
        BY <3>2, <3>3 DEF Answers
    <2>3. IsFiniteSet(Answers') /\ Cardinality(Answers') = N + 1
      BY <1>0, <2>2, FS_AddElement
    <2>4. QED
      BY <1>0, <2>1, <2>3 DEF PeerPacketCount
  <1>3. ASSUME NEW t \in Txn, RunRequest(t)
        PROVE  PeerPacketCount' /\ peerPackets' \in 0..PeerPoolSize
    <2> DEFINE n == answering[t]
    <2>1. /\ answering' = [answering EXCEPT ![t] = n - 1] /\ n \in Nat /\ n > 0
          /\ peerPackets' = peerPackets + 1
      BY <1>3 DEF RunRequest, TypeOK
    <2>2. Answers' = Answers \ {<<t, n>>} /\ <<t, n>> \in Answers
      <3>1. \A s \in Txn, k \in Nat :
              k \in 1..answering'[s] <=> k \in 1..answering[s] /\ ~(s = t /\ k = n)
        BY <2>1 DEF TypeOK
      <3>2. Answers' = Answers \ {<<t, n>>}
        BY <3>1 DEF Answers
      <3>3. n \in 1..answering[t]
        BY <2>1
      <3>4. QED
        BY <3>2, <3>3 DEF Answers
    <2>3. IsFiniteSet(Answers') /\ Cardinality(Answers') = N - 1
      BY <1>0, <2>2, FS_RemoveElement
    <2>4. Cardinality(Answers') \in Nat
      BY <2>3, FS_CardinalityType
    <2>5. QED
      BY <1>0, <2>1, <2>3, <2>4 DEF PeerPacketCount
  <1>4. QED
    BY <1>1, <1>2, <1>3
    DEF Next, Caller, Timer, Network, DispatchQueue, transactionRequest, RequestSend, RequestArm,
        TimerBlock, TimerClear, TimerRelease, DidReceiveResponse, Toggle, RunInsert, RunResponse,
        transactionRetryOrFail, RetryArm, RunEnable, RunDisable, transactionTeardown, net

-----------------------------------------------------------------------------
(* The invariant *)

LEMMA InitAgentInv == ASSUME Init PROVE AgentInv
  <1>1. NewTransaction(0) \in Struct /\ NewTransaction(0).state = "Idle"
        /\ NewTransaction(0).retries = 0 /\ NewTransaction(0).timeout = NewTimeout
    <2>1. 0 \in TransactionId
      BY MaxIdAssumption DEF TransactionId
    <2>2. QED
      BY <2>1, NewTransactionFields
  <1>2. \A t \in Txn : /\ txn[t] \in Struct /\ txn[t].mem = "none" /\ txn[t].retries = 0
                       /\ txn[t].timeout.source = 0 /\ txn[t].state = "Idle"
    BY <1>1, NewTimeoutFields DEF Init, Struct
  <1>3. TypeOK
    <2>1. txn \in [Txn -> Struct] /\ transactions \in [TransactionId -> Txn \cup {NULL}]
      BY <1>2 DEF Init, hashtable_create, TransactionId
    <2>2. cseq \in 0..(MaxId - 1) /\ queue \in Seq(Block)
      BY MaxIdAssumption DEF Init
    <2>3. /\ freePackets \in Nat /\ peerPackets \in 0..PeerPoolSize
          /\ toggles \in 0..MaxToggles /\ leaked \in Nat
      BY PoolSizeAssumption, ToggleAssumption DEF Init
    <2>4. QED
      BY <2>1, <2>2, <2>3 DEF Init, TypeOK
  <1>4. SourcePerSend
    BY <1>2, NullTxnAssumption DEF Init, SourcePerSend
  <1>5. InsertsFresh
    BY DEF Init, InsertsFresh
  <1>6. TableLive
    BY DEF Init, TableLive, hashtable_create, TransactionId
  <1>7. PacketCount
    <2>1. Live = {} /\ {i \in 1..Len(queue) : queue[i].op = "response"} = {}
      BY <1>2 DEF Init, Live
    <2>2. freePackets = PoolSize /\ leaked = 0 /\ PoolSize \in Nat
      BY PoolSizeAssumption DEF Init
    <2>3. freePackets + 0 + 0 + leaked = PoolSize
      BY <2>2
    <2>4. QED
      BY <2>1, <2>3, FS_EmptySet DEF PacketCount, PacketsConserved, Live
  <1>8. PeerPacketCount
    <2>1. Answers = {}
      BY DEF Answers, Init
    <2>2. QED
      BY <2>1, PoolSizeAssumption, FS_EmptySet DEF PeerPacketCount, Init
  <1>9. QED
    BY <1>3, <1>4, <1>5, <1>6, <1>7, <1>8 DEF AgentInv

LEMMA NextAgentInv == ASSUME AgentInv, [Next]_vars PROVE AgentInv'
  <1>1. CASE Next
    <2>1. PeerPacketCount' /\ TypeOK'
      BY <1>1, PeerStep, TypeStep
    <2>2. QED
      BY <1>1, <2>1, SourcePerSendStep, InsertsStep, TableStep, PacketStep DEF AgentInv
  <1>2. CASE UNCHANGED vars
    BY <1>2 DEF vars, net, peer, ghosts, control, AgentInv, TypeOK, SourcePerSend, InsertsFresh,
                TableLive, PacketCount, PacketsConserved, Live, PeerPacketCount, Answers
  <1>3. QED
    BY <1>1, <1>2

LEMMA AgentInvariant == Spec => []AgentInv
  BY InitAgentInv, NextAgentInv, PTL DEF Spec

\* Every variable keeps its type, however the threads interleave: in
\* particular a transaction never has more dispatch sources than it is sent,
\* and the peer's pool never holds more packets than it has.
THEOREM AgentTypes == Spec => []TypeOK
  <1>1. AgentInv => TypeOK
    BY DEF AgentInv
  <1>2. QED
    BY <1>1, AgentInvariant, PTL

\* The hashtable never keeps a pointer to a freed transaction and keeps each
\* under its own id, whatever ids are reused and however the threads
\* interleave: what a block of the queue finds by id is safe to use.
THEOREM TableAlwaysLive == Spec => []TableLive
  <1>1. AgentInv => TableLive
    BY DEF AgentInv
  <1>2. QED
    BY <1>1, AgentInvariant, PTL

\* No packet of the pool is lost but the one of a response that finds its
\* transaction gone, and none is released twice.
THEOREM PacketsAlwaysConserved == Spec => []PacketsConserved
  <1>1. AgentInv => PacketsConserved
    BY DEF AgentInv, PacketCount
  <1>2. QED
    BY <1>1, AgentInvariant, PTL

-----------------------------------------------------------------------------
(* While no id is given out twice, the transaction agent keeps the promise *)
(* of RequestSpec, however its threads overtake each other.  When they do  *)
(* not: with the handler of a timeout undivided no waiting transaction is  *)
(* stranded, and with Preempt = {} no step uses memory that is freed.      *)

\* The transactions transactionAlloc has set up
Allocated == {t \in Txn : txn[t].mem # "none"}

\* No more requests are made than there are ids.
EnoughIds == IsFiniteSet(Txn) /\ Cardinality(Txn) <= MaxId

\* Ids are given out in the order of the sequence number, which does not wrap
\* before all of them are taken.
IdsInOrder ==
  /\ Cardinality(Allocated) < MaxId => cseq = Cardinality(Allocated)
  /\ \A t \in Allocated : txn[t].id < Cardinality(Allocated)
  /\ \A s, t \in Allocated : txn[s].id = txn[t].id => s = t

\* A transaction that is live has not ended, what is on its way to the peer
\* or back was sent for a transaction, and a response on its way back means
\* that the peer's application has the request.
Honest ==
  \A t \in Txn :
    /\ txn[t].mem = "live" \/ pc[t] = "start" => outcome[t] = "pending"
    /\ requests[t] > 0 \/ answering[t] > 0 => t \in Allocated
    /\ responses[t] > 0 => t \in Allocated /\ t \in received

\* So does a response whose block waits.
HonestBlocks ==
  \A i \in 1..Len(queue) : queue[i].op = "response" =>
    \E t \in Allocated : queue[i].id = txn[t].id /\ t \in received

RequestInv == AgentInv /\ IdsInOrder /\ Honest /\ HonestBlocks

-----------------------------------------------------------------------------
\* Only transactionRequest allocates a transaction and gives it an id.
LEMMA StructStep ==
  ASSUME AgentInv, Next
  PROVE  \/ \E t \in Txn : transactionRequest(t)
         \/ \A t \in Txn : /\ txn'[t].id = txn[t].id
                           /\ \/ txn'[t].mem = txn[t].mem
                              \/ txn[t].mem = "live" /\ txn'[t].mem = "freed"
  <1> DEFINE Kept == \A t \in Txn : /\ txn'[t].id = txn[t].id
                                    /\ \/ txn'[t].mem = txn[t].mem
                                       \/ txn[t].mem = "live" /\ txn'[t].mem = "freed"
  <1> USE DEF AgentInv
  <1>1. ASSUME NEW t \in Txn, RequestArm(t) PROVE Kept
    BY <1>1, RequestArmEffect
  <1>2. ASSUME NEW t \in Txn, NEW n \in SourceId, Timer(t, n) PROVE Kept
    BY <1>2, TimerEffect
  <1>3. ASSUME UNCHANGED txn PROVE Kept
    BY <1>3
  <1>4. ASSUME RunResponse PROVE Kept
    BY <1>4, ResponseCases DEF CompletesAt
  <1>5. ASSUME transactionRetryOrFail PROVE Kept
    <2>1. CASE RetryOf(transactions[Head(queue).id])
      BY <2>1, RetryEffect
    <2>2. CASE ~RetryOf(transactions[Head(queue).id])
      BY <1>5, <2>2, RetryCases DEF CompletesAt
    <2>3. QED
      BY <2>1, <2>2
  <1>6. ASSUME RetryArm PROVE Kept
    BY <1>6, RetryArmEffect
  <1>7. ASSUME transactionRemoveAll PROVE Kept
    BY <1>7, RemoveAllEffect, StoredCount DEF Live
  <1>8. QED
    BY <1>1, <1>2, <1>3, <1>4, <1>5, <1>6, <1>7
    DEF Next, Caller, Network, DispatchQueue, RequestSend, DidReceiveResponse, DidReceiveRequest,
        RunRequest, Toggle, RunInsert, RunEnable, RunDisable, transactionTeardown

LEMMA IdsStep == ASSUME EnoughIds, AgentInv, IdsInOrder, Next PROVE IdsInOrder'
  <1> DEFINE n == Cardinality(Allocated)
  <1>0. /\ \A t \in Txn : txn[t].id \in Int
        /\ IsFiniteSet(Allocated) /\ n \in Nat /\ MaxId \in Nat \ {0}
    <2>1. \A t \in Txn : txn[t].id \in Int
      BY StructFields, MaxIdAssumption DEF AgentInv, TypeOK, TransactionId
    <2>2. IsFiniteSet(Allocated)
      BY FS_Subset DEF Allocated, EnoughIds
    <2>3. QED
      BY <2>1, <2>2, MaxIdAssumption, FS_CardinalityType
  <1>1. ASSUME NEW t \in Txn, transactionRequest(t) PROVE IdsInOrder'
    <2>1. CASE freePackets = 0
      BY <1>1, <2>1 DEF transactionRequest, IdsInOrder, Allocated
    <2>2. CASE freePackets # 0
      <3>1. /\ txn' = [txn EXCEPT ![t] = NewTransaction(cseq)]
            /\ cseq' = (cseq + 1) % MaxId
            /\ txn[t].mem = "none"
        BY <1>1, <2>2 DEF transactionRequest, NextId, AgentInv, SourcePerSend
      <3>2. /\ txn'[t].id = cseq /\ txn'[t].mem = "live"
            /\ \A s \in Txn \ {t} : txn'[s] = txn[s]
        BY <3>1 DEF AgentInv, TypeOK, NewTransaction
      <3>3. Allocated' = Allocated \cup {t} /\ t \notin Allocated
        BY <3>1, <3>2 DEF Allocated
      <3>4. IsFiniteSet(Allocated') /\ Cardinality(Allocated') = n + 1
        BY <1>0, <3>3, FS_AddElement
      <3>5. n + 1 <= MaxId
        <4>1. Allocated' \subseteq Txn
          BY DEF Allocated
        <4>2. Cardinality(Allocated') <= Cardinality(Txn) /\ Cardinality(Txn) \in Nat
          BY <4>1, FS_Subset, FS_CardinalityType DEF EnoughIds
        <4>3. QED
          BY <1>0, <3>4, <4>2 DEF EnoughIds
      <3> HIDE DEF n
      <3>6. cseq = n
        BY <1>0, <3>5 DEF IdsInOrder, n
      <3>7. n + 1 < MaxId => cseq' = n + 1
        BY <1>0, <3>1, <3>6
      <3>8. \A s \in Allocated : txn'[s].id = txn[s].id /\ txn[s].id < n /\ txn[s].id \in Int
        BY <1>0, <3>2, <3>3 DEF IdsInOrder, Allocated, n
      <3>9. \A s \in Allocated' : txn'[s].id < n + 1
        BY <1>0, <3>2, <3>3, <3>6, <3>8
      <3>10. \A r, s \in Allocated' : txn'[r].id = txn'[s].id => r = s
        BY <1>0, <3>2, <3>3, <3>6, <3>8 DEF IdsInOrder
      <3>11. QED
        BY <3>4, <3>7, <3>9, <3>10 DEF IdsInOrder
    <2>3. QED
      BY <2>1, <2>2
  <1>2. ASSUME ~\E t \in Txn : transactionRequest(t) PROVE IdsInOrder'
    <2>1. \A t \in Txn : /\ txn'[t].id = txn[t].id
                         /\ \/ txn'[t].mem = txn[t].mem
                            \/ txn[t].mem = "live" /\ txn'[t].mem = "freed"
      BY <1>2, StructStep
    <2>2. Allocated' = Allocated
      BY <2>1 DEF Allocated
    <2>3. cseq' = cseq
      BY <1>2
      DEF Next, Caller, Timer, Network, DispatchQueue, RequestSend, RequestArm, TimerBlock,
          TimerClear, TimerRelease, DidReceiveResponse, DidReceiveRequest, RunRequest, Toggle,
          RunInsert, RunResponse, transactionRetryOrFail, RetryArm, RunEnable, RunDisable,
          transactionTeardown
    <2>4. \A t \in Allocated : txn'[t].id = txn[t].id
      BY <2>1 DEF Allocated
    <2>5. QED
      BY <2>2, <2>3, <2>4 DEF IdsInOrder
  <1>3. QED
    BY <1>1, <1>2

\* Once allocated, a transaction stays so and keeps its id.
LEMMA AllocatedStep ==
  ASSUME AgentInv, Next
  PROVE  \A t \in Allocated : t \in Allocated' /\ txn'[t].id = txn[t].id
  <1>1. ASSUME NEW t \in Txn, transactionRequest(t)
        PROVE  \A s \in Allocated : txn'[s] = txn[s]
    <2>1. txn[t].mem = "none"
      BY <1>1 DEF transactionRequest, AgentInv, SourcePerSend
    <2>2. \A s \in Txn \ {t} : txn'[s] = txn[s]
      BY <1>1 DEF transactionRequest, AgentInv, TypeOK
    <2>3. QED
      BY <2>1, <2>2 DEF Allocated
  <1>2. QED
    BY <1>1, StructStep DEF Allocated

LEMMA HonestStep == ASSUME Understood = Txn, AgentInv, Honest, Next PROVE Honest'
  <1> USE DEF AgentInv
  <1>0. /\ \A t \in Txn : requests[t] \in Nat /\ answering[t] \in Nat /\ responses[t] \in Nat
        /\ \A t \in Allocated : t \in Allocated'
    <2>1. \A t \in Txn : requests[t] \in Nat /\ answering[t] \in Nat /\ responses[t] \in Nat
      BY DEF TypeOK
    <2>2. QED
      BY <2>1, AllocatedStep
  \* What is sent and received
  <1>1. ASSUME received \subseteq received',
               \A t \in Txn : /\ requests'[t] > 0 => requests[t] > 0 \/ t \in Allocated'
                              /\ answering'[t] > 0 => requests[t] > 0 \/ answering[t] > 0
                              /\ responses'[t] > 0 =>
                                   responses[t] > 0 \/ (answering[t] > 0 /\ t \in received'),
               \A t \in Txn : (txn'[t].mem = "live" \/ pc'[t] = "start") =>
                                outcome'[t] = "pending"
        PROVE  Honest'
    <2> SUFFICES ASSUME NEW t \in Txn
                 PROVE  /\ (txn'[t].mem = "live" \/ pc'[t] = "start") => outcome'[t] = "pending"
                        /\ (requests'[t] > 0 \/ answering'[t] > 0) => t \in Allocated'
                        /\ responses'[t] > 0 => t \in Allocated' /\ t \in received'
      BY DEF Honest
    <2>1. /\ (requests[t] > 0 \/ answering[t] > 0) => t \in Allocated'
          /\ responses[t] > 0 => t \in Allocated' /\ t \in received'
      BY <1>0, <1>1 DEF Honest
    <2>2. /\ requests'[t] > 0 => requests[t] > 0 \/ t \in Allocated'
          /\ answering'[t] > 0 => requests[t] > 0 \/ answering[t] > 0
          /\ responses'[t] > 0 => responses[t] > 0 \/ (answering[t] > 0 /\ t \in received')
          /\ (txn'[t].mem = "live" \/ pc'[t] = "start") => outcome'[t] = "pending"
      BY <1>1
    <2>3. QED
      BY <2>1, <2>2
  <1>2. ASSUME UNCHANGED <<received, requests, peer, responses, outcome>>,
               \A t \in Txn : (txn'[t].mem = "live" \/ pc'[t] = "start") =>
                                (txn[t].mem = "live" \/ pc[t] = "start")
        PROVE  Honest'
    BY <1>1, <1>2 DEF Honest, peer
  <1>3. ASSUME NEW t \in Txn, transactionRequest(t) PROVE Honest'
    <2>1. /\ pc[t] = "start" /\ pc' # pc
          /\ UNCHANGED <<received, requests, peer, responses>>
          /\ \A s \in Txn \ {t} : /\ pc'[s] = pc[s] /\ txn'[s] = txn[s]
                                  /\ outcome'[s] = outcome[s]
          /\ \/ txn'[t].mem = "none" /\ pc'[t] = "done"
             \/ outcome'[t] = outcome[t]
      BY <1>3 DEF transactionRequest, TypeOK, SourcePerSend, net
    <2>2. QED
      BY <1>1, <2>1 DEF Honest, peer
  <1>4. ASSUME NEW t \in Txn, RequestSend(t) PROVE Honest'
    <2>1. /\ t \in Allocated /\ \A s \in Txn \ {t} : requests'[s] = requests[s] /\ pc'[s] = pc[s]
          /\ pc'[t] = "sent"
          /\ UNCHANGED <<txn, received, peer, responses, outcome>>
      BY <1>4 DEF RequestSend, TypeOK, Allocated, ghosts
    <2>2. QED
      BY <1>0, <1>1, <2>1 DEF Honest, peer
  <1>5. ASSUME NEW t \in Txn, RequestArm(t) PROVE Honest'
    <2>1. \A s \in Txn : txn'[s].mem = txn[s].mem
      BY <1>5, RequestArmEffect
    <2>2. pc' = [pc EXCEPT ![t] = "done"] /\ UNCHANGED <<received, requests, peer, responses, outcome>>
      BY <1>5 DEF RequestArm, net, ghosts
    <2>3. QED
      BY <1>2, <2>1, <2>2 DEF TypeOK
  <1>6. ASSUME NEW t \in Txn, NEW n \in SourceId, Timer(t, n) PROVE Honest'
    <2>1. \A s \in Txn : txn'[s].mem = txn[s].mem
      BY <1>6, TimerEffect
    <2>2. UNCHANGED <<pc, received, requests, peer, responses, outcome>>
      BY <1>6 DEF Timer, TimerBlock, TimerClear, TimerRelease, net, ghosts
    <2>3. QED
      BY <1>2, <2>1, <2>2
  <1>7. ASSUME NEW t \in Txn, DidReceiveResponse(t) PROVE Honest'
    <2>1. /\ UNCHANGED <<txn, pc, received, requests, peer, outcome>>
          /\ responses[t] > 0 /\ \A s \in Txn \ {t} : responses'[s] = responses[s]
      BY <1>7 DEF DidReceiveResponse, TypeOK, ghosts
    <2>2. QED
      BY <1>1, <2>1 DEF Honest, peer
  <1>8. ASSUME NEW t \in Txn, DidReceiveRequest(t) PROVE Honest'
    <2>1. /\ UNCHANGED <<txn, pc, received, responses, outcome>>
          /\ requests[t] > 0
          /\ \A s \in Txn \ {t} : requests'[s] = requests[s] /\ answering'[s] = answering[s]
      BY <1>8 DEF DidReceiveRequest, TypeOK, ghosts
    <2>2. QED
      BY <1>1, <2>1 DEF Honest
  <1>9. ASSUME NEW t \in Txn, RunRequest(t) PROVE Honest'
    <2>1. /\ UNCHANGED <<txn, pc, requests, outcome>> /\ received' = received \cup {t}
          /\ answering[t] > 0
          /\ \A s \in Txn \ {t} : responses'[s] = responses[s] /\ answering'[s] = answering[s]
      BY <1>9 DEF RunRequest, TypeOK
    <2>2. QED
      BY <1>1, <2>1 DEF Honest
  <1>10. ASSUME UNCHANGED <<txn, pc, received, requests, peer, responses, outcome>> PROVE Honest'
    BY <1>2, <1>10
  <1>11. ASSUME NEW id, NEW t \in Txn, NEW state, NEW extra, CompletesAt(id, t, state, extra),
                UNCHANGED <<pc, received, requests, peer, responses>>
         PROVE  Honest'
    <2>1. /\ txn'[t].mem = "freed" /\ txn[t].mem = "live"
          /\ \A s \in Txn \ {t} : txn'[s] = txn[s] /\ outcome'[s] = outcome[s]
      BY <1>11 DEF CompletesAt, TypeOK
    <2>2. pc[t] # "start"
      BY <2>1 DEF SourcePerSend
    <2>3. QED
      BY <1>1, <1>11, <2>1, <2>2 DEF Honest, peer
  <1>12. ASSUME RunResponse PROVE Honest'
    <2>1. UNCHANGED <<pc, received, requests, peer, responses>>
      BY <1>12 DEF RunResponse, net
    <2>2. QED
      BY <1>10, <1>11, <1>12, <2>1, ResponseCases
  <1>13. ASSUME transactionRetryOrFail PROVE Honest'
    <2>1. UNCHANGED <<pc, received, peer, responses>>
      BY <1>13 DEF transactionRetryOrFail
    <2>2. CASE RetryOf(transactions[Head(queue).id])
      <3> DEFINE t == transactions[Head(queue).id]
      <3>1. \A s \in Txn : txn'[s].mem = txn[s].mem
        BY <2>2, RetryEffect
      <3>2. t \in Txn /\ txn[t].mem = "live"
        BY <1>13, <2>2, RetryCases, NullTxnAssumption DEF TableLive, RetryOf
      <3>3. /\ outcome' = outcome
            /\ \A s \in Txn \ {t} : requests'[s] = requests[s]
        BY <2>2 DEF RetryOf, TypeOK
      <3> HIDE DEF t
      <3>4. QED
        BY <1>0, <1>1, <2>1, <3>1, <3>2, <3>3 DEF Honest, Allocated, peer
    <2>3. CASE ~RetryOf(transactions[Head(queue).id])
      BY <1>10, <1>11, <1>13, <2>1, <2>3, RetryCases
    <2>4. QED
      BY <2>2, <2>3
  <1>14. ASSUME RetryArm PROVE Honest'
    <2>1. \A s \in Txn : txn'[s].mem = txn[s].mem
      BY <1>14, RetryArmEffect
    <2>2. QED
      BY <1>2, <1>14, <2>1 DEF RetryArm, net, ghosts
  <1>15. ASSUME transactionRemoveAll, UNCHANGED <<pc, received, requests, peer, responses>>
         PROVE  Honest'
    <2>1. /\ \A t \in Stored : txn'[t].mem = "freed" /\ txn[t].mem = "live"
          /\ \A t \in Txn \ Stored : txn'[t] = txn[t] /\ outcome'[t] = outcome[t]
      BY <1>15, RemoveAllEffect, StoredCount DEF Live
    <2>2. \A t \in Stored : t \in Txn => pc[t] # "start"
      BY <2>1 DEF SourcePerSend
    <2>3. QED
      BY <1>1, <1>15, <2>1, <2>2 DEF Honest, peer
  <1>16. QED
    BY <1>3, <1>4, <1>5, <1>6, <1>7, <1>8, <1>9, <1>10, <1>12, <1>13, <1>14, <1>15
    DEF Next, Caller, Network, DispatchQueue, Toggle, RunInsert, RunEnable, RunDisable,
        transactionTeardown, net, ghosts

LEMMA HonestBlocksStep ==
  ASSUME AgentInv, Honest, HonestBlocks, Next
  PROVE  HonestBlocks'
  <1> USE DEF AgentInv
  <1>1. /\ \A t \in Allocated : t \in Allocated' /\ txn'[t].id = txn[t].id
        /\ received \subseteq received'
    <2>1. received \subseteq received'
      BY DEF Next, Caller, Timer, Network, DispatchQueue, transactionRequest, RequestSend,
          RequestArm, TimerBlock, TimerClear, TimerRelease, DidReceiveResponse, DidReceiveRequest,
          RunRequest, Toggle, RunInsert, RunResponse, transactionRetryOrFail, RetryArm, RunEnable,
          RunDisable, transactionTeardown, ghosts
    <2>2. QED
      BY <2>1, AllocatedStep
  <1>2. ASSUME queue' = queue PROVE HonestBlocks'
    BY <1>1, <1>2 DEF HonestBlocks
  <1>3. ASSUME NEW b, queue' = Append(queue, b), b.op # "response" PROVE HonestBlocks'
    <2>1. \A i \in 1..Len(queue') : queue'[i].op = "response" =>
            i \in 1..Len(queue) /\ queue'[i] = queue[i]
      BY <1>3, AppendFacts
    <2>2. QED
      BY <1>1, <2>1 DEF HonestBlocks
  <1>4. ASSUME NEW t \in Txn, DidReceiveResponse(t) PROVE HonestBlocks'
    <2>1. t \in Allocated /\ t \in received
      BY <1>4 DEF DidReceiveResponse, Honest
    <2>2. ASSUME NEW type, queue' = Append(queue, [op |-> "response", id |-> txn[t].id, type |-> type])
          PROVE  HonestBlocks'
      <3>1. \A i \in 1..Len(queue') : \/ i \in 1..Len(queue) /\ queue'[i] = queue[i]
                                      \/ queue'[i].id = txn[t].id
        BY <2>2, AppendFacts
      <3>2. QED
        BY <1>1, <2>1, <3>1 DEF HonestBlocks
    <2>3. QED
      BY <1>2, <1>4, <2>2 DEF DidReceiveResponse
  <1>5. ASSUME NEW op, Runs(op), queue' = Tail(queue) PROVE HonestBlocks'
    <2>1. \A i \in 1..Len(queue') : queue'[i] = queue[i + 1] /\ i + 1 \in 1..Len(queue)
      BY <1>5, TailFacts
    <2>2. QED
      BY <1>1, <2>1 DEF HonestBlocks
  <1>6. ASSUME NEW t \in Txn, transactionRequest(t) PROVE HonestBlocks'
    BY <1>2, <1>3, <1>6 DEF transactionRequest
  <1>7. ASSUME NEW t \in Txn, NEW n \in SourceId, Timer(t, n) PROVE HonestBlocks'
    BY <1>2, <1>3, <1>7 DEF Timer, TimerBlock, TimerClear, TimerRelease
  <1>8. ASSUME NEW op \in {"enable", "disable"}, Toggle(op) PROVE HonestBlocks'
    BY <1>3, <1>8 DEF Toggle
  <1>9. ASSUME RunInsert \/ RunResponse \/ transactionRetryOrFail \/ RunEnable \/ RunDisable
        PROVE  HonestBlocks'
    BY <1>5, <1>9 DEF RunInsert, RunResponse, transactionRetryOrFail, RunEnable, RunDisable
  <1>10. QED
    BY <1>2, <1>4, <1>6, <1>7, <1>8, <1>9
    DEF Next, Caller, Network, DispatchQueue, RequestSend, RequestArm, DidReceiveRequest,
        RunRequest, RetryArm, transactionTeardown

-----------------------------------------------------------------------------
LEMMA InitIdsInOrder == ASSUME Init PROVE IdsInOrder
  <1>1. Allocated = {}
    BY DEF Init, Allocated, NewTransaction
  <1>2. QED
    BY <1>1, FS_EmptySet DEF Init, IdsInOrder

LEMMA InitRequestInv == ASSUME Init PROVE RequestInv
  <1>1. AgentInv
    BY InitAgentInv
  <1>2. IdsInOrder
    BY InitIdsInOrder
  <1>3. Honest /\ HonestBlocks
    BY DEF Init, Honest, HonestBlocks
  <1>4. QED
    BY <1>1, <1>2, <1>3 DEF RequestInv

LEMMA NextRequestInv ==
  ASSUME EnoughIds, Understood = Txn, RequestInv, [Next]_vars
  PROVE  RequestInv'
  <1>1. CASE Next
    BY <1>1, NextAgentInv, IdsStep, HonestStep, HonestBlocksStep DEF RequestInv
  <1>2. CASE UNCHANGED vars
    <2>1. AgentInv'
      BY <1>2, NextAgentInv DEF RequestInv
    <2>2. QED
      BY <1>2, <2>1 DEF vars, net, peer, ghosts, control, RequestInv, IdsInOrder, Honest,
                        HonestBlocks, Allocated
  <1>3. QED
    BY <1>1, <1>2

\* The transmissions RequestSpec counts
Underway == [t \in Txn |-> requests[t] + answering[t]]

LEMMA NextRequestPromise ==
  ASSUME RequestInv, Understood = Txn, [Next]_vars
  PROVE  [Promise!Next]_(Promise!spec)
  <1> DEFINE Step == Promise!Next \/ UNCHANGED <<outcome, Underway, received>>
  <1> SUFFICES Step
    BY DEF Promise!spec, Underway
  <1> USE DEF RequestInv, AgentInv
  <1>0. \A t \in Txn : requests[t] \in Nat /\ answering[t] \in Nat
    BY DEF TypeOK
  <1>1. ASSUME UNCHANGED <<outcome, requests, answering, received>> PROVE Step
    BY <1>1 DEF Underway
  <1>2. ASSUME NEW t \in Txn, transactionRequest(t) PROVE Step
    <2>1. CASE freePackets = 0
      <3>1. /\ outcome[t] = "pending" /\ outcome' = [outcome EXCEPT ![t] = "dropped"]
            /\ UNCHANGED <<requests, answering, received>>
        BY <1>2, <2>1 DEF transactionRequest, net, peer, Honest
      <3>2. Promise!Fail(t)
        BY <3>1 DEF Promise!Fail
      <3>3. QED
        BY <3>2 DEF Promise!Next
    <2>2. CASE freePackets # 0
      BY <1>1, <1>2, <2>2 DEF transactionRequest, net, peer
    <2>3. QED
      BY <2>1, <2>2
  <1>3. ASSUME NEW t \in Txn, txn[t].mem = "live",
               requests' = [requests EXCEPT ![t] = requests[t] + 1],
               UNCHANGED <<outcome, answering, received>>
        PROVE  Step
    <2>1. outcome[t] = "pending"
      BY <1>3 DEF Honest
    <2>2. Underway' = [Underway EXCEPT ![t] = Underway[t] + 1]
      <3>1. \A s \in Txn : requests'[s] + answering'[s] =
              IF s = t THEN requests[s] + answering[s] + 1 ELSE requests[s] + answering[s]
        BY <1>0, <1>3 DEF TypeOK
      <3>2. QED
        BY <3>1 DEF Underway
    <2>3. Promise!Transmit(t)
      BY <1>3, <2>1, <2>2 DEF Promise!Transmit, Underway
    <2>4. QED
      BY <2>3 DEF Promise!Next
  <1>4. ASSUME NEW t \in Txn, RequestSend(t) PROVE Step
    BY <1>3, <1>4 DEF RequestSend, peer, ghosts
  <1>5. ASSUME NEW t \in Txn, DidReceiveRequest(t) PROVE Step
    <2>1. Underway' = Underway
      BY <1>0, <1>5 DEF DidReceiveRequest, Underway, TypeOK
    <2>2. QED
      BY <1>5, <2>1 DEF DidReceiveRequest, ghosts
  <1>6. ASSUME NEW t \in Txn, RunRequest(t) PROVE Step
    <2>1. Underway' = [Underway EXCEPT ![t] = Underway[t] - 1] /\ Underway[t] > 0
      <3>1. \A s \in Txn : requests'[s] + answering'[s] =
              IF s = t THEN requests[s] + answering[s] - 1 ELSE requests[s] + answering[s]
        BY <1>0, <1>6 DEF RunRequest, TypeOK
      <3>2. requests[t] + answering[t] > 0
        BY <1>0, <1>6 DEF RunRequest
      <3>3. Underway' = [Underway EXCEPT ![t] = Underway[t] - 1]
        <4>0. \A s \in Txn : Underway'[s] = IF s = t THEN Underway[s] - 1 ELSE Underway[s]
          BY <1>0, <3>1 DEF Underway
        <4>1. Underway' = [s \in Txn |-> Underway'[s]]
          BY DEF Underway
        <4>2. Underway = [s \in Txn |-> Underway[s]]
          BY DEF Underway
        <4> HIDE DEF Underway
        <4>3. QED
          BY <4>0, <4>1, <4>2
      <3>4. QED
        BY <3>2, <3>3 DEF Underway
    <2>2. received' = received \cup {t} /\ outcome' = outcome
      BY <1>6 DEF RunRequest
    <2>3. Promise!Deliver(t)
      BY <2>1, <2>2 DEF Promise!Deliver, Underway
    <2>4. QED
      BY <2>3 DEF Promise!Next
  <1>7. ASSUME NEW id, NEW t \in Txn, NEW state, NEW extra, CompletesAt(id, t, state, extra),
               UNCHANGED <<requests, answering, received>>,
               state = "Acknowledged" => t \in received
        PROVE  Step
    <2>1. outcome[t] = "pending"
      BY <1>7 DEF CompletesAt, Honest
    <2>2. CASE state = "Acknowledged"
      <3>1. Promise!Acknowledge(t)
        BY <1>7, <2>1, <2>2 DEF Promise!Acknowledge, CompletesAt
      <3>2. QED
        BY <3>1 DEF Promise!Next
    <2>3. CASE state # "Acknowledged"
      <3>1. outcome' = [outcome EXCEPT ![t] = "failed"]
        BY <1>7, <2>3 DEF CompletesAt
      <3>2. Promise!Fail(t)
        BY <1>7, <2>1, <3>1 DEF Promise!Fail
      <3>3. QED
        BY <3>2 DEF Promise!Next
    <2>4. QED
      BY <2>2, <2>3
  <1>8. ASSUME RunResponse PROVE Step
    <2> DEFINE id == Head(queue).id
    <2>1. UNCHANGED <<requests, answering, received>> /\ Runs("response") /\ queue' = Tail(queue)
      BY <1>8 DEF RunResponse, net, peer
    <2>2. \E s \in Allocated : id = txn[s].id /\ s \in received
      BY <2>1, TailFacts DEF HonestBlocks
    <2>3. ASSUME NEW t \in Txn, NEW state, CompletesAt(id, t, state, 1) PROVE Step
      <3>1. t \in Allocated /\ txn[t].id = id
        BY <2>3 DEF CompletesAt, Allocated
      <3>2. t \in received
        BY <2>2, <3>1 DEF IdsInOrder
      <3>3. QED
        BY <1>7, <2>1, <2>3, <3>2
    <2>4. QED
      BY <1>1, <1>8, <2>1, <2>3, ResponseCases
  <1>9. ASSUME transactionRetryOrFail PROVE Step
    <2> DEFINE t == transactions[Head(queue).id]
    <2>1. UNCHANGED <<answering, received>>
      BY <1>9 DEF transactionRetryOrFail, peer
    <2>2. CASE RetryOf(t) /\ txn[t].mem = "live"
      BY <1>3, <2>1, <2>2 DEF RetryOf
    <2>3. ASSUME NEW s \in Txn, CompletesAt(Head(queue).id, s, "Timeout", 0), requests' = requests
          PROVE  Step
      BY <1>7, <2>1, <2>3
    <2>4. QED
      BY <1>1, <1>9, <2>1, <2>2, <2>3, RetryCases
  <1>10. ASSUME transactionRemoveAll, UNCHANGED <<requests, answering, received>> PROVE Step
    <2>1. /\ outcome' = [t \in Txn |-> IF t \in Stored THEN "removed" ELSE outcome[t]]
          /\ Stored \in SUBSET Txn /\ \A t \in Stored : outcome[t] = "pending"
      BY <1>10, RemoveAllEffect, StoredCount DEF Live, Honest
    <2>2. Promise!Remove(Stored)
      BY <1>10, <2>1 DEF Promise!Remove
    <2>3. QED
      BY <2>1, <2>2 DEF Promise!Next
  <1>11. CASE Next
    BY <1>1, <1>2, <1>4, <1>5, <1>6, <1>8, <1>9, <1>10, <1>11
    DEF Next, Caller, Network, DispatchQueue, Timer, RequestArm, TimerBlock, TimerClear,
        TimerRelease, DidReceiveResponse, Toggle, RunInsert, RetryArm, RunEnable, RunDisable,
        transactionTeardown, net, peer, ghosts
  <1>12. QED
    BY <1>1, <1>11 DEF vars, net, peer, ghosts

\* While there are ids enough and the peer understands what it is sent, the
\* agent implements RequestSpec: a request is reported acknowledged only if
\* the peer's application got this very request, it ends once, and it is not
\* sent again after it ended; whatever is lost or late, and however the
\* threads of the agent overtake each other.
THEOREM RequestKeepsPromise ==
  ASSUME EnoughIds, Understood = Txn
  PROVE  Spec => RequestPromise
  <1>1. Init => Promise!Init
    BY DEF Init, Promise!Init
  <1>2. QED
    BY <1>1, InitRequestInv, NextRequestInv, NextRequestPromise, PTL
    DEF Spec, RequestPromise, Promise!Spec

-----------------------------------------------------------------------------
\* Timeouts have one source at a time.
SingleSources == \A t \in Txn : OneSource(txn[t].timeout)

InTable(t) == \E k \in TransactionId : transactions[k] = t
InsertAt(j, t) == queue[j].op = "insert" /\ queue[j].txn = t

\* What is allocated can be found: it is in the table, or its insert block waits.
LiveReachable == \A t \in Live : InTable(t) \/ \E j \in 1..Len(queue) : InsertAt(j, t)

RetryAt(i, t) == queue[i].op = "retry" /\ queue[i].id = txn[t].id

\* What will end the wait of t: an armed source, the retry block that is
\* running, or one that waits and will find t in the table when it runs.
Backed(t) ==
  \/ Armed(txn[t].timeout) # {}
  \/ retrying = t
  \/ \E i \in 1..Len(queue) :
       /\ RetryAt(i, t)
       /\ InTable(t) \/ \E j \in 1..Len(queue) : j < i /\ InsertAt(j, t)

WaitsBacked == \A t \in Txn : Waits(t) => Backed(t)

-----------------------------------------------------------------------------
(* One source at a time *)

\* No handler runs when the others may step.
LEMMA HandlersIdle ==
  ASSUME "timer" \notin Preempt, TimerYields
  PROVE  \A t \in Txn : InHandler(txn[t].timeout) = {}
  BY DEF TimerYields, TimerBusy

LEMMA SingleSourcesStep ==
  ASSUME "timer" \notin Preempt, AgentInv, SingleSources, Next
  PROVE  SingleSources'
  <1> USE DEF AgentInv
  <1>0. \A t \in Txn : txn[t].timeout \in TimeoutType /\ OneSource(txn[t].timeout)
    BY StructFields DEF TypeOK, SingleSources
  <1>1. ASSUME NEW t \in Txn, transactionRequest(t) PROVE SingleSources'
    <2>1. \A s \in Txn : txn'[s] = txn[s] \/ txn'[s] = NewTransaction(cseq)
      BY <1>1 DEF transactionRequest, TypeOK
    <2>2. OneSource(NewTransaction(cseq).timeout)
      BY NewOneSource DEF NewTransaction
    <2>3. QED
      BY <1>0, <2>1, <2>2 DEF SingleSources
  <1>2. ASSUME NEW t \in Txn, RequestArm(t) PROVE SingleSources'
    <2>1. /\ txn'[t].timeout = timeout_create_block(txn[t].timeout)
          /\ txn[t].timeout.source = 0
          /\ \A s \in Txn \ {t} : txn'[s] = txn[s]
      BY <1>2, RequestArmEffect
    <2>2. InHandler(txn[t].timeout) = {} /\ txn[t].timeout.source < MaxSources
      BY <1>2, <2>1, HandlersIdle, MaxSourcesAssumption DEF RequestArm
    <2>3. OneSource(timeout_create_block(txn[t].timeout))
      BY <1>0, <2>2, CreateOneSource
    <2>4. QED
      BY <1>0, <2>1, <2>3 DEF SingleSources
  <1>3. ASSUME NEW t \in Txn, NEW n \in SourceId, Timer(t, n) PROVE SingleSources'
    <2> DEFINE to == txn[t].timeout
    <2>1. \A s \in Txn \ {t} : txn'[s] = txn[s]
      BY <1>3, TimerEffect
    <2>2. \/ to.status[n] = "armed" /\ txn'[t].timeout = handler_block(to, n)
          \/ to.status[n] = "called" /\ txn'[t].timeout = handler_clear(to, n)
          \/ to.status[n] = "cleared" /\ txn'[t].timeout = handler_release(to, n)
      BY <1>3, TimerTimeout
    <2>3. OneSource(txn'[t].timeout)
      BY <1>0, <2>2, HandlerOneSource
    <2>4. QED
      BY <1>0, <2>1, <2>3 DEF SingleSources
  <1>4. ASSUME UNCHANGED txn PROVE SingleSources'
    BY <1>4 DEF SingleSources
  <1>5. ASSUME TimerYields,
               \A t \in Txn : \/ txn'[t].timeout = txn[t].timeout
                              \/ txn'[t].timeout = timeout_destroy(txn[t].timeout)
        PROVE  SingleSources'
    <2>1. \A t \in Txn : OneSource(timeout_destroy(txn[t].timeout))
      BY <1>0, <1>5, HandlersIdle, DestroyOneSource
    <2>2. QED
      BY <1>0, <1>5, <2>1 DEF SingleSources
  <1>6. ASSUME RunResponse PROVE SingleSources'
    <2>1. TimerYields
      BY <1>6 DEF RunResponse, Runs
    <2>2. QED
      BY <1>5, <1>6, <2>1, ResponseCases DEF CompletesAt
  <1>7. ASSUME transactionRetryOrFail PROVE SingleSources'
    <2>1. TimerYields
      BY <1>7 DEF transactionRetryOrFail, Runs
    <2>2. CASE RetryOf(transactions[Head(queue).id])
      BY <1>5, <2>1, <2>2, RetryEffect
    <2>3. CASE ~RetryOf(transactions[Head(queue).id])
      BY <1>5, <1>7, <2>1, <2>3, RetryCases DEF CompletesAt
    <2>4. QED
      BY <2>2, <2>3
  <1>8. ASSUME RetryArm PROVE SingleSources'
    <2>1. /\ retrying \in Txn
          /\ txn'[retrying].timeout = timeout_create_block(txn[retrying].timeout)
          /\ txn[retrying].timeout.source < MaxSources
          /\ \A s \in Txn \ {retrying} : txn'[s] = txn[s]
      BY <1>8, RetryArmEffect
    <2>2. InHandler(txn[retrying].timeout) = {}
      BY <1>8, <2>1, HandlersIdle DEF RetryArm
    <2>3. OneSource(timeout_create_block(txn[retrying].timeout))
      BY <1>0, <2>1, <2>2, CreateOneSource
    <2>4. QED
      BY <1>0, <2>1, <2>3 DEF SingleSources
  <1>9. ASSUME transactionRemoveAll, TimerYields PROVE SingleSources'
    BY <1>5, <1>9, RemoveAllEffect
  <1>10. QED
    BY <1>1, <1>2, <1>3, <1>4, <1>6, <1>7, <1>8, <1>9
    DEF Next, Caller, Network, DispatchQueue, Runs, RequestSend, DidReceiveResponse,
        DidReceiveRequest, RunRequest, Toggle, RunInsert, RunEnable, RunDisable,
        transactionTeardown

-----------------------------------------------------------------------------
(* Blocks keep their order *)

LEMMA AppendKeeps ==
  ASSUME TypeOK, NEW b, queue' = Append(queue, b)
  PROVE  \A j \in 1..Len(queue) : j \in 1..Len(queue') /\ queue'[j] = queue[j]
  BY AppendFacts

LEMMA TailKeeps ==
  ASSUME TypeOK, NEW op, Runs(op), queue' = Tail(queue)
  PROVE  /\ queue[1].op = op
         /\ \A j \in 1..Len(queue) : j = 1 \/ (j - 1 \in 1..Len(queue') /\ queue'[j - 1] = queue[j])
  <1>1. /\ queue[1].op = op
        /\ Len(queue) \in Nat \ {0} /\ Len(queue') = Len(queue) - 1
        /\ \A i \in 1..Len(queue') : queue'[i] = queue[i + 1]
    BY TailFacts
  <1>2. ASSUME NEW j \in 1..Len(queue), j # 1
        PROVE  j - 1 \in 1..Len(queue') /\ queue'[j - 1] = queue[j]
    BY <1>1, <1>2
  <1>3. QED
    BY <1>1, <1>2

\* The insert of s leaves what is in the table there: no other transaction has
\* its id.
LEMMA InsertKeeps ==
  ASSUME AgentInv, IdsInOrder, RunInsert, NEW s, s = Head(queue).txn
  PROVE  /\ s \in Txn /\ InTable(s)'
         /\ \A t \in Txn : InTable(t) => InTable(t)'
         /\ queue[1].op = "insert" /\ queue[1].txn = s
         /\ txn' = txn
  <1> USE DEF AgentInv
  <1>1. s \in Txn /\ Runs("insert") /\ queue' = Tail(queue) /\ txn' = txn
    BY HeadFields DEF RunInsert
  <1>2. txn[s].id \in TransactionId
    BY <1>1, StructFields DEF TypeOK
  <1>3. transactions' = [transactions EXCEPT ![txn[s].id] = s]
    BY <1>2 DEF RunInsert, hashtable_insert, TypeOK
  <1>4. queue[1].op = "insert" /\ queue[1].txn = s /\ 1 \in 1..Len(queue)
    BY <1>1, TailFacts
  <1>5. s \in Allocated
    BY <1>1, <1>4, WaitingInserts DEF Allocated
  <1>6. transactions'[txn[s].id] = s
    BY <1>2, <1>3 DEF TypeOK
  <1>7. ASSUME NEW t \in Txn, NEW k \in TransactionId, transactions[k] = t, t # s
        PROVE  transactions'[k] = t
    <2>1. t \in Allocated /\ txn[t].id = k
      BY <1>7, NullTxnAssumption DEF TableLive, Allocated
    <2>2. k # txn[s].id
      BY <1>5, <1>7, <2>1 DEF IdsInOrder
    <2>3. QED
      BY <1>3, <1>7, <2>2 DEF TypeOK
  <1>8. QED
    BY <1>1, <1>2, <1>4, <1>6, <1>7 DEF InTable

LEMMA LiveReachableStep ==
  ASSUME AgentInv, IdsInOrder, LiveReachable, Next
  PROVE  LiveReachable'
  <1> USE DEF AgentInv
  \* Whoever is live after the step was live before it or is just requested.
  <1>1. ASSUME Live' \subseteq Live,
               \A t \in Live' : InTable(t) => InTable(t)',
               \A t \in Live', j \in 1..Len(queue) : InsertAt(j, t) =>
                 InTable(t)' \/ \E i \in 1..Len(queue') : queue'[i] = queue[j]
        PROVE  LiveReachable'
    BY <1>1 DEF LiveReachable, InsertAt
  <1>2. ASSUME Live' = Live, transactions' = transactions, NEW b,
               queue' = queue \/ queue' = Append(queue, b)
        PROVE  LiveReachable'
    BY <1>1, <1>2, AppendKeeps DEF InTable
  <1>3. ASSUME NEW op, op # "insert", Runs(op), queue' = Tail(queue), Live' \subseteq Live,
               \A t \in Live' : InTable(t) => InTable(t)'
        PROVE  LiveReachable'
    BY <1>1, <1>3, TailKeeps DEF InsertAt
  <1>4. ASSUME NEW t \in Txn, transactionRequest(t) PROVE LiveReachable'
    <2>1. CASE freePackets = 0
      BY <1>2, <1>4, <2>1 DEF transactionRequest, Live
    <2>2. CASE freePackets # 0
      <3>1. /\ queue' = Append(queue, [op |-> "insert", txn |-> t])
            /\ transactions' = transactions
            /\ \A s \in Txn \ {t} : txn'[s] = txn[s]
        BY <1>4, <2>2 DEF transactionRequest, TypeOK
      <3>2. /\ Len(queue) + 1 \in 1..Len(queue')
            /\ queue'[Len(queue) + 1] = [op |-> "insert", txn |-> t]
        BY <3>1, AppendFacts
      <3>3. \E j \in 1..Len(queue') : InsertAt(j, t)'
        BY <3>2 DEF InsertAt
      <3>4. ASSUME NEW s \in Live', s # t
            PROVE  InTable(s)' \/ \E j \in 1..Len(queue') : InsertAt(j, s)'
        <4>1. s \in Live
          BY <3>1, <3>4 DEF Live
        <4>2. QED
          BY <3>1, <4>1, AppendKeeps DEF LiveReachable, InTable, InsertAt
      <3>5. QED
        BY <3>3, <3>4 DEF LiveReachable
    <2>3. QED
      BY <2>1, <2>2
  <1>5. ASSUME NEW t \in Txn, RequestArm(t) PROVE LiveReachable'
    <2>1. Live' = Live
      BY <1>5, RequestArmEffect DEF Live
    <2>2. QED
      BY <1>2, <1>5, <2>1 DEF RequestArm
  <1>6. ASSUME NEW t \in Txn, NEW n \in SourceId, Timer(t, n) PROVE LiveReachable'
    <2>1. Live' = Live
      BY <1>6, TimerEffect DEF Live
    <2>2. QED
      BY <1>2, <1>6, <2>1 DEF Timer, TimerBlock, TimerClear, TimerRelease
  <1>7. ASSUME UNCHANGED <<txn, transactions>>, NEW b, queue' = queue \/ queue' = Append(queue, b)
        PROVE  LiveReachable'
    BY <1>2, <1>7 DEF Live
  <1>8. ASSUME RunInsert PROVE LiveReachable'
    <2> PICK s : s = Head(queue).txn
      OBVIOUS
    <2>1. /\ s \in Txn /\ InTable(s)'
          /\ \A t \in Txn : InTable(t) => InTable(t)'
          /\ queue[1].txn = s
          /\ txn' = txn
      BY <1>8, InsertKeeps
    <2>2. Runs("insert") /\ queue' = Tail(queue)
      BY <1>8 DEF RunInsert
    <2>3. \A t \in Live, j \in 1..Len(queue) : InsertAt(j, t) =>
            InTable(t)' \/ \E i \in 1..Len(queue') : queue'[i] = queue[j]
      BY <2>1, <2>2, TailKeeps DEF InsertAt
    <2>4. Live' = Live /\ Live \subseteq Txn
      BY <2>1 DEF Live
    <2>5. QED
      BY <1>1, <2>1, <2>3, <2>4
  <1>9. ASSUME NEW id, NEW t \in Txn, NEW state, NEW extra, CompletesAt(id, t, state, extra)
        PROVE  Live' \subseteq Live /\ \A s \in Live' : InTable(s) => InTable(s)'
    <2>1. Live' = Live \ {t}
      BY <1>9 DEF CompletesAt, Live
    <2>2. QED
      BY <1>9, <2>1 DEF CompletesAt, InTable
  <1>10. ASSUME RunResponse PROVE LiveReachable'
    <2>1. Runs("response") /\ queue' = Tail(queue)
      BY <1>10 DEF RunResponse
    <2>2. CASE UNCHANGED <<transactions, txn>>
      BY <1>3, <2>1, <2>2 DEF Live, InTable
    <2>3. QED
      BY <1>3, <1>9, <1>10, <2>1, <2>2, ResponseCases
  <1>11. ASSUME transactionRetryOrFail PROVE LiveReachable'
    <2>1. Runs("retry") /\ queue' = Tail(queue)
      BY <1>11 DEF transactionRetryOrFail
    <2>2. CASE UNCHANGED <<transactions, txn>>
      BY <1>3, <2>1, <2>2 DEF Live, InTable
    <2>3. CASE RetryOf(transactions[Head(queue).id])
      <3>1. PICK t : t = transactions[Head(queue).id]
        OBVIOUS
      <3>2. t \in Txn /\ RetryOf(t) /\ transactions' = transactions
        BY <2>3, <3>1 DEF RetryOf
      <3>3. Live' = Live
        BY <3>2, RetryEffect DEF Live
      <3>4. QED
        BY <1>3, <2>1, <3>2, <3>3 DEF InTable
    <2>4. QED
      BY <1>3, <1>9, <1>11, <2>1, <2>2, <2>3, RetryCases
  <1>12. ASSUME RetryArm PROVE LiveReachable'
    <2>1. Live' = Live
      BY <1>12, RetryArmEffect DEF Live
    <2>2. QED
      BY <1>2, <1>12, <2>1 DEF RetryArm
  <1>13. ASSUME transactionRemoveAll PROVE Live' \subseteq Live /\ \A t \in Live' : ~InTable(t)
    BY <1>13, RemoveAllEffect DEF Live, InTable
  <1>14. ASSUME RunEnable \/ RunDisable PROVE LiveReachable'
    <2>1. /\ Runs("enable") \/ Runs("disable")
          /\ queue' = Tail(queue)
          /\ transactionRemoveAll \/ UNCHANGED <<transactions, txn>>
      BY <1>14 DEF RunEnable, RunDisable
    <2>2. Live' \subseteq Live /\ \A t \in Live' : InTable(t) => InTable(t)'
      BY <1>13, <2>1 DEF Live, InTable
    <2>3. QED
      BY <1>3, <2>1, <2>2
  <1>15. ASSUME transactionTeardown PROVE LiveReachable'
    BY <1>1, <1>13, <1>15 DEF transactionTeardown
  <1>16. ASSUME NEW t \in Txn, Network(t) PROVE LiveReachable'
    BY <1>7, <1>16 DEF Network, DidReceiveResponse, DidReceiveRequest, RunRequest
  <1>17. ASSUME NEW op \in {"enable", "disable"}, Toggle(op) PROVE LiveReachable'
    BY <1>7, <1>17 DEF Toggle
  <1>18. ASSUME NEW t \in Txn, RequestSend(t) PROVE LiveReachable'
    BY <1>7, <1>18 DEF RequestSend
  <1>19. QED
    BY <1>4, <1>5, <1>6, <1>8, <1>10, <1>11, <1>12, <1>14, <1>15, <1>16, <1>17, <1>18
    DEF Next, Caller, DispatchQueue

-----------------------------------------------------------------------------
(* Every wait is backed *)

\* t keeps what backs it while the queue keeps or adds blocks,
LEMMA BackedAppend ==
  ASSUME TypeOK, NEW t \in Txn, Backed(t),
         Armed(txn[t].timeout) # {} => Armed(txn'[t].timeout) # {},
         retrying = t => retrying' = t,
         txn'[t].id = txn[t].id,
         InTable(t) => InTable(t)',
         NEW b, queue' = queue \/ queue' = Append(queue, b)
  PROVE  Backed(t)'
  <1>1. \A j \in 1..Len(queue) : j \in 1..Len(queue') /\ queue'[j] = queue[j]
    BY AppendKeeps
  <1>2. CASE \E i \in 1..Len(queue) :
               /\ RetryAt(i, t)
               /\ InTable(t) \/ \E j \in 1..Len(queue) : j < i /\ InsertAt(j, t)
    <2>1. PICK i \in 1..Len(queue) :
               /\ RetryAt(i, t)
               /\ InTable(t) \/ \E j \in 1..Len(queue) : j < i /\ InsertAt(j, t)
      BY <1>2
    <2>2. i \in 1..Len(queue') /\ RetryAt(i, t)'
      BY <1>1, <2>1 DEF RetryAt
    <2>3. InTable(t)' \/ \E j \in 1..Len(queue') : j < i /\ InsertAt(j, t)'
      BY <1>1, <2>1 DEF InsertAt
    <2>4. QED
      BY <2>2, <2>3 DEF Backed
  <1>3. QED
    BY <1>2 DEF Backed

\* and while it runs one, unless it is the insert of t or a retry that finds t.
LEMMA BackedTail ==
  ASSUME TypeOK, NEW op, Runs(op), queue' = Tail(queue), NEW t \in Txn, Backed(t),
         Armed(txn[t].timeout) # {} => Armed(txn'[t].timeout) # {},
         txn'[t].id = txn[t].id,
         InTable(t) => InTable(t)',
         InsertAt(1, t) => InTable(t)',
         RetryAt(1, t) => ~InTable(t)
  PROVE  Backed(t)'
  <1>1. \A j \in 1..Len(queue) : j = 1 \/ (j - 1 \in 1..Len(queue') /\ queue'[j - 1] = queue[j])
    BY TailKeeps
  <1>2. retrying # t
    BY NullTxnAssumption DEF Runs
  <1>3. CASE \E i \in 1..Len(queue) :
               /\ RetryAt(i, t)
               /\ InTable(t) \/ \E j \in 1..Len(queue) : j < i /\ InsertAt(j, t)
    <2>1. PICK i \in 1..Len(queue) :
               /\ RetryAt(i, t)
               /\ InTable(t) \/ \E j \in 1..Len(queue) : j < i /\ InsertAt(j, t)
      BY <1>3
    <2>2. i # 1
      <3>1. i = 1 => \A j \in 1..Len(queue) : ~(j < i)
        OBVIOUS
      <3>2. QED
        BY <2>1, <3>1
    <2>3. i - 1 \in 1..Len(queue') /\ queue'[i - 1] = queue[i]
      BY <1>1, <2>2
    <2>4. RetryAt(i - 1, t)'
      BY <2>1, <2>3 DEF RetryAt
    <2>5. ASSUME NEW j \in 1..Len(queue), j < i, InsertAt(j, t)
          PROVE  InTable(t)' \/ \E k \in 1..Len(queue') : k < i - 1 /\ InsertAt(k, t)'
      <3>1. CASE j = 1
        BY <2>5, <3>1
      <3>2. CASE j # 1
        <4>1. j - 1 \in 1..Len(queue') /\ queue'[j - 1] = queue[j] /\ j - 1 < i - 1
          BY <1>1, <2>5, <3>2
        <4>2. QED
          BY <2>5, <4>1 DEF InsertAt
      <3>3. QED
        BY <3>1, <3>2
    <2>6. InTable(t)' \/ \E k \in 1..Len(queue') : k < i - 1 /\ InsertAt(k, t)'
      BY <2>1, <2>5
    <2>7. QED
      BY <2>3, <2>4, <2>6 DEF Backed
  <1>4. QED
    BY <1>2, <1>3 DEF Backed

LEMMA WaitsBackedStep ==
  ASSUME "timer" \notin Preempt, AgentInv, SingleSources, IdsInOrder, LiveReachable,
         WaitsBacked, Next
  PROVE  WaitsBacked'
  <1> USE DEF AgentInv
  <1>0. \A t \in Txn : /\ txn[t] \in Struct
                       /\ txn[t].timeout \in TimeoutType /\ OneSource(txn[t].timeout)
    BY StructFields DEF TypeOK, SingleSources
  \* What the table holds under its id
  <1>1. ASSUME NEW t \in Txn, InTable(t) PROVE transactions[txn[t].id] = t
    BY <1>1, NullTxnAssumption DEF InTable, TableLive
  \* A step that does not touch t
  <1>2. ASSUME NEW t \in Txn, Waits(t)', txn'[t] = txn[t], retrying = t => retrying' = t,
               InTable(t) => InTable(t)', NEW b, queue' = queue \/ queue' = Append(queue, b)
        PROVE  Backed(t)'
    <2>1. Backed(t)
      BY <1>2 DEF WaitsBacked, Waits
    <2>2. QED
      BY <1>2, <2>1, BackedAppend
  <1>3. ASSUME NEW t \in Txn, Waits(t)', txn'[t] = txn[t], NEW op, Runs(op),
               queue' = Tail(queue), InTable(t) => InTable(t)',
               InsertAt(1, t) => InTable(t)', RetryAt(1, t) => ~InTable(t)
        PROVE  Backed(t)'
    <2>1. Backed(t)
      BY <1>3 DEF WaitsBacked, Waits
    <2>2. QED
      BY <1>3, <2>1, BackedTail
  <1>4. ASSUME NEW s \in Txn, transactionRequest(s) PROVE WaitsBacked'
    <2>1. /\ retrying' = retrying /\ transactions' = transactions /\ pc[s] = "start"
          /\ queue' = queue \/ queue' = Append(queue, [op |-> "insert", txn |-> s])
          /\ \A t \in Txn \ {s} : txn'[t] = txn[t]
          /\ txn'[s] = txn[s] \/ txn'[s] = NewTransaction(cseq)
      BY <1>4 DEF transactionRequest, TypeOK
    <2>2. ~Waits(s)'
      BY <2>1 DEF Waits, SourcePerSend, NewTransaction
    <2>3. QED
      BY <1>2, <2>1, <2>2 DEF WaitsBacked, InTable
  <1>5. ASSUME NEW s \in Txn, RequestArm(s) PROVE WaitsBacked'
    <2>1. /\ retrying' = retrying /\ transactions' = transactions /\ queue' = queue
          /\ txn'[s].timeout = timeout_create_block(txn[s].timeout)
          /\ txn[s].timeout.source = 0
          /\ \A t \in Txn \ {s} : txn'[t] = txn[t]
      BY <1>5, RequestArmEffect DEF RequestArm
    <2>2. InHandler(txn[s].timeout) = {} /\ txn[s].timeout.source < MaxSources
      BY <1>5, <2>1, HandlersIdle, MaxSourcesAssumption DEF RequestArm
    <2>3. Backed(s)'
      BY <1>0, <2>1, <2>2, CreateOneSource DEF Backed
    <2>4. QED
      BY <1>2, <2>1, <2>3 DEF WaitsBacked, InTable
  <1>6. ASSUME NEW s \in Txn, NEW n \in SourceId, Timer(s, n) PROVE WaitsBacked'
    <2>1. /\ txn'[s].mem = txn[s].mem /\ txn'[s].state = txn[s].state
          /\ txn'[s].id = txn[s].id
          /\ \A t \in Txn \ {s} : txn'[t] = txn[t]
      BY <1>6, TimerEffect
    <2>2. CASE TimerBlock(s, n)
      <3>1. /\ retrying' = retrying /\ transactions' = transactions
            /\ txn[s].mem = "live"
            /\ queue' = Append(queue, [op |-> "retry", id |-> txn[s].id])
        BY <2>2 DEF TimerBlock
      <3>2. PICK k : k = Len(queue) + 1
        OBVIOUS
      <3>3. /\ k \in 1..Len(queue') /\ queue'[k] = [op |-> "retry", id |-> txn[s].id]
            /\ \A j \in 1..Len(queue) : j < k /\ j \in 1..Len(queue') /\ queue'[j] = queue[j]
        BY <3>1, <3>2, AppendFacts
      <3>4. RetryAt(k, s)'
        BY <2>1, <3>3 DEF RetryAt
      <3>5. InTable(s) \/ \E j \in 1..Len(queue) : InsertAt(j, s)
        BY <3>1 DEF LiveReachable, Live
      <3>6. InTable(s)' \/ \E j \in 1..Len(queue') : j < k /\ InsertAt(j, s)'
        BY <3>1, <3>3, <3>5 DEF InTable, InsertAt
      <3>7. Backed(s)'
        BY <3>3, <3>4, <3>6 DEF Backed
      <3>8. QED
        BY <1>2, <2>1, <3>1, <3>7 DEF WaitsBacked, InTable
    <2>3. CASE TimerClear(s, n) \/ TimerRelease(s, n)
      <3>1. /\ retrying' = retrying /\ transactions' = transactions /\ queue' = queue
            /\ txn[s].timeout.status[n] \in {"called", "cleared"}
        BY <2>3 DEF TimerClear, TimerRelease
      <3>2. Armed(txn[s].timeout) = {}
        BY <1>0, <3>1 DEF Armed, OneSource, Active
      <3>3. Waits(s)' => Backed(s)'
        <4>1. ASSUME Waits(s)' PROVE Backed(s)
          BY <2>1, <4>1 DEF WaitsBacked, Waits
        <4>2. QED
          BY <2>1, <3>1, <3>2, <4>1, BackedAppend DEF InTable
      <3>4. QED
        BY <1>2, <2>1, <3>1, <3>3 DEF WaitsBacked, InTable
    <2>4. QED
      BY <1>6, <2>2, <2>3 DEF Timer
  <1>7. ASSUME UNCHANGED <<txn, transactions, retrying>>, NEW b,
               queue' = queue \/ queue' = Append(queue, b)
        PROVE  WaitsBacked'
    BY <1>2, <1>7 DEF WaitsBacked, InTable
  <1>8. ASSUME RunInsert PROVE WaitsBacked'
    <2>1. PICK s : s = Head(queue).txn
      OBVIOUS
    <2>2. /\ InTable(s)' /\ \A t \in Txn : InTable(t) => InTable(t)'
          /\ queue[1].op = "insert" /\ queue[1].txn = s
          /\ txn' = txn
      BY <1>8, <2>1, InsertKeeps
    <2>3. Runs("insert") /\ queue' = Tail(queue)
      BY <1>8 DEF RunInsert
    <2>4. \A t \in Txn : (InsertAt(1, t) => InTable(t)') /\ ~RetryAt(1, t)
      BY <2>2 DEF InsertAt, RetryAt
    <2>5. QED
      BY <1>3, <2>2, <2>3, <2>4 DEF WaitsBacked
  \* The first block is not an insert.
  <1>9. ASSUME NEW op, op # "insert", Runs(op), queue' = Tail(queue),
               \A t \in Txn : Waits(t)' => /\ txn'[t] = txn[t]
                                           /\ InTable(t) => InTable(t)'
                                           /\ RetryAt(1, t) => ~InTable(t)
        PROVE  WaitsBacked'
    <2>1. \A t \in Txn : ~InsertAt(1, t)
      BY <1>9, TailKeeps DEF InsertAt
    <2>2. QED
      BY <1>3, <1>9, <2>1 DEF WaitsBacked
  <1>10. ASSUME NEW id, NEW s \in Txn, NEW state, NEW extra, CompletesAt(id, s, state, extra)
         PROVE  \A t \in Txn : Waits(t)' => t # s /\ txn'[t] = txn[t] /\ (InTable(t) => InTable(t)')
    BY <1>10 DEF CompletesAt, InTable, Waits
  <1>11. ASSUME RunResponse PROVE WaitsBacked'
    <2>1. Runs("response") /\ queue' = Tail(queue)
      BY <1>11 DEF RunResponse
    <2>2. \A t \in Txn : ~RetryAt(1, t)
      BY <2>1, TailKeeps DEF RetryAt
    <2>3. \A t \in Txn : Waits(t)' => txn'[t] = txn[t] /\ (InTable(t) => InTable(t)')
      BY <1>10, <1>11, ResponseCases DEF InTable
    <2>4. QED
      BY <1>9, <2>1, <2>2, <2>3
  <1>12. ASSUME transactionRetryOrFail PROVE WaitsBacked'
    <2>1. Runs("retry") /\ queue' = Tail(queue)
      BY <1>12 DEF transactionRetryOrFail
    <2>2. PICK id : id = Head(queue).id
      OBVIOUS
    <2>3. \A t \in Txn : RetryAt(1, t) /\ InTable(t) => transactions[id] = t
      BY <1>1, <2>1, <2>2, TailFacts DEF RetryAt
    <2>4. CASE /\ transactions[id] = NULL \/ txn[transactions[id]].state # "Waiting"
               /\ UNCHANGED <<transactions, txn>>
      <3>1. \A t \in Txn : Waits(t)' => /\ txn'[t] = txn[t]
                                        /\ InTable(t) => InTable(t)'
                                        /\ RetryAt(1, t) => ~InTable(t)
        BY <2>3, <2>4, NullTxnAssumption DEF Waits, InTable
      <3>2. QED
        BY <1>9, <2>1, <3>1
    <2>5. ASSUME NEW s, s = transactions[id], RetryOf(s) PROVE WaitsBacked'
      <3>1. s \in Txn /\ retrying' = s /\ transactions' = transactions
        BY <2>5 DEF RetryOf
      <3>2. \A t \in Txn \ {s} : txn'[t] = txn[t]
        BY <2>5, RetryEffect
      <3>3. Backed(s)'
        BY <3>1 DEF Backed
      <3>4. ASSUME NEW t \in Txn, Waits(t)', t # s PROVE Backed(t)'
        <4>1. ~InsertAt(1, t)
          BY <2>1, TailKeeps DEF InsertAt
        <4>2. RetryAt(1, t) => ~InTable(t)
          BY <2>3, <2>5, <3>4
        <4>3. InTable(t) => InTable(t)'
          BY <3>1 DEF InTable
        <4>4. QED
          BY <1>3, <2>1, <3>2, <3>4, <4>1, <4>2, <4>3
      <3>5. QED
        BY <3>3, <3>4 DEF WaitsBacked
    <2>6. ASSUME NEW s \in Txn, CompletesAt(id, s, "Timeout", 0) PROVE WaitsBacked'
      <3>1. transactions[id] = s
        BY <2>6 DEF CompletesAt
      <3>2. \A t \in Txn : Waits(t)' => t # s /\ txn'[t] = txn[t] /\ (InTable(t) => InTable(t)')
        BY <1>10, <2>6
      <3>3. QED
        BY <1>9, <2>1, <2>3, <3>1, <3>2
    <2>7. QED
      BY <1>12, <2>2, <2>4, <2>5, <2>6, RetryCases
  <1>13. ASSUME RetryArm PROVE WaitsBacked'
    <2>1. PICK s : s = retrying
      OBVIOUS
    <2>2. /\ s \in Txn /\ transactions' = transactions /\ queue' = queue
          /\ txn'[s].timeout = timeout_create_block(txn[s].timeout)
          /\ txn[s].timeout.source < MaxSources
          /\ \A t \in Txn \ {s} : txn'[t] = txn[t]
      BY <1>13, <2>1, RetryArmEffect DEF RetryArm
    <2>3. InHandler(txn[s].timeout) = {}
      BY <1>13, <2>2, HandlersIdle DEF RetryArm
    <2>4. Backed(s)'
      BY <1>0, <2>2, <2>3, CreateOneSource DEF Backed
    <2>5. QED
      BY <1>2, <2>1, <2>2, <2>4 DEF WaitsBacked, InTable
  <1>14. ASSUME transactionRemoveAll
         PROVE  \A t \in Txn : Waits(t)' => txn'[t] = txn[t] /\ ~InTable(t)
    BY <1>14, RemoveAllEffect DEF Waits, InTable
  <1>15. ASSUME RunEnable \/ RunDisable PROVE WaitsBacked'
    <2>1. PICK op \in {"enable", "disable"} : Runs(op)
      BY <1>15 DEF RunEnable, RunDisable
    <2>2. /\ queue' = Tail(queue)
          /\ transactionRemoveAll \/ UNCHANGED <<transactions, txn>>
      BY <1>15 DEF RunEnable, RunDisable
    <2>3. \A t \in Txn : ~RetryAt(1, t)
      BY <2>1, <2>2, TailKeeps DEF RetryAt
    <2>4. \A t \in Txn : Waits(t)' => txn'[t] = txn[t] /\ (InTable(t) => InTable(t)')
      BY <1>14, <2>2 DEF InTable
    <2>5. QED
      BY <1>9, <2>1, <2>2, <2>3, <2>4
  <1>16. ASSUME transactionTeardown PROVE WaitsBacked'
    <2>1. transactionRemoveAll /\ UNCHANGED <<queue, retrying>>
      BY <1>16 DEF transactionTeardown
    <2>2. QED
      BY <1>2, <1>14, <2>1 DEF WaitsBacked
  <1>17. ASSUME NEW t \in Txn, Network(t) PROVE WaitsBacked'
    BY <1>7, <1>17 DEF Network, DidReceiveResponse, DidReceiveRequest, RunRequest
  <1>18. ASSUME NEW op \in {"enable", "disable"}, Toggle(op) PROVE WaitsBacked'
    BY <1>7, <1>18 DEF Toggle
  <1>19. ASSUME NEW t \in Txn, RequestSend(t) PROVE WaitsBacked'
    BY <1>7, <1>19 DEF RequestSend
  <1>20. QED
    BY <1>4, <1>5, <1>6, <1>8, <1>11, <1>12, <1>13, <1>15, <1>16, <1>17, <1>18, <1>19
    DEF Next, Caller, DispatchQueue

-----------------------------------------------------------------------------
\* One insert at a time, one source at a time, and each wait backed
WaitInv == AgentInv /\ IdsInOrder /\ SingleSources /\ LiveReachable /\ WaitsBacked

LEMMA InitWaitInv == ASSUME Init PROVE WaitInv
  <1>1. \A t \in Txn : txn[t].timeout = NewTimeout /\ txn[t].mem = "none"
    BY DEF Init, NewTransaction
  <1>2. SingleSources
    BY <1>1, NewOneSource DEF SingleSources
  <1>3. LiveReachable /\ WaitsBacked
    BY <1>1 DEF LiveReachable, Live, WaitsBacked, Waits
  <1>4. QED
    BY <1>2, <1>3, InitAgentInv, InitIdsInOrder DEF WaitInv

LEMMA NextWaitInv ==
  ASSUME EnoughIds, "timer" \notin Preempt, WaitInv, [Next]_vars
  PROVE  WaitInv'
  <1> USE DEF WaitInv
  <1>1. CASE Next
    BY <1>1, NextAgentInv, IdsStep, SingleSourcesStep, LiveReachableStep, WaitsBackedStep
  <1>2. CASE UNCHANGED vars
    <2>1. AgentInv'
      BY NextAgentInv
    <2>2. UNCHANGED <<txn, queue, transactions, cseq, retrying>>
      BY <1>2 DEF vars
    <2>3. IdsInOrder'
      BY <2>2 DEF IdsInOrder, Allocated
    <2>4. SingleSources' /\ LiveReachable' /\ WaitsBacked'
      BY <2>2 DEF SingleSources, LiveReachable, WaitsBacked, Live, InTable, InsertAt, Waits,
                  Backed, RetryAt
    <2>5. QED
      BY <2>1, <2>3, <2>4
  <1>3. QED
    BY <1>1, <1>2

LEMMA BackedNotStranded ==
  ASSUME TypeOK, WaitsBacked PROVE NeverStranded
  <1>1. ASSUME NEW t \in Txn, NEW i \in 1..Len(queue), RetryAt(i, t)
        PROVE  queue[i] = [op |-> "retry", id |-> txn[t].id]
    <2>1. queue[i] \in Block
      BY DEF TypeOK
    <2>2. queue[i].op = "retry" /\ queue[i].id = txn[t].id
      BY <1>1 DEF RetryAt
    <2>3. queue[i] \in [op : {"retry"}, id : TransactionId]
      BY <2>1, <2>2 DEF Block
    <2>4. QED
      BY <2>2, <2>3
  <1>2. QED
    BY <1>1 DEF WaitsBacked, Backed, NeverStranded, Queued

\* While there are ids enough, and no thread overtakes the handler of a timeout
\* between its block and the release of its source, a transaction that waits
\* can still time out.  The caller and the queue may be overtaken anywhere.
THEOREM WaitsNeverStranded ==
  ASSUME EnoughIds, "timer" \notin Preempt
  PROVE  Spec => []NeverStranded
  <1>1. WaitInv => NeverStranded
    BY BackedNotStranded DEF WaitInv, AgentInv
  <1>2. QED
    BY <1>1, InitWaitInv, NextWaitInv, PTL DEF Spec

-----------------------------------------------------------------------------
(* Nothing freed is used, on schedules that split no thread *)

\* What a timer or a retry block will touch is live.
RunsLive == \A t \in Txn : Running(t) # {} \/ retrying = t => txn[t].mem = "live"

\* Nothing is left to do after transactionTeardown.
TornIdle == torn => queue = << >> /\ retrying = NULL /\ ~CallerBusy /\ Live = {}

\* A transaction is sent once, and once for each retry.
SendsBounded ==
  \A t \in Txn : /\ requests[t] + answering[t] <= txn[t].retries + 1
                 /\ pc[t] \in {"start", "packed"} => requests[t] = 0 /\ answering[t] = 0

\* The peer has a packet more than all the requests and retries it can be sent.
PeerPoolSuffices == Cardinality(Txn) * (MaxRetries + 1) < PeerPoolSize

LEMMA CallerSafeStep ==
  ASSUME Preempt = {}, AgentInv, CallerSafe, Next
  PROVE  CallerSafe'
  <1> USE DEF AgentInv
  <1>1. ASSUME NEW t \in Txn, transactionRequest(t) PROVE CallerSafe'
    <2>1. /\ \A s \in Txn \ {t} : pc'[s] = pc[s] /\ txn'[s] = txn[s]
          /\ \/ pc'[t] = "done"
             \/ txn'[t] = NewTransaction(cseq)
      BY <1>1 DEF transactionRequest, TypeOK
    <2>2. QED
      BY <2>1 DEF CallerSafe, NewTransaction
  <1>2. ASSUME NEW t \in Txn, RequestSend(t) PROVE CallerSafe'
    BY <1>2 DEF RequestSend, CallerSafe, TypeOK
  <1>3. ASSUME NEW t \in Txn, RequestArm(t) PROVE CallerSafe'
    <2>1. pc'[t] = "done" /\ \A s \in Txn \ {t} : pc'[s] = pc[s] /\ txn'[s] = txn[s]
      BY <1>3, RequestArmEffect DEF RequestArm, TypeOK
    <2>2. QED
      BY <2>1 DEF CallerSafe
  <1>4. ASSUME NEW t \in Txn, NEW n \in SourceId, Timer(t, n) PROVE CallerSafe'
    <2>1. pc' = pc
      BY <1>4 DEF Timer, TimerBlock, TimerClear, TimerRelease
    <2>2. \A s \in Txn : txn'[s].mem = txn[s].mem
      BY <1>4, TimerEffect
    <2>3. QED
      BY <2>1, <2>2 DEF CallerSafe
  <1>5. ASSUME pc' = pc, ~CallerBusy PROVE CallerSafe'
    BY <1>5 DEF CallerSafe, CallerBusy
  <1>6. QED
    BY <1>1, <1>2, <1>3, <1>4, <1>5
    DEF Next, Caller, Network, DispatchQueue, Runs, CallerYields, DidReceiveResponse,
        DidReceiveRequest, RunRequest, Toggle, RunInsert, RunResponse, transactionRetryOrFail,
        RetryArm, RunEnable, RunDisable, transactionTeardown

LEMMA RunsLiveStep ==
  ASSUME Preempt = {}, AgentInv, SingleSources, RunsLive, Next
  PROVE  RunsLive'
  <1> USE DEF AgentInv
  <1>0. \A t \in Txn : txn[t].timeout \in TimeoutType /\ OneSource(txn[t].timeout)
    BY StructFields DEF TypeOK, SingleSources
  <1>1. ASSUME TimerYields, NEW t \in Txn, txn'[t].timeout = timeout_destroy(txn[t].timeout)
        PROVE  Running(t)' = {}
    BY <1>0, <1>1, HandlersIdle, DestroyOneSource DEF Running
  \* Each transaction is untouched, or live, or at rest.
  <1>2. ASSUME \A t \in Txn : \/ txn'[t] = txn[t] /\ (retrying' = t => retrying = t)
                              \/ txn'[t].mem = "live"
                              \/ Running(t)' = {} /\ retrying' # t
        PROVE  RunsLive'
    BY <1>2 DEF RunsLive, Running
  <1>3. ASSUME NEW t \in Txn, transactionRequest(t) PROVE RunsLive'
    <2>1. /\ retrying' = retrying
          /\ \A s \in Txn \ {t} : txn'[s] = txn[s]
          /\ txn'[t] = txn[t] \/ txn'[t] = NewTransaction(cseq)
      BY <1>3 DEF transactionRequest, TypeOK
    <2>2. QED
      BY <1>2, <2>1 DEF NewTransaction
  <1>4. ASSUME NEW t \in Txn, RequestArm(t) PROVE RunsLive'
    <2>1. /\ retrying' = retrying /\ txn'[t].mem = "live"
          /\ \A s \in Txn \ {t} : txn'[s] = txn[s]
      BY <1>4, RequestArmEffect DEF RequestArm
    <2>2. QED
      BY <1>2, <2>1
  <1>5. ASSUME NEW t \in Txn, NEW n \in SourceId, Timer(t, n) PROVE RunsLive'
    <2>1. retrying' = retrying /\ txn[t].mem = "live"
      BY <1>5 DEF Timer, TimerBlock, TimerClear, TimerRelease
    <2>2. txn'[t].mem = txn[t].mem /\ \A s \in Txn \ {t} : txn'[s] = txn[s]
      BY <1>5, TimerEffect
    <2>3. QED
      BY <1>2, <2>1, <2>2
  <1>6. ASSUME UNCHANGED <<txn, retrying>> PROVE RunsLive'
    BY <1>2, <1>6
  <1>7. ASSUME TimerYields, retrying' = NULL, NEW id, NEW t \in Txn, NEW state, NEW extra,
               CompletesAt(id, t, state, extra)
        PROVE  RunsLive'
    <2>1. Running(t)' = {} /\ \A s \in Txn \ {t} : txn'[s] = txn[s]
      BY <1>1, <1>7 DEF CompletesAt
    <2>2. QED
      BY <1>2, <1>7, <2>1, NullTxnAssumption
  <1>8. ASSUME RunResponse PROVE RunsLive'
    <2>1. TimerYields /\ retrying = NULL /\ retrying' = NULL
      BY <1>8 DEF RunResponse, Runs
    <2>2. QED
      BY <1>6, <1>7, <1>8, <2>1, ResponseCases
  <1>9. ASSUME transactionRetryOrFail PROVE RunsLive'
    <2>1. TimerYields /\ retrying = NULL
      BY <1>9 DEF transactionRetryOrFail, Runs
    <2>2. ASSUME NEW t, RetryOf(t), txn[t].mem = "live" PROVE RunsLive'
      <3>1. /\ retrying' = t /\ txn'[t].mem = "live"
            /\ \A s \in Txn \ {t} : txn'[s] = txn[s]
        BY <2>2, RetryEffect DEF RetryOf
      <3>2. QED
        BY <1>2, <3>1
    <2>3. QED
      BY <1>6, <1>7, <1>9, <2>1, <2>2, RetryCases
  <1>10. ASSUME RetryArm PROVE RunsLive'
    <2>1. PICK t : t = retrying
      OBVIOUS
    <2>2. /\ t \in Txn /\ retrying' = NULL /\ txn'[t].mem = txn[t].mem
          /\ \A s \in Txn \ {t} : txn'[s] = txn[s]
      BY <1>10, <2>1, RetryArmEffect DEF RetryArm
    <2>3. txn[t].mem = "live"
      BY <2>1, <2>2 DEF RunsLive
    <2>4. QED
      BY <1>2, <2>2, <2>3, NullTxnAssumption
  <1>11. ASSUME transactionRemoveAll, TimerYields, retrying' = NULL PROVE RunsLive'
    <2>1. \A t \in Txn : txn'[t] = txn[t] \/ txn'[t].timeout = timeout_destroy(txn[t].timeout)
      BY <1>11, RemoveAllEffect
    <2>2. \A t \in Txn : txn'[t] = txn[t] \/ Running(t)' = {}
      BY <1>1, <1>11, <2>1
    <2>3. QED
      BY <1>2, <1>11, <2>2, NullTxnAssumption
  <1>12. ASSUME RunDisable PROVE RunsLive'
    <2>1. TimerYields /\ retrying = NULL /\ retrying' = NULL
      BY <1>12 DEF RunDisable, Runs
    <2>2. transactionRemoveAll \/ UNCHANGED txn
      BY <1>12 DEF RunDisable
    <2>3. QED
      BY <1>6, <1>11, <2>1, <2>2
  <1>13. ASSUME transactionTeardown PROVE RunsLive'
    BY <1>11, <1>13 DEF transactionTeardown
  <1>14. QED
    BY <1>3, <1>4, <1>5, <1>6, <1>8, <1>9, <1>10, <1>12, <1>13
    DEF Next, Caller, Network, DispatchQueue, RequestSend, DidReceiveResponse,
        DidReceiveRequest, RunRequest, Toggle, RunInsert, RunEnable

\* transactionTeardown finds what is live in the table, since no insert waits.
LEMMA TornIdleStep ==
  ASSUME Preempt = {}, AgentInv, LiveReachable, TornIdle, Next
  PROVE  TornIdle'
  <1> USE DEF AgentInv
  <1>1. CASE transactionTeardown
    <2>1. /\ queue = << >> /\ retrying = NULL /\ ~CallerBusy /\ transactionRemoveAll
          /\ UNCHANGED <<queue, retrying, pc>>
      BY <1>1 DEF transactionTeardown
    <2>2. \A t \in Live : InTable(t)
      BY <2>1 DEF LiveReachable
    <2>3. \A t \in Txn : /\ InTable(t) => txn'[t].mem = "freed"
                         /\ ~InTable(t) => txn'[t] = txn[t]
      BY <2>1, RemoveAllEffect DEF InTable
    <2>4. Live' = {}
      BY <2>2, <2>3 DEF Live
    <2>5. QED
      BY <2>1, <2>4 DEF TornIdle, CallerBusy
  <1>2. CASE ~torn /\ torn' = torn
    BY <1>2 DEF TornIdle
  <1>3. CASE torn /\ torn' = torn /\ ~transactionTeardown
    <2>1. /\ queue = << >> /\ retrying = NULL
          /\ \A t \in Txn : pc[t] \notin {"packed", "sent"} /\ txn[t].mem # "live"
      BY <1>3 DEF TornIdle, CallerBusy, Live
    <2>2. \E t \in Txn : DidReceiveRequest(t) \/ RunRequest(t)
      BY <1>3, <2>1
      DEF Next, Caller, Network, Timer, DispatchQueue, Runs, transactionRequest, RequestSend,
          RequestArm, Toggle, TimerBlock, TimerClear, TimerRelease, DidReceiveResponse,
          RunInsert, RunResponse, transactionRetryOrFail, RetryArm, RunEnable, RunDisable
    <2>3. UNCHANGED <<queue, retrying, pc, txn>>
      BY <2>2 DEF DidReceiveRequest, RunRequest
    <2>4. QED
      BY <1>3, <2>3 DEF TornIdle, CallerBusy, Live
  <1>4. torn \in BOOLEAN /\ (torn' = torn \/ transactionTeardown)
    BY DEF TypeOK, Next, Caller, Network, Timer, DispatchQueue, transactionRequest, RequestSend,
           RequestArm, Toggle, TimerBlock, TimerClear, TimerRelease, DidReceiveResponse,
           DidReceiveRequest, RunRequest, RunInsert, RunResponse, transactionRetryOrFail,
           RetryArm, RunEnable, RunDisable, control
  <1>5. QED
    BY <1>1, <1>2, <1>3, <1>4

LEMMA SendsBoundedStep ==
  ASSUME AgentInv, SendsBounded, Next
  PROVE  SendsBounded'
  <1> USE DEF AgentInv
  <1>0. \A t \in Txn : txn[t].retries \in Nat /\ requests[t] \in Nat /\ answering[t] \in Nat
    BY StructFields, RetriesAssumption DEF TypeOK
  \* A step that sends nothing and keeps the retries
  <1>1. ASSUME UNCHANGED <<requests, answering, pc>>, \A t \in Txn : txn'[t].retries = txn[t].retries
        PROVE  SendsBounded'
    BY <1>1 DEF SendsBounded
  <1>2. ASSUME NEW t \in Txn, transactionRequest(t) PROVE SendsBounded'
    <2>1. /\ UNCHANGED <<requests, answering>> /\ pc[t] = "start"
          /\ \A s \in Txn \ {t} : pc'[s] = pc[s] /\ txn'[s] = txn[s]
          /\ txn'[t] = txn[t] \/ txn'[t] = NewTransaction(cseq)
      BY <1>2 DEF transactionRequest, TypeOK, net, peer
    <2>2. requests[t] = 0 /\ answering[t] = 0
      BY <2>1 DEF SendsBounded
    <2>3. txn'[t].retries \in Nat
      BY <1>0, <2>1 DEF NewTransaction
    <2>4. QED
      BY <2>1, <2>2, <2>3 DEF SendsBounded
  <1>3. ASSUME NEW t \in Txn, RequestSend(t) PROVE SendsBounded'
    <2>1. /\ UNCHANGED <<txn, answering>> /\ pc[t] = "packed" /\ pc'[t] = "sent"
          /\ requests'[t] = requests[t] + 1
          /\ \A s \in Txn \ {t} : pc'[s] = pc[s] /\ requests'[s] = requests[s]
      BY <1>3 DEF RequestSend, TypeOK, peer
    <2>2. requests[t] = 0 /\ answering[t] = 0
      BY <2>1 DEF SendsBounded
    <2>3. requests'[t] + answering'[t] <= txn'[t].retries + 1
      BY <1>0, <2>1, <2>2
    <2>4. QED
      BY <2>1, <2>3 DEF SendsBounded
  <1>4. ASSUME NEW t \in Txn, RequestArm(t) PROVE SendsBounded'
    <2>1. /\ UNCHANGED <<requests, answering>> /\ pc'[t] = "done"
          /\ txn'[t].retries = txn[t].retries
          /\ \A s \in Txn \ {t} : pc'[s] = pc[s] /\ txn'[s] = txn[s]
      BY <1>4, RequestArmEffect DEF RequestArm, TypeOK, net, peer
    <2>2. QED
      BY <2>1 DEF SendsBounded
  <1>5. ASSUME NEW t \in Txn, NEW n \in SourceId, Timer(t, n) PROVE SendsBounded'
    <2>1. UNCHANGED <<requests, answering, pc>>
      BY <1>5 DEF Timer, TimerBlock, TimerClear, TimerRelease, net, peer
    <2>2. \A s \in Txn : txn'[s].retries = txn[s].retries
      BY <1>5, TimerEffect
    <2>3. QED
      BY <1>1, <2>1, <2>2
  \* The peer takes a request and answers it.
  <1>6. ASSUME NEW t \in Txn, DidReceiveRequest(t) PROVE SendsBounded'
    <2>1. /\ UNCHANGED <<txn, pc>> /\ requests[t] > 0
          /\ requests'[t] = requests[t] - 1 /\ answering'[t] = answering[t] + 1
          /\ \A s \in Txn \ {t} : requests'[s] = requests[s] /\ answering'[s] = answering[s]
      BY <1>6 DEF DidReceiveRequest, TypeOK
    <2>2. requests'[t] + answering'[t] = requests[t] + answering[t]
      BY <1>0, <2>1
    <2>3. pc[t] \notin {"start", "packed"}
      BY <1>0, <2>1 DEF SendsBounded
    <2>4. QED
      BY <2>1, <2>2, <2>3 DEF SendsBounded
  <1>7. ASSUME NEW t \in Txn, RunRequest(t) PROVE SendsBounded'
    <2>1. /\ UNCHANGED <<txn, pc, requests>> /\ answering[t] > 0
          /\ answering'[t] = answering[t] - 1
          /\ \A s \in Txn \ {t} : answering'[s] = answering[s]
      BY <1>7 DEF RunRequest, TypeOK
    <2>2. requests[t] + answering[t] <= txn[t].retries + 1 =>
            requests[t] + answering'[t] <= txn[t].retries + 1
      BY <1>0, <2>1
    <2>3. pc[t] \notin {"start", "packed"}
      BY <1>0, <2>1 DEF SendsBounded
    <2>4. QED
      BY <2>1, <2>2, <2>3 DEF SendsBounded
  <1>8. ASSUME RunResponse PROVE SendsBounded'
    <2>1. UNCHANGED <<requests, answering, pc>>
      BY <1>8 DEF RunResponse, net, peer
    <2>2. \A s \in Txn : txn'[s].retries = txn[s].retries
      BY <1>8, ResponseCases DEF CompletesAt
    <2>3. QED
      BY <1>1, <2>1, <2>2
  <1>9. ASSUME transactionRetryOrFail PROVE SendsBounded'
    <2>1. UNCHANGED <<answering, pc>>
      BY <1>9 DEF transactionRetryOrFail, peer
    <2>2. CASE UNCHANGED <<txn, requests>>
      BY <1>1, <2>1, <2>2
    <2>3. ASSUME NEW t, RetryOf(t) PROVE SendsBounded'
      <3>1. /\ t \in Txn /\ txn[t].state = "Waiting"
            /\ requests'[t] = requests[t] + 1
            /\ \A s \in Txn \ {t} : requests'[s] = requests[s]
        BY <2>3 DEF RetryOf, TypeOK
      <3>2. txn'[t].retries = txn[t].retries + 1 /\ \A s \in Txn \ {t} : txn'[s] = txn[s]
        BY <2>3, RetryEffect
      <3>3. pc[t] \notin {"start", "packed"}
        BY <3>1 DEF SourcePerSend
      <3>4. requests[t] + answering[t] <= txn[t].retries + 1 =>
              requests'[t] + answering[t] <= txn'[t].retries + 1
        BY <1>0, <3>1, <3>2
      <3>5. QED
        BY <2>1, <3>1, <3>2, <3>3, <3>4 DEF SendsBounded
    <2>4. ASSUME NEW t \in Txn, CompletesAt(Head(queue).id, t, "Timeout", 0), requests' = requests
          PROVE  SendsBounded'
      BY <1>1, <2>1, <2>4 DEF CompletesAt
    <2>5. QED
      BY <1>9, <2>2, <2>3, <2>4, RetryCases
  <1>10. ASSUME RetryArm PROVE SendsBounded'
    <2>1. UNCHANGED <<requests, answering, pc>>
      BY <1>10 DEF RetryArm, net, peer
    <2>2. \A s \in Txn : txn'[s].retries = txn[s].retries
      BY <1>10, RetryArmEffect
    <2>3. QED
      BY <1>1, <2>1, <2>2
  <1>11. ASSUME transactionRemoveAll, UNCHANGED <<requests, answering, pc>> PROVE SendsBounded'
    BY <1>1, <1>11, RemoveAllEffect
  <1>12. QED
    BY <1>1, <1>2, <1>3, <1>4, <1>5, <1>6, <1>7, <1>8, <1>9, <1>10, <1>11
    DEF Next, Caller, Network, DispatchQueue, DidReceiveResponse, Toggle, RunInsert, RunEnable,
        RunDisable, transactionTeardown, net, peer

-----------------------------------------------------------------------------
\* Every request the peer holds a packet for fits its pool, with one to spare.
LEMMA AnswersFit ==
  ASSUME IsFiniteSet(Txn), PeerPoolSuffices, AgentInv, SendsBounded
  PROVE  peerPackets > 0
  <1> USE DEF AgentInv
  <1> DEFINE Sends == 1..(MaxRetries + 1)
  <1>1. MaxRetries + 1 \in Nat /\ IsFiniteSet(Sends) /\ Cardinality(Sends) = MaxRetries + 1
    BY RetriesAssumption, FS_Interval
  <1>2. \A t \in Txn : answering[t] \in 0..(MaxRetries + 1)
    <2>1. \A t \in Txn : /\ txn[t].retries \in 0..MaxRetries
                         /\ requests[t] \in Nat /\ answering[t] \in Nat
      BY StructFields DEF TypeOK
    <2>2. \A t \in Txn : requests[t] + answering[t] <= txn[t].retries + 1
      BY DEF SendsBounded
    <2>3. QED
      BY <2>1, <2>2, RetriesAssumption
  <1>3. Answers \subseteq Txn \X Sends
    BY <1>1, <1>2 DEF Answers
  <1> HIDE DEF Sends
  <1>4. /\ IsFiniteSet(Txn \X Sends)
        /\ Cardinality(Txn \X Sends) = Cardinality(Txn) * Cardinality(Sends)
    BY <1>1, FS_Product
  <1>5. Cardinality(Answers) <= Cardinality(Txn) * Cardinality(Sends)
    BY <1>3, <1>4, FS_Subset
  <1>6. Cardinality(Answers) < PeerPoolSize
    BY <1>1, <1>5, PoolSizeAssumption, FS_CardinalityType DEF PeerPoolSuffices, PeerPacketCount
  <1>7. QED
    BY <1>6, PoolSizeAssumption, FS_CardinalityType DEF PeerPacketCount, TypeOK

MemoryInv == WaitInv /\ CallerSafe /\ RunsLive /\ TornIdle /\ SendsBounded

LEMMA InitMemoryInv == ASSUME Init PROVE MemoryInv
  <1>1. /\ \A t \in Txn : txn[t].timeout = NewTimeout /\ txn[t].retries = 0
        /\ pc = [t \in Txn |-> "start"] /\ retrying = NULL /\ torn = FALSE
        /\ requests = [t \in Txn |-> 0] /\ answering = [t \in Txn |-> 0]
    BY DEF Init, NewTransaction
  <1>2. \A t \in Txn : Running(t) = {}
    BY <1>1, NewTimeoutFields DEF Running, Armed, InHandler
  <1>3. CallerSafe /\ RunsLive /\ TornIdle
    BY <1>1, <1>2, NullTxnAssumption DEF CallerSafe, RunsLive, TornIdle
  <1>4. SendsBounded
    BY <1>1 DEF SendsBounded
  <1>5. QED
    BY <1>3, <1>4, InitWaitInv DEF MemoryInv

LEMMA NextMemoryInv ==
  ASSUME EnoughIds, Preempt = {}, MemoryInv, [Next]_vars
  PROVE  MemoryInv'
  <1>1. "timer" \notin Preempt
    OBVIOUS
  <1>2. WaitInv'
    BY <1>1, NextWaitInv DEF MemoryInv
  <1>3. CASE Next
    BY <1>2, <1>3, CallerSafeStep, RunsLiveStep, TornIdleStep, SendsBoundedStep
    DEF MemoryInv, WaitInv
  <1>4. CASE UNCHANGED vars
    <2>1. UNCHANGED <<txn, pc, queue, retrying, torn, requests, answering>>
      BY <1>4 DEF vars, net, peer, control
    <2>2. CallerSafe' /\ RunsLive' /\ TornIdle' /\ SendsBounded'
      BY <2>1 DEF MemoryInv, CallerSafe, RunsLive, Running, TornIdle, CallerBusy, Live,
                  SendsBounded
    <2>3. QED
      BY <1>2, <2>2 DEF MemoryInv
  <1>5. QED
    BY <1>3, <1>4

\* While there are ids enough, the peer's pool has a packet for everything it
\* can be sent and one to spare, and no thread of the agent is overtaken, no
\* step uses memory that is freed or was never allocated: transactionRequest
\* and the timers find their transaction, no dispatch source is released too
\* often, transactionTeardown leaves nothing to run, and transactionResponse
\* gets its packet.
THEOREM AgentMemorySafe ==
  ASSUME EnoughIds, PeerPoolSuffices, Preempt = {}
  PROVE  Spec => []MemorySafe
  <1>1. ASSUME MemoryInv PROVE MemorySafe
    <2> USE <1>1 DEF MemoryInv, WaitInv
    <2>1. \A t \in Txn : ~OverReleased(txn[t].timeout)
      BY DEF SingleSources, OneSource, OverReleased
    <2>2. TimerSafe
      BY <2>1 DEF TimerSafe, RunsLive
    <2>3. TeardownSafe
      BY DEF TeardownSafe, TornIdle, RunsLive, Live
    <2>4. ResponseSafe
      BY AnswersFit DEF ResponseSafe, EnoughIds
    <2>5. QED
      BY <2>2, <2>3, <2>4 DEF MemorySafe
  <1>2. QED
    BY <1>1, InitMemoryInv, NextMemoryInv, PTL DEF Spec
=============================================================================
