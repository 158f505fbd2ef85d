----------------------------- MODULE Transaction -----------------------------
(***************************************************************************)
(* The reliable request of transaction.c, seen from one client agent.      *)
(*                                                                         *)
(* Four kinds of threads act:                                              *)
(*   - the application thread in transactionRequest (pc), and in           *)
(*     transactionEnable and transactionDisable;                           *)
(*   - transactionsDispatchQueue, a serial queue (queue, retrying) that    *)
(*     runs the blocks the others dispatch to it;                          *)
(*   - the global queue: the event handler of a timeout, in three steps,   *)
(*     and the receive callback of the socket;                             *)
(*   - the network and the peer, which runs the same code on its side.     *)
(*                                                                         *)
(* Preempt names the threads that others may overtake between two of their *)
(* steps: "caller" (between the send and the arming of the timeout) and    *)
(* "timer" (between the block of a timeout's handler and the release of    *)
(* its source).  The code protects neither; a run with Preempt = {} shows  *)
(* what holds on schedules that never split them.  A third member is       *)
(* "teardown" (the queue, by transactionTeardown).  A thread that is about *)
(* to access freed memory stops there: what it would do is not defined.    *)
(***************************************************************************)
EXTENDS Integers, Sequences, FiniteSets, Timeout, Hashtable

CONSTANTS
  Txn,            \* the requests the application makes
  MaxId,          \* kTransactionMaxId: ids are 0..MaxId-1
  MaxRetries,     \* kTransactionMaxRetries
  PoolSize,       \* packets of the client's socket (kNetPacketPoolCapacity)
  PeerPoolSize,   \* packets of the peer's socket
  ResponseType,   \* response types the peer may answer with
  Understood,     \* requests whose object the peer can unpack
  MaxToggles,     \* bound on the calls of transactionEnable and transactionDisable
  Preempt         \* threads that can be overtaken between two steps

ASSUME MaxIdAssumption == MaxId \in Nat \ {0}
ASSUME RetriesAssumption == MaxRetries \in Nat /\ MaxSources = MaxRetries + 1
ASSUME PoolSizeAssumption == PoolSize \in Nat /\ PeerPoolSize \in Nat
ASSUME UnderstoodAssumption == Understood \subseteq Txn
ASSUME ToggleAssumption == MaxToggles \in Nat
ASSUME PreemptAssumption == Preempt \subseteq {"caller", "timer", "teardown"}
ASSUME NullTxnAssumption == NULL \notin Txn

TransactionId == 0..MaxId

VARIABLES
  transactions,   \* hashtable: the transaction stored under each id, or NULL
  cseq,           \* next id
  isEnabled,
  txn,            \* the Transaction struct of each request, and if it is allocated
  pc,             \* where the application thread is in transactionRequest
  queue,          \* blocks waiting in transactionsDispatchQueue
  retrying,       \* transaction whose retry block is between destroy and create
  freePackets,    \* packets left in the socket's pool
  torn,           \* transactionTeardown was called
  requests,       \* request datagrams of each transaction in flight
  answering,      \* blocks for requests of each transaction in the peer's queue
  peerPackets,    \* packets left in the peer's pool
  responses,      \* response datagrams to each transaction in flight
  toggles,        \* calls of transactionEnable/Disable so far
  received,       \* requests the peer handed to its receiveCallback
  outcome,        \* how each request ended for the application
  leaked          \* packets nobody will release any more

peer == <<answering, peerPackets>>
net == <<requests, peer, responses>>
ghosts == <<received, outcome, leaked>>
control == <<toggles, torn>>
vars == <<transactions, cseq, isEnabled, txn, pc, queue, retrying, freePackets, net,
          control, ghosts>>

Block ==
  [op : {"insert"}, txn : Txn]
    \cup [op : {"response"}, id : TransactionId, type : ResponseType]
    \cup [op : {"retry"}, id : TransactionId]
    \cup [op : {"enable", "disable"}]

Struct ==
  [mem : {"none", "live", "freed"},
   state : {"Idle", "Waiting", "Acknowledged", "Error", "Timeout"},
   id : TransactionId,
   retries : 0..MaxRetries,
   timeout : TimeoutType]

NewTransaction(id) ==
  [mem |-> "live", state |-> "Idle", id |-> id, retries |-> 0, timeout |-> NewTimeout]

\* transactionSetup
Init ==
  /\ transactions = hashtable_create(MaxId)
  /\ cseq = 0
  /\ isEnabled = TRUE
  /\ txn = [t \in Txn |-> [NewTransaction(0) EXCEPT !.mem = "none"]]
  /\ pc = [t \in Txn |-> "start"]
  /\ queue = << >>
  /\ retrying = NULL
  /\ freePackets = PoolSize
  /\ torn = FALSE
  /\ requests = [t \in Txn |-> 0]
  /\ answering = [t \in Txn |-> 0]
  /\ peerPackets = PeerPoolSize
  /\ responses = [t \in Txn |-> 0]
  /\ toggles = 0
  /\ received = {}
  /\ outcome = [t \in Txn |-> "pending"]
  /\ leaked = 0

-----------------------------------------------------------------------------
(* Scheduling *)

CallerBusy == \E t \in Txn : pc[t] \in {"packed", "sent"}
TimerBusy == \E t \in Txn : InHandler(txn[t].timeout) # {}

CallerYields == "caller" \in Preempt \/ ~CallerBusy
TimerYields == "timer" \in Preempt \/ ~TimerBusy

-----------------------------------------------------------------------------
(* The application thread *)

\* Mutant: the sequence number is not advanced.
NextId_slip == cseq

\* transactionAlloc's next value of cseq
NextId == (cseq + 1) % MaxId

\* transactionAlloc, packing and the dispatch of the insert block
transactionRequest(t) ==
  /\ ~torn /\ ~CallerBusy /\ TimerYields
  /\ pc[t] = "start"
  /\ IF freePackets = 0
     THEN /\ pc' = [pc EXCEPT ![t] = "done"]
          /\ outcome' = [outcome EXCEPT ![t] = "dropped"]
          /\ UNCHANGED <<txn, cseq, queue, freePackets>>
     ELSE /\ pc' = [pc EXCEPT ![t] = "packed"]
          /\ txn' = [txn EXCEPT ![t] = NewTransaction(cseq)]
          /\ cseq' = NextId
          /\ queue' = Append(queue, [op |-> "insert", txn |-> t])
          /\ freePackets' = freePackets - 1
          /\ UNCHANGED outcome
  /\ UNCHANGED <<transactions, isEnabled, retrying, net, control, received, leaked>>

\* net_socket_send of the request
RequestSend(t) ==
  /\ TimerYields
  /\ pc[t] = "packed"
  /\ txn[t].mem = "live"
  /\ requests' = [requests EXCEPT ![t] = requests[t] + 1]
  /\ pc' = [pc EXCEPT ![t] = "sent"]
  /\ UNCHANGED <<transactions, cseq, isEnabled, txn, queue, retrying, freePackets,
                 peer, responses, control, ghosts>>

\* state = TransactionWaiting and timeout_create_block
RequestArm(t) ==
  /\ TimerYields
  /\ pc[t] = "sent"
  /\ txn[t].mem = "live"
  /\ txn' = [txn EXCEPT ![t].state = "Waiting",
                        ![t].timeout = timeout_create_block(txn[t].timeout)]
  /\ pc' = [pc EXCEPT ![t] = "done"]
  /\ UNCHANGED <<transactions, cseq, isEnabled, queue, retrying, freePackets, net,
                 control, ghosts>>

\* transactionEnable and transactionDisable
Toggle(op) ==
  /\ ~torn /\ ~CallerBusy /\ TimerYields
  /\ toggles < MaxToggles
  /\ toggles' = toggles + 1
  /\ queue' = Append(queue, [op |-> op])
  /\ UNCHANGED <<transactions, cseq, isEnabled, txn, pc, retrying, freePackets, net,
                 torn, ghosts>>

-----------------------------------------------------------------------------
(* The event handler of a timeout, on the global queue *)

\* block(): transactionRetryOrFail(config, transaction->id)
TimerBlock(t, n) ==
  /\ ~torn /\ CallerYields /\ TimerYields
  /\ n \in Armed(txn[t].timeout)
  /\ txn[t].mem = "live"
  /\ queue' = Append(queue, [op |-> "retry", id |-> txn[t].id])
  /\ txn' = [txn EXCEPT ![t].timeout = handler_block(txn[t].timeout, n)]
  /\ UNCHANGED <<transactions, cseq, isEnabled, pc, retrying, freePackets, net,
                 control, ghosts>>

\* timeout->valid = false
TimerClear(t, n) ==
  /\ CallerYields
  /\ txn[t].timeout.status[n] = "called"
  /\ txn[t].mem = "live"
  /\ txn' = [txn EXCEPT ![t].timeout = handler_clear(txn[t].timeout, n)]
  /\ UNCHANGED <<transactions, cseq, isEnabled, pc, queue, retrying, freePackets, net,
                 control, ghosts>>

\* dispatch_release(timeout->timerDispatchSource)
TimerRelease(t, n) ==
  /\ CallerYields
  /\ txn[t].timeout.status[n] = "cleared"
  /\ txn[t].mem = "live"
  /\ txn' = [txn EXCEPT ![t].timeout = handler_release(txn[t].timeout, n)]
  /\ UNCHANGED <<transactions, cseq, isEnabled, pc, queue, retrying, freePackets, net,
                 control, ghosts>>

-----------------------------------------------------------------------------
(* The socket's receive callback and the peer.  The network delivers the   *)
(* datagrams in any order; one that is never delivered is lost.            *)

\* transactionSocketReceiveCallback and transactionDidReceiveResponse: the
\* packet the read handler allocated is kept for the block, or released when
\* the agent is disabled.
DidReceiveResponse(t) ==
  /\ ~torn /\ CallerYields /\ TimerYields
  /\ responses[t] > 0
  /\ freePackets > 0
  /\ responses' = [responses EXCEPT ![t] = responses[t] - 1]
  /\ IF isEnabled
     THEN /\ \E type \in ResponseType :
               queue' = Append(queue, [op |-> "response", id |-> txn[t].id, type |-> type])
          /\ freePackets' = freePackets - 1
     ELSE UNCHANGED <<queue, freePackets>>
  /\ UNCHANGED <<transactions, cseq, isEnabled, txn, pc, retrying, requests, peer, control,
                 ghosts>>

\* transactionDidReceiveRequest at the peer: the packet is kept for the block.
DidReceiveRequest(t) ==
  /\ CallerYields /\ TimerYields
  /\ requests[t] > 0
  /\ peerPackets > 0
  /\ requests' = [requests EXCEPT ![t] = requests[t] - 1]
  /\ answering' = [answering EXCEPT ![t] = answering[t] + 1]
  /\ peerPackets' = peerPackets - 1
  /\ UNCHANGED <<transactions, cseq, isEnabled, txn, pc, queue, retrying, freePackets,
                 responses, control, ghosts>>

\* Its block: transactionResponse, which needs a packet for a moment, then
\* the object is unpacked and handed to the application if it is valid.
RunRequest(t) ==
  /\ CallerYields /\ TimerYields
  /\ answering[t] > 0
  /\ peerPackets > 0
  /\ answering' = [answering EXCEPT ![t] = answering[t] - 1]
  /\ peerPackets' = peerPackets + 1
  /\ responses' = [responses EXCEPT ![t] = responses[t] + 1]
  /\ received' = IF t \in Understood THEN received \cup {t} ELSE received
  /\ UNCHANGED <<transactions, cseq, isEnabled, txn, pc, queue, retrying, freePackets,
                 requests, control, outcome, leaked>>

-----------------------------------------------------------------------------
(* transactionsDispatchQueue *)

\* The queue is free and its first block is an op.
Runs(op) ==
  /\ ~torn /\ CallerYields /\ TimerYields
  /\ retrying = NULL
  /\ queue # << >>
  /\ Head(queue).op = op

RunInsert ==
  /\ Runs("insert")
  /\ LET t == Head(queue).txn IN
       transactions' = hashtable_insert(transactions, txn[t].id, t)
  /\ queue' = Tail(queue)
  /\ UNCHANGED <<cseq, isEnabled, txn, pc, retrying, freePackets, net, control, ghosts>>

\* Mutant: the transaction is freed but stays in the hashtable.
transactionSetComplete_slip(t, state, extra) ==
  /\ outcome' = [outcome EXCEPT ![t] = IF state = "Acknowledged" THEN "acked" ELSE "failed"]
  /\ UNCHANGED transactions
  /\ txn' = [txn EXCEPT ![t].state = state,
                        ![t].mem = "freed",
                        ![t].timeout = timeout_destroy(txn[t].timeout)]
  /\ freePackets' = freePackets + 1 + extra

\* Mutant: the request's packet is released twice.
transactionSetComplete_twice_slip(t, state, extra) ==
  /\ outcome' = [outcome EXCEPT ![t] = IF state = "Acknowledged" THEN "acked" ELSE "failed"]
  /\ transactions' = hashtable_delete(transactions, txn[t].id)
  /\ txn' = [txn EXCEPT ![t].state = state,
                        ![t].mem = "freed",
                        ![t].timeout = timeout_destroy(txn[t].timeout)]
  /\ freePackets' = freePackets + 2 + extra

\* transactionDestroyTimeout and transactionSetComplete of t, which enters its
\* final state: the application is told of anything but an acknowledgement,
\* t leaves the hashtable and is freed with its packet.  extra: packets
\* released besides.
transactionSetComplete(t, state, extra) ==
  /\ outcome' = [outcome EXCEPT ![t] = IF state = "Acknowledged" THEN "acked" ELSE "failed"]
  /\ transactions' = hashtable_delete(transactions, txn[t].id)
  /\ txn' = [txn EXCEPT ![t].state = state,
                        ![t].mem = "freed",
                        ![t].timeout = timeout_destroy(txn[t].timeout)]
  /\ freePackets' = freePackets + 1 + extra

\* The block of transactionDidReceiveResponse: its packet is released only
\* when the transaction is still there.
RunResponse ==
  /\ Runs("response")
  /\ LET t == hashtable_search(transactions, Head(queue).id) IN
       IF t = NULL
       THEN /\ leaked' = leaked + 1
            /\ UNCHANGED <<transactions, txn, freePackets, outcome>>
       ELSE /\ transactionSetComplete(
                 t, IF Head(queue).type = "Success" THEN "Acknowledged" ELSE "Error", 1)
            /\ UNCHANGED leaked
  /\ queue' = Tail(queue)
  /\ UNCHANGED <<cseq, isEnabled, pc, retrying, net, control, received>>

\* Mutant: one retry too many.
MayRetry_slip(t) == txn[t].retries <= MaxRetries

MayRetry(t) == txn[t].retries < MaxRetries

\* The block of transactionRetryOrFail, up to the retransmission
transactionRetryOrFail ==
  /\ Runs("retry")
  /\ LET t == hashtable_search(transactions, Head(queue).id) IN
       \/ /\ IF t = NULL THEN TRUE ELSE txn[t].state # "Waiting"
          /\ UNCHANGED <<transactions, txn, retrying, requests, freePackets, outcome>>
       \/ /\ t # NULL
          /\ txn[t].state = "Waiting"
          /\ MayRetry(t)
          /\ txn' = [txn EXCEPT ![t].timeout = timeout_destroy(txn[t].timeout),
                                ![t].retries = txn[t].retries + 1]
          /\ requests' = [requests EXCEPT ![t] = requests[t] + 1]
          /\ retrying' = t
          /\ UNCHANGED <<transactions, freePackets, outcome>>
       \/ /\ t # NULL
          /\ txn[t].state = "Waiting"
          /\ ~MayRetry(t)
          /\ transactionSetComplete(t, "Timeout", 0)
          /\ UNCHANGED <<retrying, requests>>
  /\ queue' = Tail(queue)
  /\ UNCHANGED <<cseq, isEnabled, pc, peer, responses, control, received, leaked>>

\* Mutant: the retransmission is not given a timeout.
RetryArm_slip ==
  /\ CallerYields /\ TimerYields
  /\ retrying # NULL
  /\ retrying' = NULL
  /\ UNCHANGED <<transactions, cseq, isEnabled, txn, pc, queue, freePackets, net, control,
                 ghosts>>

\* ... and the new timeout at its end
RetryArm ==
  /\ CallerYields /\ TimerYields
  /\ retrying # NULL
  /\ txn' = [txn EXCEPT ![retrying].timeout = timeout_create_block(txn[retrying].timeout)]
  /\ retrying' = NULL
  /\ UNCHANGED <<transactions, cseq, isEnabled, pc, queue, freePackets, net, control,
                 ghosts>>

RunEnable ==
  /\ Runs("enable")
  /\ isEnabled' = TRUE
  /\ queue' = Tail(queue)
  /\ UNCHANGED <<transactions, cseq, txn, pc, retrying, freePackets, net, control,
                 ghosts>>

\* Mutant: the timeout of a removed transaction is left running.
Removed_slip(x) == [x EXCEPT !.mem = "freed"]

\* What becomes of a transaction that is removed
Removed(x) == [x EXCEPT !.mem = "freed", !.timeout = timeout_destroy(x.timeout)]

\* Every transaction of the hashtable is freed, without a word to the
\* application.
transactionRemoveAll ==
  LET keys == hashtable_iterate(transactions)
      pending == {transactions[key] : key \in keys}
  IN  /\ transactions' = [key \in TransactionId |-> NULL]
      /\ txn' = [t \in Txn |-> IF t \in pending THEN Removed(txn[t]) ELSE txn[t]]
      /\ outcome' = [t \in Txn |-> IF t \in pending THEN "removed" ELSE outcome[t]]
      /\ freePackets' = freePackets + Cardinality(keys)

\* The block of transactionDisable
RunDisable ==
  /\ Runs("disable")
  /\ IF isEnabled THEN transactionRemoveAll
     ELSE UNCHANGED <<transactions, txn, outcome, freePackets>>
  /\ isEnabled' = FALSE
  /\ queue' = Tail(queue)
  /\ UNCHANGED <<cseq, pc, retrying, net, control, received, leaked>>

\* On the application's thread: the hashtable is freed, the queue released
\* and the socket closed.
transactionTeardown ==
  /\ ~torn /\ ~CallerBusy /\ TimerYields
  /\ "teardown" \in Preempt \/ (queue = << >> /\ retrying = NULL)
  /\ transactionRemoveAll
  /\ torn' = TRUE
  /\ UNCHANGED <<cseq, isEnabled, pc, queue, retrying, net, toggles, received, leaked>>

-----------------------------------------------------------------------------
Caller(t) ==
  transactionRequest(t) \/ RequestSend(t) \/ RequestArm(t)

Timer(t, n) ==
  TimerBlock(t, n) \/ TimerClear(t, n) \/ TimerRelease(t, n)

Network(t) ==
  DidReceiveResponse(t) \/ DidReceiveRequest(t) \/ RunRequest(t)

DispatchQueue ==
  RunInsert \/ RunResponse \/ transactionRetryOrFail \/ RetryArm \/ RunEnable \/ RunDisable

Next ==
  \/ \E t \in Txn : Caller(t) \/ Network(t) \/ \E n \in SourceId : Timer(t, n)
  \/ \E op \in {"enable", "disable"} : Toggle(op)
  \/ DispatchQueue
  \/ transactionTeardown

\* Dispatched blocks run, armed timers fire and threads that have begun go
\* on.  Nothing is assumed of the network, of the peer or of new calls.
Fairness ==
  /\ WF_vars(DispatchQueue)
  /\ \A t \in Txn :
       /\ WF_vars(RequestSend(t) \/ RequestArm(t))
       /\ \A n \in SourceId : WF_vars(Timer(t, n))

Spec == Init /\ [][Next]_vars
FairSpec == Spec /\ Fairness

-----------------------------------------------------------------------------
(* Properties *)

Waits(t) == txn[t].mem = "live" /\ txn[t].state = "Waiting"
Queued(b) == \E i \in 1..Len(queue) : queue[i] = b

\* Every variable has its type.
TypeOK ==
  /\ transactions \in [TransactionId -> Txn \cup {NULL}]
  /\ cseq \in 0..(MaxId - 1)
  /\ isEnabled \in BOOLEAN
  /\ txn \in [Txn -> Struct]
  /\ pc \in [Txn -> {"start", "packed", "sent", "done"}]
  /\ queue \in Seq(Block)
  /\ retrying \in Txn \cup {NULL}
  /\ freePackets \in Nat /\ peerPackets \in 0..PeerPoolSize
  /\ requests \in [Txn -> Nat]
  /\ answering \in [Txn -> Nat]
  /\ responses \in [Txn -> Nat]
  /\ toggles \in 0..MaxToggles /\ torn \in BOOLEAN /\ leaked \in Nat
  /\ received \in SUBSET Txn
  /\ outcome \in [Txn -> {"pending", "acked", "failed", "removed", "dropped"}]

Running(t) == Armed(txn[t].timeout) \cup InHandler(txn[t].timeout)

\* transactionRequest does not go on with a transaction that has been freed,
CallerSafe == \A t \in Txn : pc[t] \in {"packed", "sent"} => txn[t].mem = "live"

\* neither does the handler of a timeout or the block it runs, nor is a
\* dispatch source released more often than it is owned,
TimerSafe ==
  \A t \in Txn : /\ Running(t) # {} => txn[t].mem = "live"
                 /\ ~OverReleased(txn[t].timeout)

\* no block of the queue and no timer is left to use the hashtable, the
\* queue and the socket that transactionTeardown frees,
TeardownSafe ==
  torn => queue = << >> /\ retrying = NULL /\ \A t \in Txn : Running(t) = {}

\* and transactionResponse, which does not test the result of its
\* allocation, is never left without a packet.
ResponseSafe == (\E t \in Txn : answering[t] > 0) => peerPackets > 0

\* No step is about to use memory that is freed or was never allocated.
MemorySafe == CallerSafe /\ TimerSafe /\ TeardownSafe /\ ResponseSafe

\* The hashtable never keeps a pointer to a freed transaction, and keeps a
\* transaction under its own id only: what the blocks of the queue find by id
\* is safe to use.
TableLive ==
  \A i \in TransactionId :
    transactions[i] # NULL => /\ txn[transactions[i]].mem = "live"
                              /\ txn[transactions[i]].id = i

\* A transaction that waits for its response can still time out: a timer is
\* armed for it, or the retry block it dispatched is in the queue or running.
\* Otherwise nothing would ever end it.
NeverStranded ==
  \A t \in Txn :
    Waits(t) => \/ Armed(txn[t].timeout) # {}
                \/ Queued([op |-> "retry", id |-> txn[t].id])
                \/ retrying = t

\* Every packet of the pool is in it, or owned by a transaction, or kept for
\* a response's block, or was kept for one whose transaction was gone, which
\* does not release it: none is released twice, and no other way loses one.
PacketsConserved ==
  freePackets + Cardinality({t \in Txn : txn[t].mem = "live"})
    + Cardinality({i \in 1..Len(queue) : queue[i].op = "response"}) + leaked = PoolSize

Promise == INSTANCE RequestSpec WITH
  underway <- [t \in Txn |-> requests[t] + answering[t]]

\* The agent implements RequestSpec.  In particular a request is reported
\* acknowledged only if the peer handed this very request to its
\* application, whatever ids were reused and whatever responses are late;
\* and a request that ended never ends again and is not sent again.
RequestPromise == Promise!Spec

\* Every request comes to an end: it is acknowledged, it fails and the
\* application is notified, or transactionDisable removes it ("It will fail
\* (and notify) ... after a specified number of retries", transaction.h).
\* A behaviour that comes to access freed memory is not held against it.
RequestEnds == \A t \in Txn : pc[t] # "start" ~> (outcome[t] # "pending" \/ ~MemorySafe)
=============================================================================
