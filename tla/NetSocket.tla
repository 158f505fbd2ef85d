------------------------------ MODULE NetSocket ------------------------------
(***************************************************************************)
(* The UDP socket of net_socket.c: a queue of packets waiting to be sent,  *)
(* the write source that is resumed for them and suspends itself, the read *)
(* source that hands packets to the receive callback, and the closing of   *)
(* both sources.                                                           *)
(*                                                                         *)
(* Three threads act: the application (net_packet_alloc, net_socket_send,  *)
(* net_packet_release, net_socket_destroy), the serial socketDispatchQueue *)
(* (the blocks of net_socket_send, the write handler and the write         *)
(* source's cancel handler) and the global queue (the read handler, the    *)
(* receive callbacks and the read source's cancel handler).                *)
(*                                                                         *)
(* Three hand-overs between these threads are unprotected, and Races names *)
(* the ones a schedule may lose:                                           *)
(*   "destroy"  net_socket_destroy tests isSending and cancels the write   *)
(*              source in several steps, the queue running in between;     *)
(*   "restore"  a receive block is taken away while a delivery to it waits;*)
(*   "free"     the socket is freed while a delivery waits.                *)
(* The program calls net_socket_destroy once and sends nothing after it;   *)
(* the packets it sends have content.                                      *)
(*                                                                         *)
(* External (libdispatch): a source fires and runs its cancel handler only *)
(* while it is not suspended, and does not fire after it was cancelled.    *)
(***************************************************************************)
EXTENDS Integers, SequencesExt, Queue

CONSTANTS
  Packet,     \* packets of the pool (kNetPacketPoolCapacity)
  Datagram,   \* what recvfrom meets: "data", "long" (truncated), "error", "empty"
  MaxSends,   \* bound on the calls of net_socket_send
  MaxReads,   \* bound on the events of the read source
  MaxInstalls,\* bound on the resolves that borrow the socket's receiver
  Races       \* hand-overs the schedule may lose

ASSUME SocketAssumption ==
  /\ IsFiniteSet(Packet)
  /\ Datagram \subseteq {"data", "long", "error", "empty"}
  /\ MaxSends \in Nat /\ MaxReads \in Nat /\ MaxInstalls \in Nat
  /\ Races \subseteq {"destroy", "restore", "free"}

VARIABLES
  retainCount,     \* retain count of each packet in the pool; 0 when free
  owned,           \* packets the application owns a reference to
  deliveries,      \* packets given to the receive callback or block, with which
  lost,            \* packets read and given to nobody
  receiveCallback, receiveBlock,   \* is one installed?
  installs,        \* receive blocks installed so far
  blocks,          \* packets of the send blocks waiting in socketDispatchQueue
  pendingPackets,  \* queue of the packets to be written
  writing,         \* is the write handler in its loop?
  isSending,
  suspended,       \* suspend count of the write source
  destroy,         \* where net_socket_destroy is
  cancelled,       \* sources that were cancelled
  closeCount,      \* socketCloseRetainCount
  handled,         \* sources whose cancel handler has run
  sent, written,   \* packets passed to net_socket_send, and to sendto
  reads            \* events of the read source so far

pool == <<retainCount, owned, lost>>
receiver == <<receiveCallback, receiveBlock, installs>>
sending == <<blocks, pendingPackets, writing, isSending, suspended, sent, written>>
closing == <<destroy, cancelled, closeCount, handled>>
vars == <<pool, deliveries, receiver, sending, closing, reads>>

\* Mutant: the close is counted for one source only.
SourceCount_slip == 1

\* socketCloseRetainCount at first: the read and the write source.
SourceCount == 2

\* net_socket_create and net_socket_set_dispatch_sources: the read source is
\* resumed, the write source is not.  When a system call fails, there are no
\* sources for net_socket_destroy to cancel, and nothing is ever freed.
Init ==
  /\ retainCount = [p \in Packet |-> 0]
  /\ owned = {} /\ deliveries = {} /\ lost = {}
  /\ receiveCallback = FALSE /\ receiveBlock = FALSE /\ installs = 0
  /\ blocks = << >> /\ pendingPackets = queue_create
  /\ writing = FALSE /\ isSending = FALSE /\ suspended = 1
  /\ destroy \in {"open", "failed"}
  /\ cancelled = {} /\ closeCount = SourceCount /\ handled = {}
  /\ sent = << >> /\ written = << >>
  /\ reads = 0

Freed == closeCount = 0
QueueMayRun == "destroy" \in Races \/ destroy \in {"open", "done"}

-----------------------------------------------------------------------------
(* The application *)

net_packet_alloc(p) ==
  /\ destroy = "open" /\ retainCount[p] = 0
  /\ retainCount' = [retainCount EXCEPT ![p] = 1]
  /\ owned' = owned \cup {p}
  /\ UNCHANGED <<lost, deliveries, receiver, sending, closing, reads>>

net_packet_release(p) ==
  /\ destroy = "open" /\ p \in owned
  /\ retainCount' = [retainCount EXCEPT ![p] = @ - 1]
  /\ owned' = owned \ {p}
  /\ UNCHANGED <<lost, deliveries, receiver, sending, closing, reads>>

\* Mutant: the packet is not retained for the time it waits.
net_socket_send_slip(p) ==
  /\ destroy = "open" /\ p \in owned /\ Len(sent) < MaxSends
  /\ blocks' = Append(blocks, p)
  /\ sent' = Append(sent, p)
  /\ UNCHANGED <<pool, deliveries, receiver, pendingPackets, writing, isSending, suspended, written,
                 closing, reads>>

net_socket_send(p) ==
  /\ destroy = "open" /\ p \in owned /\ Len(sent) < MaxSends
  /\ retainCount' = [retainCount EXCEPT ![p] = @ + 1]
  /\ blocks' = Append(blocks, p)
  /\ sent' = Append(sent, p)
  /\ UNCHANGED <<owned, lost, deliveries, receiver, pendingPackets, writing, isSending, suspended,
                 written, closing, reads>>

\* Once, when transactions and streams are set up.
net_socket_set_receive_callback ==
  /\ destroy = "open" /\ ~receiveCallback
  /\ receiveCallback' = TRUE
  /\ UNCHANGED <<receiveBlock, installs, pool, deliveries, sending, closing, reads>>

\* stunResolve copies the receiver (net_socket_copy_info) and its tests
\* install their block.
net_socket_set_receive_block ==
  /\ destroy = "open" /\ ~receiveBlock /\ installs < MaxInstalls
  /\ receiveBlock' = TRUE /\ installs' = installs + 1
  /\ UNCHANGED <<receiveCallback, pool, deliveries, sending, closing, reads>>

\* The report of the resolve puts the copied receiver back.
net_socket_set_info ==
  /\ destroy = "open" /\ receiveBlock
  /\ "restore" \in Races \/ \A d \in deliveries : d.to # "block"
  /\ receiveBlock' = FALSE
  /\ UNCHANGED <<receiveCallback, installs, pool, deliveries, sending, closing, reads>>

\* net_socket_destroy, statement by statement
DestroyRead ==
  /\ destroy = "open"
  /\ "destroy" \in Races \/ ~writing
  /\ destroy' = "test"
  /\ cancelled' = cancelled \cup {"read"}
  /\ UNCHANGED <<pool, deliveries, receiver, sending, closeCount, handled, reads>>

\* Mutant: the write source is cancelled while it is suspended.
DestroyTest_slip ==
  /\ destroy = "test"
  /\ destroy' = "cancel"
  /\ UNCHANGED <<pool, deliveries, receiver, sending, cancelled, closeCount, handled, reads>>

DestroyTest ==
  /\ destroy = "test"
  /\ destroy' = IF isSending THEN "cancel" ELSE "resume"
  /\ UNCHANGED <<pool, deliveries, receiver, sending, cancelled, closeCount, handled, reads>>

DestroyResume ==
  /\ destroy = "resume"
  /\ destroy' = "cancel"
  /\ isSending' = TRUE /\ suspended' = suspended - 1
  /\ UNCHANGED <<pool, deliveries, receiver, blocks, pendingPackets, writing, sent, written,
                 cancelled, closeCount, handled, reads>>

DestroyWrite ==
  /\ destroy = "cancel"
  /\ destroy' = "done"
  /\ cancelled' = cancelled \cup {"write"}
  /\ UNCHANGED <<pool, deliveries, receiver, sending, closeCount, handled, reads>>

Destroy == DestroyRead \/ DestroyTest \/ DestroyResume \/ DestroyWrite

-----------------------------------------------------------------------------
(* socketDispatchQueue *)

\* Mutant: the write source is not resumed.
net_socket_resume_write_slip == UNCHANGED <<isSending, suspended>>

net_socket_resume_write ==
  IF isSending THEN UNCHANGED <<isSending, suspended>>
  ELSE isSending' = TRUE /\ suspended' = suspended - 1

\* Mutant: isSending is not reset.
net_socket_suspend_write_slip ==
  IF isSending THEN suspended' = suspended + 1 /\ UNCHANGED isSending
  ELSE UNCHANGED <<isSending, suspended>>

net_socket_suspend_write ==
  IF isSending THEN isSending' = FALSE /\ suspended' = suspended + 1
  ELSE UNCHANGED <<isSending, suspended>>

\* The block of net_socket_send
RunSend ==
  /\ QueueMayRun /\ ~writing
  /\ blocks # << >>
  /\ pendingPackets' = queue_push(pendingPackets, Head(blocks))
  /\ blocks' = Tail(blocks)
  /\ net_socket_resume_write
  /\ UNCHANGED <<pool, deliveries, receiver, writing, sent, written, closing, reads>>

\* The write handler passes the pending packets to sendto and releases them,
\* while other threads allocate and release, and then suspends its source.
WriteBegin ==
  /\ QueueMayRun /\ ~writing
  /\ suspended = 0 /\ "write" \notin cancelled
  /\ writing' = TRUE
  /\ UNCHANGED <<pool, deliveries, receiver, blocks, pendingPackets, isSending, suspended, sent,
                 written, closing, reads>>

WriteNext ==
  /\ QueueMayRun /\ writing
  /\ ~queue_is_empty(pendingPackets)
  /\ written' = Append(written, Popped(pendingPackets))
  /\ retainCount' = [retainCount EXCEPT ![Popped(pendingPackets)] = @ - 1]
  /\ pendingPackets' = queue_pop(pendingPackets)
  /\ UNCHANGED <<owned, lost, deliveries, receiver, blocks, writing, isSending, suspended, sent,
                 closing, reads>>

WriteEnd ==
  /\ QueueMayRun /\ writing
  /\ queue_is_empty(pendingPackets)
  /\ writing' = FALSE
  /\ net_socket_suspend_write
  /\ UNCHANGED <<pool, deliveries, receiver, blocks, pendingPackets, sent, written, closing, reads>>

WriteHandler == WriteBegin \/ WriteNext \/ WriteEnd

-----------------------------------------------------------------------------
(* The global queue *)

\* The read handler frees the packet of a datagram that was too long or not
\* read.  It keeps the packet of an empty one, and of one nobody receives.
ReadHandler(p, d) ==
  LET to == IF receiveBlock THEN "block" ELSE "callback"
      given == d = "data" /\ (receiveBlock \/ receiveCallback)
      kept == d \in {"data", "empty"}
  IN /\ destroy # "failed" /\ "read" \notin cancelled /\ reads < MaxReads
     /\ retainCount[p] = 0
     /\ reads' = reads + 1
     /\ retainCount' = IF kept THEN [retainCount EXCEPT ![p] = 1] ELSE retainCount
     /\ deliveries' = IF given THEN deliveries \cup {[packet |-> p, to |-> to]} ELSE deliveries
     /\ lost' = IF kept /\ ~given THEN lost \cup {p} ELSE lost
     /\ UNCHANGED <<owned, receiver, sending, closing>>

\* The dispatched delivery calls the block or callback the socket then has,
\* which releases the packet when it is done with it.
Deliver(d) ==
  /\ d \in deliveries
  /\ deliveries' = deliveries \ {d}
  /\ retainCount' = [retainCount EXCEPT ![d.packet] = @ - 1]
  /\ UNCHANGED <<owned, lost, receiver, sending, closing, reads>>

\* The cancel handler of a source; the second one frees the socket.  The
\* write source's waits behind the blocks of its queue.
CancelHandler(source) ==
  /\ source \in cancelled \ handled
  /\ source = "write" => QueueMayRun /\ ~writing /\ suspended = 0 /\ blocks = << >>
  /\ "free" \in Races \/ closeCount > 1 \/ deliveries = {}
  /\ handled' = handled \cup {source}
  /\ closeCount' = closeCount - 1
  /\ UNCHANGED <<pool, deliveries, receiver, sending, destroy, cancelled, reads>>

-----------------------------------------------------------------------------
Next ==
  \/ \E p \in Packet :
       \/ net_packet_alloc(p) \/ net_packet_release(p) \/ net_socket_send(p)
       \/ \E d \in Datagram : ReadHandler(p, d)
  \/ \E d \in deliveries : Deliver(d)
  \/ net_socket_set_receive_callback \/ net_socket_set_receive_block \/ net_socket_set_info
  \/ Destroy
  \/ RunSend \/ WriteHandler
  \/ \E source \in {"read", "write"} : CancelHandler(source)

Spec == Init /\ [][Next]_vars

\* Dispatched blocks run, the socket stays writable, and a call that has
\* begun goes on.  The application need not close the socket.
Fairness ==
  /\ WF_vars(RunSend) /\ WF_vars(WriteHandler)
  /\ WF_vars(destroy # "open" /\ Destroy)
  /\ WF_vars(\E d \in deliveries : Deliver(d))
  /\ \A source \in {"read", "write"} : WF_vars(CancelHandler(source))

FairSpec == Spec /\ Fairness

-----------------------------------------------------------------------------
\* Every variable has its type.
TypeOK ==
  /\ retainCount \in [Packet -> Int]
  /\ owned \in SUBSET Packet /\ lost \in SUBSET Packet
  /\ deliveries \in SUBSET [packet : Packet, to : {"callback", "block"}]
  /\ receiveCallback \in BOOLEAN /\ receiveBlock \in BOOLEAN /\ installs \in 0..MaxInstalls
  /\ \A s \in {blocks, Enqueued(pendingPackets), sent, written} : s \in Seq(Packet)
  /\ writing \in BOOLEAN /\ isSending \in BOOLEAN /\ suspended \in Int
  /\ destroy \in {"open", "failed", "test", "resume", "cancel", "done"}
  /\ cancelled \in SUBSET {"read", "write"} /\ handled \in SUBSET {"read", "write"}
  /\ closeCount \in 0..2
  /\ reads \in 0..MaxReads

\* The write source's suspend count follows isSending: it is never resumed
\* while it runs, and never suspended twice.
WriteBalanced == suspended = IF isSending THEN 0 ELSE 1

Occurrences(p, seq) == Cardinality({i \in DOMAIN seq : seq[i] = p})

\* The retain count of a packet is the number of its holders: the
\* application, a delivery, the blocks and the queue it waits in.  A packet
\* that waits to be written is never handed out again, and none stays out of
\* the pool but those of datagrams that were empty or that nobody received.
PacketsAccounted ==
  \A p \in Packet :
    retainCount[p] = (IF p \in owned THEN 1 ELSE 0) + (IF p \in lost THEN 1 ELSE 0)
                       + Cardinality({d \in deliveries : d.packet = p})
                       + Occurrences(p, blocks) + Occurrences(p, Enqueued(pendingPackets))

\* Whatever still has to use the socket finds it: the blocks of sends, the
\* write handler and the deliveries; and a delivery to a block finds the block
\* that was tested before it was dispatched.
MemorySafe ==
  /\ blocks # << >> \/ writing \/ deliveries # {} => ~Freed
  /\ \A d \in deliveries : d.to = "block" => receiveBlock

\* Packets are written in the order in which they were sent, each once.
WrittenInOrder == IsPrefix(written, sent)

\* Every packet sent is written, unless the socket is closed first: the write
\* source is never left suspended with packets in the queue ("Will not work
\* if already resumed", net_socket.c).
SendsWritten ==
  \A n \in 1..MaxSends : Len(sent) >= n ~> (Len(written) >= n \/ destroy # "open")

\* Closing comes to an end: both cancel handlers run and the socket is freed
\* ("MUST resume write dispatch source before, so cancel handler is called",
\* net_socket.c).
CloseCompletes == destroy \notin {"open", "failed"} ~> Freed
=============================================================================
