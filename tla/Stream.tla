------------------------------- MODULE Stream -------------------------------
(***************************************************************************)
(* The stream session of stream.c: the list of streams of one              *)
(* configuration, its update timer, and the serial streamDispatchQueue     *)
(* that runs the timer callback and the blocks dispatched to it.           *)
(*                                                                         *)
(* streamSuspend and streamResume are called by the blocks of the queue    *)
(* and, as public functions, on the application's thread; there they test  *)
(* config->active in one step and act on it in another, and Split says     *)
(* whether the queue may run in between.  The code does not prevent it,    *)
(* nor blocks that run after streamTeardown has destroyed the list.        *)
(*                                                                         *)
(* The packets' acknowledgements are the subject of StreamLink: here a     *)
(* packet of a peer is one that passes streamReceive's test, and may       *)
(* change the round trip time of a stream that sent something.  Time is    *)
(* counted in ticks of the update timer.  The socket's pool may have no    *)
(* packet for a stream, MaxRefusals times.                                 *)
(***************************************************************************)
EXTENDS StreamFlow, Sequences, SequencesExt

CONSTANTS
  Addr,           \* remote addresses
  StreamTimeout,  \* kStreamTimeout in ticks
  GoodInterval,   \* ticks between updates in good mode (1)
  BadInterval,    \* ticks between updates in bad mode (3)
  Rtt,            \* round trip times the packets of a peer lead to: Booleans, TRUE for good
  MaxCalls,       \* bound on the calls of the application
  MaxQueue,       \* bound on the blocks in the queue
  MaxRefusals,    \* bound on the refusals of a packet
  Split           \* may the queue run inside streamSuspend and streamResume, and
                  \* after streamTeardown?

ASSUME StreamAssumption ==
  /\ {StreamTimeout, GoodInterval, BadInterval, MaxCalls, MaxQueue, MaxRefusals} \subseteq Nat
  /\ GoodInterval <= BadInterval
  /\ Rtt \subseteq BOOLEAN /\ Split \in BOOLEAN

VARIABLES
  streams,    \* addresses in config->streams
  stream,     \* the Stream struct last created for each address
  created,    \* number of structs created for each address: the identity of the last one
  active,     \* config->active
  suspended,  \* suspend count of streamDispatchTimer: it fires at 0
  queue,      \* blocks waiting in streamDispatchQueue
  app,        \* where the application's thread is: "idle", or what it is about to do
  torn,       \* has streamTeardown been called?
  calls,      \* calls the application made
  refusals,   \* packets the pool refused
  sentTo,     \* addresses the last timer callback sent to
  reports     \* timeoutCallback calls for a stream since it was last heard, up to 2

vars == <<streams, stream, created, active, suspended, queue, app, torn, calls, refusals, sentTo,
          reports>>

StreamType ==
  [state : {"Waiting", "Timeout"},
   timeoutAccumulator : 0..(StreamTimeout + 1),
   updateAccumulator : 0..BadInterval,
   sent : BOOLEAN,  \* reliability.sequence > 0
   rtt : BOOLEAN,   \* reliability.rtt <= kStreamFlowRttThreshold
   flow : FlowType,
   streak : 0..(MaxPenalty + 1)]  \* ticks with a good round trip time since the last bad one

streamCreate ==
  [state |-> "Waiting", timeoutAccumulator |-> 0, updateAccumulator |-> 0,
   sent |-> FALSE, rtt |-> TRUE, flow |-> streamFlowClear, streak |-> 0]

\* streamSetup: the timer is created suspended.
Init ==
  /\ streams = {}
  /\ stream = [a \in Addr |-> streamCreate]
  /\ created = [a \in Addr |-> 0]
  /\ active = FALSE
  /\ suspended = 1
  /\ queue = << >>
  /\ app = "idle"
  /\ torn = FALSE
  /\ calls = 0
  /\ refusals = 0
  /\ sentTo = {}
  /\ reports = [a \in Addr |-> 0]

QueueMayRun == Split \/ app = "idle"

\* The bound on the queue leaves room for the blocks of a timer callback.
Room == Len(queue) + Cardinality(Addr) < MaxQueue

-----------------------------------------------------------------------------
(* streamSuspend and streamResume, on the queue *)

streamSuspend ==
  IF active THEN active' = FALSE /\ suspended' = suspended + 1
  ELSE UNCHANGED <<active, suspended>>

\* list: the contents of config->streams at the time of the call
streamResume(list) ==
  IF ~active /\ list # {} THEN active' = TRUE /\ suspended' = suspended - 1
  ELSE UNCHANGED <<active, suspended>>

-----------------------------------------------------------------------------
(* The application's thread *)

\* streamAdd and streamRemove
Dispatch(op, a) ==
  /\ app = "idle" /\ ~torn /\ calls < MaxCalls /\ Room
  /\ calls' = calls + 1
  /\ queue' = Append(queue, [op |-> op, addr |-> a])
  /\ UNCHANGED <<streams, stream, created, active, suspended, app, torn, refusals, sentTo, reports>>

AppSuspendTest ==
  /\ app = "idle" /\ ~torn /\ calls < MaxCalls
  /\ calls' = calls + 1
  /\ app' = IF active THEN "suspend" ELSE "idle"
  /\ UNCHANGED <<streams, stream, created, active, suspended, queue, torn, refusals, sentTo, reports>>

\* Mutant: streamResume does not test config->active.
AppResumeTest_slip ==
  /\ app = "idle" /\ ~torn /\ calls < MaxCalls
  /\ calls' = calls + 1
  /\ app' = IF streams # {} THEN "resume" ELSE "idle"
  /\ UNCHANGED <<streams, stream, created, active, suspended, queue, torn, refusals, sentTo, reports>>

AppResumeTest ==
  /\ app = "idle" /\ ~torn /\ calls < MaxCalls
  /\ calls' = calls + 1
  /\ app' = IF ~active /\ streams # {} THEN "resume" ELSE "idle"
  /\ UNCHANGED <<streams, stream, created, active, suspended, queue, torn, refusals, sentTo, reports>>

AppAct ==
  /\ app # "idle"
  /\ active' = (app = "resume")
  /\ suspended' = IF app = "resume" THEN suspended - 1 ELSE suspended + 1
  /\ app' = "idle"
  /\ UNCHANGED <<streams, stream, created, queue, torn, calls, refusals, sentTo, reports>>

\* The timer is cancelled and, because libdispatch must not release a
\* suspended source, resumed; the list and the socket are destroyed.
streamTeardown ==
  /\ app = "idle" /\ ~torn
  /\ Split \/ queue = << >>
  /\ torn' = TRUE
  /\ streams' = {}
  /\ suspended' = IF active THEN suspended ELSE suspended - 1
  /\ UNCHANGED <<stream, created, active, queue, app, calls, refusals, sentTo, reports>>

-----------------------------------------------------------------------------
(* Blocks of streamDispatchQueue *)

Runs(op) == QueueMayRun /\ queue # << >> /\ Head(queue).op = op

RunAdd ==
  /\ Runs("add")
  /\ LET a == Head(queue).addr IN
       IF a \in streams
       THEN UNCHANGED <<streams, stream, created, active, suspended, reports>>
       ELSE /\ streams' = streams \cup {a}
            /\ stream' = [stream EXCEPT ![a] = streamCreate]
            /\ created' = [created EXCEPT ![a] = created[a] + 1]
            /\ reports' = [reports EXCEPT ![a] = 0]
            /\ streamResume(streams \cup {a})
  /\ queue' = Tail(queue)
  /\ UNCHANGED <<app, torn, calls, refusals, sentTo>>

RunRemove ==
  /\ Runs("remove")
  /\ LET a == Head(queue).addr IN
       /\ streams' = streams \ {a}
       /\ IF a \in streams /\ streams = {a} THEN streamSuspend
          ELSE UNCHANGED <<active, suspended>>
  /\ queue' = Tail(queue)
  /\ UNCHANGED <<stream, created, app, torn, calls, refusals, sentTo, reports>>

\* The block of streamSocketReceiveCallback: a packet of an unknown peer adds
\* a stream, by another block, and is dropped.
RunReceive ==
  /\ Runs("receive")
  /\ LET a == Head(queue).addr IN
       IF a \in streams
       THEN /\ \E rtt \in {stream[a].rtt} \cup (IF stream[a].sent THEN Rtt ELSE {}) :
                 stream' = [stream EXCEPT ![a].timeoutAccumulator = 0, ![a].rtt = rtt]
            /\ reports' = [reports EXCEPT ![a] = 0]
            /\ queue' = Tail(queue)
       ELSE /\ queue' = Append(Tail(queue), [op |-> "add", addr |-> a])
            /\ UNCHANGED <<stream, reports>>
  /\ UNCHANGED <<streams, created, active, suspended, app, torn, calls, refusals, sentTo>>

\* The block of streamTimeout: it holds a pointer to the stream.
RunTimeout ==
  /\ Runs("timeout")
  /\ LET a == Head(queue).addr IN
       IF Head(queue).stream = created[a]
       THEN /\ stream' = [stream EXCEPT ![a].state = "Timeout"]
            /\ reports' = [reports EXCEPT ![a] = Min({@ + 1, 2})]
       ELSE UNCHANGED <<stream, reports>>
  /\ queue' = Tail(queue)
  /\ UNCHANGED <<streams, created, active, suspended, app, torn, calls, refusals, sentTo>>

\* A packet of a peer arrives at the socket.
SocketReceive(a) ==
  /\ Room /\ (Split \/ ~torn)
  /\ queue' = Append(queue, [op |-> "receive", addr |-> a])
  /\ UNCHANGED <<streams, stream, created, active, suspended, app, torn, calls, refusals, sentTo,
                 reports>>

-----------------------------------------------------------------------------
(* The timer *)

Interval(flow) == IF flow.mode = "Good" THEN GoodInterval ELSE BadInterval

Streak(s) == IF s.rtt THEN Min({s.streak + 1, MaxPenalty + 1}) ELSE 0

\* Mutant: the update accumulator is reset at every tick, due or not.
Updated_early_slip(s, flow) ==
  [s EXCEPT !.flow = flow, !.streak = Streak(s),
            !.timeoutAccumulator = Min({@ + 1, StreamTimeout + 1}),
            !.updateAccumulator = 0]

\* streamUpdate, in its three results: whether the stream is due for an
\* update, whether it was silent for too long, and the stream after the tick.
\* The time since the last packet is counted up to StreamTimeout + 1.
Due(s, flow) == s.updateAccumulator + 1 >= Interval(flow)

\* Mutant: a stream that was reported once is not reported again.
Silent_slip(s) == s.state = "Waiting" /\ s.timeoutAccumulator + 1 > StreamTimeout

Silent(s) == s.timeoutAccumulator + 1 > StreamTimeout

Updated(s, flow) ==
  [s EXCEPT !.flow = flow, !.streak = Streak(s),
            !.timeoutAccumulator = Min({@ + 1, StreamTimeout + 1}),
            !.updateAccumulator = IF Due(s, flow) THEN 0 ELSE @ + 1]

\* streamTimerCallback: every stream of the list is updated; those silent for
\* too long dispatch a timeout block; data is sent if all of them are due.
streamTimerCallback ==
  /\ QueueMayRun /\ suspended = 0 /\ ~torn
  /\ Len(queue) + Cardinality(streams) <= MaxQueue
  /\ LET flow == [a \in streams |-> streamFlowUpdate(stream[a].flow, stream[a].rtt)]
         late == {a \in streams : Silent(stream[a])}
         syncUpdate == \A a \in streams : Due(stream[a], flow[a])
         packets == IF syncUpdate THEN {a \in streams : stream[a].state = "Waiting"} ELSE {}
     IN  /\ \E refused \in SUBSET packets :
              /\ refusals' = refusals + Cardinality(refused)
              /\ refusals' <= MaxRefusals
              /\ sentTo' = packets \ refused
         /\ stream' = [a \in Addr |->
                         IF a \in streams
                         THEN [Updated(stream[a], flow[a]) EXCEPT !.sent = @ \/ a \in sentTo']
                         ELSE stream[a]]
         /\ queue' = queue \o SetToSeq({[op |-> "timeout", addr |-> a, stream |-> created[a]]
                                          : a \in late})
  /\ UNCHANGED <<streams, created, active, suspended, app, torn, calls, reports>>

DispatchQueue == RunAdd \/ RunRemove \/ RunReceive \/ RunTimeout

Next ==
  \/ \E a \in Addr : Dispatch("add", a) \/ Dispatch("remove", a) \/ SocketReceive(a)
  \/ AppSuspendTest \/ AppResumeTest \/ AppAct \/ streamTeardown
  \/ DispatchQueue
  \/ streamTimerCallback

Spec == Init /\ [][Next]_vars

\* The queue runs its blocks, the timer fires, and the application's thread
\* comes back from a call it made.
FairSpec ==
  /\ Spec
  /\ WF_vars(DispatchQueue) /\ WF_vars(streamTimerCallback) /\ WF_vars(AppAct)

-----------------------------------------------------------------------------
Block ==
  [op : {"add", "remove", "receive"}, addr : Addr]
    \cup [op : {"timeout"}, addr : Addr, stream : Nat]

\* Every variable has its type.
TypeOK ==
  /\ streams \in SUBSET Addr
  /\ stream \in [Addr -> StreamType]
  /\ created \in [Addr -> Nat]
  /\ active \in BOOLEAN
  /\ suspended \in Int
  /\ \A i \in 1..Len(queue) : queue[i] \in Block
  /\ app \in {"idle", "suspend", "resume"}
  /\ torn \in BOOLEAN
  /\ calls \in 0..MaxCalls /\ refusals \in 0..MaxRefusals
  /\ sentTo \in SUBSET Addr
  /\ reports \in [Addr -> 0..2]

\* The timer's suspend count follows config->active: dispatch_resume is never
\* called on a timer that runs, and the timer is not released while it is
\* suspended ("in case it is suspended", stream.c); libdispatch answers both
\* with a crash.
TimerBalanced == suspended = IF active \/ torn THEN 0 ELSE 1

Session(a) == active /\ a \in streams /\ stream[a].state = "Waiting"

\* A stream that stays in session is sent data again and again.
KeepsSending == \A a \in Addr : <>[]Session(a) => []<>(a \in sentTo)

\* A peer that is heard no more is reported, unless the stream is removed or
\* the session suspended first.
SilenceReported ==
  \A a \in Addr : <>[](active /\ a \in streams) =>
    []<>(stream[a].timeoutAccumulator = 0 \/ reports[a] > 0)

\* Flow control returns to good mode only after an uninterrupted run of good
\* round trips longer than the penalty: the rate cannot flap with every
\* change of the round trip time.
ReturnNeedsStreak ==
  [][\A a \in streams :
       stream[a].flow.mode = "Bad" /\ stream'[a].flow.mode = "Good"
         => stream'[a].streak > stream[a].flow.penalty]_vars

\* If the round trip time stays good from some point on, the stream settles
\* in good mode and works its penalty off.
FlowRecovers ==
  \A a \in Addr : <>[](active /\ a \in streams /\ stream[a].rtt) =>
    <>[](stream[a].flow.mode = "Good" /\ stream[a].flow.penalty = MinPenalty)
=============================================================================
