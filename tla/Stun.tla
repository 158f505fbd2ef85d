-------------------------------- MODULE Stun --------------------------------
(***************************************************************************)
(* The STUN client of stun.c and stun_tests.c: stunResolve runs five tests *)
(* one after the other, each a request that is sent, repeated when its     *)
(* timeout fires and given up after MaxRetries, and then reports once.     *)
(*                                                                         *)
(* Everything the client does runs in blocks of the serial                 *)
(* stunDispatchQueue.  A test's receive block is installed on the socket,  *)
(* and dispatches what the socket receives; the test releases it when it   *)
(* completes, while the socket keeps the pointer.  A call of a released    *)
(* block either finds it intact in the freed memory or ends the program.   *)
(*                                                                         *)
(* External: the server and the NAT between it and the client.  Late says  *)
(* whether an answer may arrive after the timeout that waited for it.      *)
(*                                                                         *)
(* The handler of a timer is one step (Transaction takes it apart), and    *)
(* the packets of the socket's pool are not followed.  stunResolve is      *)
(* called once, and stunDestroy after the application was told; what it    *)
(* frees is found intact by a block that still uses it, or ends the        *)
(* program.                                                                *)
(***************************************************************************)
EXTENDS Naturals, Sequences

CONSTANTS
  MaxRetries,  \* kStunDefaultRetries
  MaxForeign,  \* bound on the datagrams of other protocols
  Late         \* may an answer arrive after its timeout?

ASSUME StunAssumption == MaxRetries \in Nat /\ MaxForeign \in Nat /\ Late \in BOOLEAN

\* The tests, in the order in which stunRunNextTest starts them.
Tests == <<"binding1", "behavior1", "behavior2", "filtering1", "filtering2">>
Test == {Tests[i] : i \in 1..Len(Tests)}

\* Addresses are <<host, port>>.  The server's alternate address differs from
\* the primary one in both.
Primary == <<1, 1>>
Other == <<2, 2>>
OtherPrimaryPort == <<2, 1>>
OtherPrimaryHost == <<1, 2>>
Addr == {Primary, Other, OtherPrimaryPort, OtherPrimaryHost}
Local == <<0, 0>>
Zero == << >>

VARIABLES
  nat,        \* the NAT's mapping and filtering, and whether the server has another address
  contacted,  \* addresses the client sent to
  inFlight,   \* requests of each test that may still be answered
  foreign,    \* datagrams of other protocols so far
  queue,      \* blocks waiting in stunDispatchQueue
  receiver,   \* the test whose block is the socket's receiveBlock, "none" for the original
  completed,  \* tests that are completed
  retries,    \* retries of each test
  timer,      \* tests whose timeout is armed
  results,
  outcome,    \* "idle", "resolving", then what was reported: "resolved", "failed"
  notices,    \* calls of stunDidResolve and stunDidFailResolve
  destroyed,  \* has stunDestroy been called?
  crashed     \* a released block was called and ended the program

network == <<nat, contacted, inFlight, foreign>>
tests == <<receiver, completed, retries, timer, results>>
vars == <<network, queue, tests, outcome, notices, destroyed, crashed>>

NoResults ==
  [didBinding |-> FALSE, mappedAddr |-> Zero, isMappingDirect |-> FALSE, hasOther |-> FALSE,
   didBehavior |-> FALSE, natBehavior |-> "Unknown", mappedOtherPrimaryPort |-> Zero,
   didFiltering |-> FALSE, natFiltering |-> "Unknown"]

\* stunCreate
Init ==
  /\ nat \in [mapping : {"Direct", "EndpointIndependent", "AddressDependent",
                         "AddressAndPortDependent"},
              filtering : {"EndpointIndependent", "AddressDependent",
                           "AddressAndPortDependent"},
              other : BOOLEAN]
  /\ contacted = {} /\ inFlight = [t \in Test |-> 0] /\ foreign = 0
  /\ queue = << >>
  /\ receiver = "none" /\ completed = {} /\ retries = [t \in Test |-> 0] /\ timer = {}
  /\ results = NoResults
  /\ outcome = "idle" /\ notices = 0
  /\ destroyed = FALSE /\ crashed = FALSE

-----------------------------------------------------------------------------
(* The NAT and the server *)

\* The client's address as a server sees it that was contacted at addr.
Mapped(addr) ==
  CASE nat.mapping = "Direct" -> Local
    [] nat.mapping = "EndpointIndependent" -> <<3, 3>>
    [] nat.mapping = "AddressDependent" -> <<addr[1], 0>>
    [] nat.mapping = "AddressAndPortDependent" -> addr

\* Where a test's request is sent, and where the server answers it from.
Dest(t) ==
  CASE t = "behavior1" -> OtherPrimaryPort
    [] t = "behavior2" -> Other
    [] OTHER -> Primary

Origin(t) ==
  CASE t = "filtering1" -> Other
    [] t = "filtering2" -> OtherPrimaryHost
    [] OTHER -> Dest(t)

\* The NAT lets a datagram in to a mapping the client opened.
LetsIn(from, t) ==
  LET opened == {a \in contacted : Mapped(a) = Mapped(Dest(t))} IN
  CASE nat.filtering = "EndpointIndependent" -> TRUE
    [] nat.filtering = "AddressDependent" -> \E a \in opened : a[1] = from[1]
    [] nat.filtering = "AddressAndPortDependent" -> from \in opened

-----------------------------------------------------------------------------
(* The socket's callback and the timers, on the global queue *)

\* The socket calls its receiveBlock, which dispatches the packet.  Whatever
\* arrives with the original callback in place is not the client's.
Receive(packet) ==
  IF receiver = "none" THEN UNCHANGED <<queue, crashed>>
  ELSE /\ queue' = Append(queue, [op |-> "receive", test |-> receiver, packet |-> packet])
       /\ crashed' \in (IF receiver \in completed THEN BOOLEAN ELSE {FALSE})

\* A request is answered, with an address or an error; a server may ignore
\* that it was asked to answer from another address.
Answer(t, kind, from) ==
  /\ inFlight[t] > 0 /\ LetsIn(from, t)
  /\ inFlight' = [inFlight EXCEPT ![t] = @ - 1]
  /\ Receive([kind |-> kind, id |-> t, from |-> from])
  /\ UNCHANGED <<nat, contacted, foreign, tests, outcome, notices, destroyed>>

ReceiveForeign ==
  /\ foreign < MaxForeign
  /\ foreign' = foreign + 1
  /\ Receive([kind |-> "foreign"])
  /\ UNCHANGED <<nat, contacted, inFlight, tests, outcome, notices, destroyed>>

TimerFires(t) ==
  /\ t \in timer
  /\ timer' = timer \ {t}
  /\ queue' = Append(queue, [op |-> "timeout", test |-> t])
  /\ inFlight' = IF Late THEN inFlight ELSE [inFlight EXCEPT ![t] = 0]
  /\ UNCHANGED <<nat, contacted, foreign, receiver, completed, retries, results, outcome,
                 notices, destroyed, crashed>>

\* The application
stunResolve ==
  /\ outcome = "idle"
  /\ outcome' = "resolving"
  /\ queue' = Append(queue, [op |-> "resolve"])
  /\ UNCHANGED <<network, tests, notices, destroyed, crashed>>

\* Tests that are not completed are released.  When the server's name was not
\* known, no test was started and their structs hold what malloc left there.
stunDestroy ==
  /\ outcome \in {"resolved", "failed"} /\ ~destroyed
  /\ destroyed' = TRUE
  /\ timer' = timer \cap completed
  /\ crashed' \in (IF completed = Test THEN {FALSE} ELSE BOOLEAN)
  /\ UNCHANGED <<network, queue, receiver, completed, retries, results, outcome, notices>>

-----------------------------------------------------------------------------
(* Steps of a test.  Each takes the results the test leaves. *)

Runs(op) == queue # << >> /\ Head(queue).op = op

\* Mutant: the completed test is not followed by the next one.
stunTestSetComplete_stop_slip(t, new) ==
  /\ completed' = completed \cup {t}
  /\ timer' = timer \ {t}
  /\ results' = new
  /\ queue' = Tail(queue)
  /\ UNCHANGED <<network, receiver, retries>>

\* Mutant: the timeout of a completed test is not destroyed.
stunTestSetComplete_timer_slip(t, new) ==
  /\ completed' = completed \cup {t}
  /\ results' = new
  /\ queue' = Append(Tail(queue), [op |-> "next", test |-> t])
  /\ UNCHANGED <<network, receiver, retries, timer>>

\* stunTestRelease and testDidComplete are part of it.
stunTestSetComplete(t, new) ==
  /\ completed' = completed \cup {t}
  /\ timer' = timer \ {t}
  /\ results' = new
  /\ queue' = Append(Tail(queue), [op |-> "next", test |-> t])
  /\ UNCHANGED <<network, receiver, retries>>

\* stunTestSend
stunTestSend(t) ==
  /\ receiver' = t
  /\ timer' = timer \cup {t}
  /\ inFlight' = [inFlight EXCEPT ![t] = @ + 1]
  /\ contacted' = contacted \cup {Dest(t)}
  /\ queue' = Tail(queue)
  /\ UNCHANGED <<nat, foreign, completed, retries, results>>

\* What is known when a test is to start may settle it: the results then, or
\* those at hand if it is to run.
Direct == results.didBinding /\ results.isMappingDirect

Settled(t) ==
  CASE t = "binding1" -> FALSE
    [] t \in {"behavior1", "filtering1"} -> Direct \/ ~results.hasOther
    [] t = "behavior2" -> results.didBehavior \/ results.mappedOtherPrimaryPort = Zero
    [] t = "filtering2" -> results.didFiltering \/ ~results.hasOther

SettledResults(t) ==
  CASE t = "behavior1" /\ Direct ->
         [results EXCEPT !.natBehavior = "Direct", !.didBehavior = TRUE]
    [] t = "behavior1" /\ ~Direct -> [results EXCEPT !.didBehavior = FALSE]
    [] t = "filtering1" /\ Direct ->
         [results EXCEPT !.natFiltering = "EndpointIndependent", !.didFiltering = TRUE]
    [] t = "filtering1" /\ ~Direct -> [results EXCEPT !.didFiltering = FALSE]
    [] OTHER -> results

\* stunTestStartBasicBinding, ...Behavior1, ...Behavior2, ...Filtering1 and
\* ...Filtering2
Start(t) == IF Settled(t) THEN stunTestSetComplete(t, SettledResults(t)) ELSE stunTestSend(t)

-----------------------------------------------------------------------------
(* The results a response with the test's id leads to *)

BindingResults(mapped) ==
  [results EXCEPT
     !.mappedAddr = IF mapped = Zero THEN @ ELSE mapped,
     !.hasOther = @ \/ (mapped # Zero /\ nat.other),
     !.isMappingDirect = @ \/ mapped = Local,
     !.didBinding = TRUE]

\* Mutant: the two mapped addresses are not compared.
BehaviorResults_slip(t, mapped) ==
  [results EXCEPT !.mappedOtherPrimaryPort = mapped,
                  !.didBehavior = TRUE, !.natBehavior = "EndpointIndependent"]

\* An error without an address leaves the results as they are.
BehaviorResults(t, mapped) ==
  CASE mapped = Zero -> results
    [] mapped # Zero /\ t = "behavior1" ->
         [results EXCEPT
            !.mappedOtherPrimaryPort = mapped,
            !.didBehavior = @ \/ mapped = results.mappedAddr,
            !.natBehavior = IF mapped = results.mappedAddr THEN "EndpointIndependent" ELSE @]
    [] mapped # Zero /\ t = "behavior2" ->
         [results EXCEPT
            !.didBehavior = TRUE,
            !.natBehavior = IF mapped = results.mappedAddr THEN "AddressDependent"
                            ELSE "AddressAndPortDependent"]

\* Mutant: where the response comes from is not looked at.
FilteringResults_slip(t, from) ==
  [results EXCEPT
     !.didFiltering = TRUE,
     !.natFiltering = IF t = "filtering1" THEN "EndpointIndependent" ELSE "AddressDependent"]

FilteringResults(t, from) ==
  IF from = Other
  THEN [results EXCEPT
          !.didFiltering = TRUE,
          !.natFiltering = IF t = "filtering1" THEN "EndpointIndependent"
                           ELSE "AddressDependent"]
  ELSE results

ResponseResults(t, packet) ==
  LET mapped == IF packet.kind = "address" THEN Mapped(Dest(t)) ELSE Zero IN
  CASE t = "binding1" -> BindingResults(mapped)
    [] t \in {"behavior1", "behavior2"} -> BehaviorResults(t, mapped)
    [] t \in {"filtering1", "filtering2"} -> FilteringResults(t, packet.from)

-----------------------------------------------------------------------------
(* Blocks of stunDispatchQueue *)

Notify(what) ==
  /\ outcome' = what
  /\ notices' = notices + 1

\* The block of stunResolve; dns says whether the server's name is known.
RunResolve(dns) ==
  /\ Runs("resolve")
  /\ IF dns
     THEN Start("binding1") /\ UNCHANGED <<outcome, notices>>
     ELSE Notify("failed") /\ queue' = Tail(queue) /\ UNCHANGED <<network, tests>>
  /\ UNCHANGED <<destroyed, crashed>>

\* stunRunNextTest after a test but the last
RunNextTest ==
  /\ Runs("next")
  /\ \E i \in 1..(Len(Tests) - 1) : Tests[i] = Head(queue).test /\ Start(Tests[i + 1])
  /\ UNCHANGED <<outcome, notices, destroyed, crashed>>

\* stunRunNextTest after the last: the socket gets its own callback back if
\* the client resolved.
RunReport ==
  /\ Runs("next") /\ Head(queue).test = Tests[Len(Tests)]
  /\ Notify(IF results.didBinding THEN "resolved" ELSE "failed")
  /\ receiver' = IF results.didBinding THEN "none" ELSE receiver
  /\ queue' = Tail(queue)
  /\ UNCHANGED <<network, completed, retries, timer, results, destroyed, crashed>>

\* The block of a test's receiveBlock.  Any valid STUN response destroys the
\* timeout, whatever its id; other datagrams go to the original callback.
RunReceive ==
  /\ Runs("receive")
  /\ LET t == Head(queue).test
         packet == Head(queue).packet
         stun == t \notin completed /\ packet.kind # "foreign"
     IN  IF stun /\ packet.id = t
         THEN stunTestSetComplete(t, ResponseResults(t, packet))
         ELSE /\ timer' = IF stun THEN timer \ {t} ELSE timer
              /\ queue' = Tail(queue)
              /\ UNCHANGED <<network, receiver, completed, retries, results>>
  /\ crashed' \in (IF destroyed THEN BOOLEAN ELSE {FALSE})
  /\ UNCHANGED <<outcome, notices, destroyed>>

\* Mutant: one retry too many.
MayRetry_slip(t) == retries[t] <= MaxRetries

MayRetry(t) == retries[t] < MaxRetries

\* The flag a test that gets no answer leaves: that of the binding test for
\* the behavior tests too.
FailedResults(t) ==
  IF t \in {"filtering1", "filtering2"} THEN [results EXCEPT !.didFiltering = FALSE]
  ELSE [results EXCEPT !.didBinding = FALSE]

\* stunTestRetryOrFail, in the block the timeout dispatched
RunTimeout ==
  /\ Runs("timeout")
  /\ LET t == Head(queue).test IN
       CASE t \in completed -> queue' = Tail(queue) /\ UNCHANGED <<network, tests>>
         [] t \notin completed /\ MayRetry(t) ->
              /\ retries' = [retries EXCEPT ![t] = @ + 1]
              /\ timer' = timer \cup {t}
              /\ inFlight' = [inFlight EXCEPT ![t] = @ + 1]
              /\ queue' = Tail(queue)
              /\ UNCHANGED <<nat, contacted, foreign, receiver, completed, results>>
         [] t \notin completed /\ ~MayRetry(t) -> stunTestSetComplete(t, FailedResults(t))
  /\ UNCHANGED <<outcome, notices, destroyed, crashed>>

DispatchQueue ==
  /\ ~crashed
  /\ \/ \E dns \in BOOLEAN : RunResolve(dns)
     \/ RunNextTest \/ RunReport \/ RunReceive \/ RunTimeout

Timers == ~crashed /\ \E t \in Test : TimerFires(t)

Next ==
  \/ DispatchQueue
  \/ Timers
  \/ /\ ~crashed
     /\ \/ stunResolve \/ stunDestroy
        \/ ReceiveForeign
        \/ \E t \in Test, kind \in {"address", "error"} :
             \E from \in {Origin(t), Dest(t)} : Answer(t, kind, from)

Spec == Init /\ [][Next]_vars

\* The queue runs its blocks and armed timers fire.  Nothing need be answered.
FairSpec == Spec /\ WF_vars(DispatchQueue) /\ WF_vars(Timers)

-----------------------------------------------------------------------------
Packet == [kind : {"address", "error"}, id : Test, from : Addr] \cup [kind : {"foreign"}]

Block ==
  [op : {"resolve"}] \cup [op : {"next", "timeout"}, test : Test]
    \cup [op : {"receive"}, test : Test, packet : Packet]

\* Every variable has its type; no test is repeated more than MaxRetries times.
TypeOK ==
  /\ contacted \in SUBSET Addr
  /\ inFlight \in [Test -> 0..(MaxRetries + 1)]
  /\ foreign \in 0..MaxForeign
  /\ \A i \in 1..Len(queue) : queue[i] \in Block
  /\ receiver \in Test \cup {"none"}
  /\ completed \in SUBSET Test /\ timer \in SUBSET Test
  /\ retries \in [Test -> 0..MaxRetries]
  /\ outcome \in {"idle", "resolving", "resolved", "failed"}
  /\ destroyed \in BOOLEAN /\ crashed \in BOOLEAN

\* The application is told once, and when it is told nothing is left that
\* could start a test, send a request or tell it again: stunDestroy, which
\* the application calls next, frees what they would use.
QuietAfterNotice ==
  /\ notices <= 1
  /\ notices = 1 =>
       /\ timer = {}
       /\ \A i \in 1..Len(queue) : queue[i].op = "receive" /\ queue[i].test \in completed

\* A behavior the client reports as known tells the NATs apart that matter:
\* no NAT at all, one mapping for all destinations, or several ("the kind of
\* NAT we like", stun_tests.h).  That holds whichever requests were repeated.
BehaviorSound ==
  results.didBehavior =>
    /\ results.natBehavior = "Direct" <=> nat.mapping = "Direct"
    /\ results.natBehavior = "EndpointIndependent" <=> nat.mapping = "EndpointIndependent"

\* A NAT that lets in what comes from contacted addresses and ports only is
\* never reported as one that lets in everything ("can receive on mapped
\* address from anywhere regardless of where the original send went",
\* stun_tests.h), whichever tests ran before, unless there is no NAT.
FilteringSound ==
  results.didFiltering /\ results.natFiltering = "EndpointIndependent" =>
    nat.mapping = "Direct" \/ nat.filtering # "AddressAndPortDependent"

\* stunResolve comes to an end: the application is told, whatever is lost
\* ("Retry 2 times after initial request", stun.h).
ResolveEnds == outcome = "resolving" ~> (outcome \in {"resolved", "failed"} \/ crashed)
=============================================================================
