----------------------------- MODULE StunProofs -----------------------------
(***************************************************************************)
(* The STUN client tells the application once and leaves nothing behind    *)
(* that could run a test, and what it reports about the NAT is right; for  *)
(* every number of retries and foreign datagrams, late answers or not.     *)
(***************************************************************************)
EXTENDS Stun, SequenceTheorems, TLAPS

\* The first n tests
Done(n) == {Tests[j] : j \in 1..n}

LEMMA TestFacts ==
  /\ Len(Tests) = 5
  /\ Tests[1] = "binding1" /\ Tests[2] = "behavior1" /\ Tests[3] = "behavior2"
  /\ Tests[4] = "filtering1" /\ Tests[5] = "filtering2"
  /\ Test = {"binding1", "behavior1", "behavior2", "filtering1", "filtering2"}
  /\ \A i \in 1..5 : Tests[i] \in Test
  /\ \A i, j \in 1..5 : Tests[i] = Tests[j] => i = j
  <1>1. /\ Len(Tests) = 5
        /\ Tests[1] = "binding1" /\ Tests[2] = "behavior1" /\ Tests[3] = "behavior2"
        /\ Tests[4] = "filtering1" /\ Tests[5] = "filtering2"
    BY DEF Tests
  <1>2. \A i \in 1..5 : i = 1 \/ i = 2 \/ i = 3 \/ i = 4 \/ i = 5
    OBVIOUS
  <1>3. \A i, j \in 1..5 : Tests[i] = Tests[j] => i = j
    BY <1>1, <1>2
  <1>4. Test = {Tests[i] : i \in 1..5}
    BY <1>1 DEF Test
  <1>5. Test = {"binding1", "behavior1", "behavior2", "filtering1", "filtering2"}
    BY <1>1, <1>2, <1>4
  <1>6. QED
    BY <1>1, <1>3, <1>4, <1>5

LEMMA DoneFacts ==
  /\ Done(0) = {} /\ Done(5) = Test
  /\ \A n \in 0..4 : Tests[n + 1] \notin Done(n) /\ Done(n + 1) = Done(n) \cup {Tests[n + 1]}
  /\ \A n \in 0..5 : Done(n) \subseteq Test
  <1>1. Done(0) = {}
    BY DEF Done
  <1>2. Done(5) = Test
    BY TestFacts DEF Done, Test
  <1>3. ASSUME NEW n \in 0..4
        PROVE  Tests[n + 1] \notin Done(n) /\ Done(n + 1) = Done(n) \cup {Tests[n + 1]}
    <2>1. \A j : j \in 1..(n + 1) <=> (j \in 1..n \/ j = n + 1)
      OBVIOUS
    <2>2. Done(n + 1) = Done(n) \cup {Tests[n + 1]}
      BY <2>1 DEF Done
    <2>3. \A j \in 1..n : j \in 1..5 /\ j # n + 1
      OBVIOUS
    <2>4. n + 1 \in 1..5
      OBVIOUS
    <2>5. Tests[n + 1] \notin Done(n)
      BY <2>3, <2>4, TestFacts DEF Done
    <2>6. QED
      BY <2>2, <2>5
  <1>4. ASSUME NEW n \in 0..5 PROVE Done(n) \subseteq Test
    <2>1. \A j \in 1..n : j \in 1..5
      OBVIOUS
    <2>2. QED
      BY <2>1, TestFacts DEF Done
  <1>5. QED
    BY <1>1, <1>2, <1>3, <1>4

-----------------------------------------------------------------------------
(* The queue *)

\* Blocks a test leaves: what its receiveBlock and its timeout dispatched
Receives(b, S) == b.op = "receive" /\ b.test \in S
Leaves(b, S) == b.op \in {"receive", "timeout"} /\ b.test \in S

AllLeave(q, S) == \A k \in 1..Len(q) : Leaves(q[k], S)
AllReceive(q, S) == \A k \in 1..Len(q) : Receives(q[k], S)

\* The block that goes on after test t is at k, and nothing follows it but
\* what the socket still received for the tests of S.
NextAt(q, k, t, S) ==
  /\ k \in 1..Len(q)
  /\ q[k] = [op |-> "next", test |-> t]
  /\ \A j \in 1..Len(q) : j < k => Leaves(q[j], S)
  /\ \A j \in 1..Len(q) : j > k => Receives(q[j], S)

HasNext(q, t, S) == \E k \in 1..Len(q) : NextAt(q, k, t, S)

\* What happens to these when a block is added
LEMMA AddBlock ==
  ASSUME NEW q \in Seq(Block), NEW b \in Block, NEW t \in Test, NEW S
  PROVE  /\ Append(q, b) \in Seq(Block)
         /\ AllLeave(q, S) /\ Leaves(b, S) => AllLeave(Append(q, b), S)
         /\ AllReceive(q, S) /\ Receives(b, S) => AllReceive(Append(q, b), S)
         /\ HasNext(q, t, S) /\ Receives(b, S) => HasNext(Append(q, b), t, S)
         /\ AllLeave(q, S) /\ b = [op |-> "next", test |-> t] => HasNext(Append(q, b), t, S)
  <1> DEFINE p == Append(q, b)
             n == Len(q)
  <1>1. /\ p \in Seq(Block) /\ Len(p) = n + 1 /\ n \in Nat
        /\ p[n + 1] = b /\ \A k \in 1..n : p[k] = q[k]
    BY AppendProperties, LenProperties
  <1>2. \A k \in 1..Len(p) : k \in 1..n \/ k = n + 1
    BY <1>1
  <1>3. \A k \in 1..n : k \in 1..Len(p) /\ k < n + 1
    BY <1>1
  <1>4. n + 1 \in 1..Len(p)
    BY <1>1
  <1> HIDE DEF p, n
  <1>5. AllLeave(q, S) /\ Leaves(b, S) => AllLeave(p, S)
    BY <1>1, <1>2 DEF AllLeave, n
  <1>6. AllReceive(q, S) /\ Receives(b, S) => AllReceive(p, S)
    BY <1>1, <1>2 DEF AllReceive, n
  <1>7. ASSUME HasNext(q, t, S), Receives(b, S) PROVE HasNext(p, t, S)
    <2>1. PICK k \in 1..n : NextAt(q, k, t, S)
      BY <1>7 DEF HasNext, n
    <2>2. k \in 1..Len(p) /\ p[k] = q[k] /\ ~(n + 1 < k)
      BY <1>1, <1>3
    <2>3. ASSUME NEW j \in 1..Len(p), j < k PROVE Leaves(p[j], S)
      <3>1. j \in 1..n
        BY <1>2, <2>2, <2>3
      <3>2. QED
        BY <1>1, <2>1, <2>3, <3>1 DEF NextAt, n
    <2>4. ASSUME NEW j \in 1..Len(p), j > k PROVE Receives(p[j], S)
      <3>1. CASE j = n + 1
        BY <1>1, <1>7, <3>1
      <3>2. CASE j \in 1..n
        BY <1>1, <2>1, <2>4, <3>2 DEF NextAt, n
      <3>3. QED
        BY <1>2, <3>1, <3>2
    <2>5. NextAt(p, k, t, S)
      BY <2>1, <2>2, <2>3, <2>4 DEF NextAt
    <2>6. QED
      BY <2>2, <2>5 DEF HasNext
  <1>8. ASSUME AllLeave(q, S), b = [op |-> "next", test |-> t] PROVE HasNext(p, t, S)
    <2>1. ASSUME NEW j \in 1..Len(p), j < n + 1 PROVE Leaves(p[j], S)
      <3>1. j \in 1..n
        BY <1>1, <1>2, <2>1
      <3>2. QED
        BY <1>1, <1>8, <3>1 DEF AllLeave, n
    <2>2. \A j \in 1..Len(p) : ~(j > n + 1)
      BY <1>1
    <2>3. NextAt(p, n + 1, t, S)
      BY <1>1, <1>4, <1>8, <2>1, <2>2 DEF NextAt
    <2>4. QED
      BY <1>4, <2>3 DEF HasNext
  <1>9. QED
    BY <1>1, <1>5, <1>6, <1>7, <1>8 DEF p

\* What happens when the first block has run
LEMMA DropBlock ==
  ASSUME NEW q \in Seq(Block), q # << >>, NEW t \in Test, NEW S
  PROVE  /\ Head(q) \in Block /\ Tail(q) \in Seq(Block)
         /\ AllLeave(q, S) => Leaves(Head(q), S) /\ AllLeave(Tail(q), S)
         /\ AllReceive(q, S) => Receives(Head(q), S) /\ AllReceive(Tail(q), S)
         /\ HasNext(q, t, S) /\ Head(q).op = "next" =>
              Head(q).test = t /\ AllReceive(Tail(q), S)
         /\ HasNext(q, t, S) /\ Head(q).op # "next" =>
              Leaves(Head(q), S) /\ HasNext(Tail(q), t, S)
  <1> DEFINE p == Tail(q)
             n == Len(q)
  <1>1. /\ Head(q) \in Block /\ p \in Seq(Block) /\ Len(p) = n - 1
        /\ \A k \in 1..Len(p) : p[k] = q[k + 1]
    BY HeadTailProperties
  <1>2. n \in Nat /\ n # 0 /\ Head(q) = q[1]
    BY LenProperties
  <1>3. 1 \in 1..n /\ \A k \in 1..Len(p) : k + 1 \in 1..n
    BY <1>1, <1>2
  <1> HIDE DEF p, n
  <1>4. AllLeave(q, S) => Leaves(Head(q), S) /\ AllLeave(p, S)
    BY <1>1, <1>2, <1>3 DEF AllLeave, n
  <1>5. AllReceive(q, S) => Receives(Head(q), S) /\ AllReceive(p, S)
    BY <1>1, <1>2, <1>3 DEF AllReceive, n
  <1>6. ASSUME HasNext(q, t, S), Head(q).op = "next"
        PROVE  Head(q).test = t /\ AllReceive(p, S)
    <2>1. PICK k \in 1..n : NextAt(q, k, t, S)
      BY <1>6 DEF HasNext, n
    <2>2. k = 1
      <3>1. ASSUME k # 1 PROVE FALSE
        <4>1. 1 < k
          BY <1>2, <3>1
        <4>2. Leaves(q[1], S)
          BY <1>3, <2>1, <4>1 DEF NextAt, n
        <4>3. QED
          BY <1>2, <1>6, <4>2 DEF Leaves
      <3>2. QED
        BY <3>1
    <2>3. \A j \in 1..Len(p) : j + 1 > 1
      BY <1>2
    <2>4. AllReceive(p, S)
      BY <1>1, <1>3, <2>1, <2>2, <2>3 DEF AllReceive, NextAt, n
    <2>5. Head(q).test = t
      BY <1>2, <2>1, <2>2 DEF NextAt
    <2>6. QED
      BY <2>4, <2>5
  <1>7. ASSUME HasNext(q, t, S), Head(q).op # "next"
        PROVE  Leaves(Head(q), S) /\ HasNext(p, t, S)
    <2>1. PICK k \in 1..n : NextAt(q, k, t, S)
      BY <1>7 DEF HasNext, n
    <2>2. k # 1
      BY <1>2, <1>7, <2>1 DEF NextAt
    <2>3. 1 < k /\ k - 1 \in 1..Len(p) /\ (k - 1) + 1 = k
      BY <1>1, <1>2, <2>2
    <2>4. Leaves(Head(q), S)
      BY <1>2, <1>3, <2>1, <2>3 DEF NextAt, n
    <2>5. \A j \in 1..Len(p) : (j < k - 1 => j + 1 < k) /\ (j > k - 1 => j + 1 > k)
      BY <1>1, <1>2
    <2>6. NextAt(p, k - 1, t, S)
      <3>1. p[k - 1] = [op |-> "next", test |-> t]
        BY <1>1, <2>1, <2>3 DEF NextAt
      <3>2. \A j \in 1..Len(p) : j < k - 1 => Leaves(p[j], S)
        BY <1>1, <1>3, <2>1, <2>5 DEF NextAt, n
      <3>3. \A j \in 1..Len(p) : j > k - 1 => Receives(p[j], S)
        BY <1>1, <1>3, <2>1, <2>5 DEF NextAt, n
      <3>4. QED
        BY <2>3, <3>1, <3>2, <3>3 DEF NextAt
    <2>7. QED
      BY <2>3, <2>4, <2>6 DEF HasNext
  <1>8. QED
    BY <1>1, <1>4, <1>5, <1>6, <1>7 DEF p

-----------------------------------------------------------------------------
(* How far the client is.  A test is running, or the block that goes on    *)
(* after it waits in the queue, never both and never twice.                *)

\* The tests after the nth were not sent
Fresh(n) == \A j \in 1..5 : j > n => inFlight[Tests[j]] = 0 /\ retries[Tests[j]] = 0

\* stunResolve was not called
Ready ==
  /\ outcome = "idle" /\ notices = 0
  /\ queue = << >>
  /\ completed = {} /\ timer = {} /\ receiver = "none"
  /\ Fresh(0)

\* Its block waits
Asked ==
  /\ outcome = "resolving" /\ notices = 0
  /\ queue = <<[op |-> "resolve"]>>
  /\ completed = {} /\ timer = {} /\ receiver = "none"
  /\ Fresh(0)

\* The nth test was sent
Running(n) ==
  /\ outcome = "resolving" /\ notices = 0
  /\ AllLeave(queue, Done(n))
  /\ completed = Done(n - 1) /\ timer \subseteq {Tests[n]} /\ receiver = Tests[n]
  /\ Fresh(n)

\* The nth test completed and the next is not started
Between(n) ==
  /\ outcome = "resolving" /\ notices = 0
  /\ HasNext(queue, Tests[n], Done(n))
  /\ completed = Done(n) /\ timer = {} /\ receiver \in Done(n) \cup {"none"}
  /\ Fresh(n)

\* The application was told
Told ==
  /\ outcome \in {"resolved", "failed"} /\ notices = 1
  /\ AllReceive(queue, completed)
  /\ timer = {} /\ receiver \in completed \cup {"none"}

Typed ==
  /\ TypeOK
  /\ queue \in Seq(Block)
  /\ \A t \in Test : inFlight[t] <= retries[t] + 1
  /\ destroyed => outcome \in {"resolved", "failed"}

Phased == Ready \/ Asked \/ (\E n \in 1..5 : Running(n) \/ Between(n)) \/ Told

ControlInv == Typed /\ Phased

LEMMA AddrFacts ==
  /\ \A t \in Test : Dest(t) \in Addr /\ Origin(t) \in Addr
  /\ Addr = {Primary, Other, OtherPrimaryPort, OtherPrimaryHost}
  <1>1. \A t : Dest(t) \in {OtherPrimaryPort, Other, Primary}
    BY DEF Dest
  <1>2. \A t : Origin(t) \in {Other, OtherPrimaryHost} \cup {Dest(t)}
    BY DEF Origin
  <1>3. QED
    BY <1>1, <1>2 DEF Addr

\* The blocks the client dispatches
LEMMA BlockFacts ==
  /\ [op |-> "resolve"] \in Block
  /\ \A t \in Test : [op |-> "next", test |-> t] \in Block
  /\ \A t \in Test : [op |-> "timeout", test |-> t] \in Block
  /\ \A t \in Test, p \in Packet : [op |-> "receive", test |-> t, packet |-> p] \in Block
  /\ \A b \in Block : b.op \in {"next", "timeout"} => b.test \in Test
  /\ \A b \in Block : b.op = "receive" => b.test \in Test /\ b.packet \in Packet
  /\ [kind |-> "foreign"] \in Packet
  /\ \A t \in Test, k \in {"address", "error"}, a \in Addr :
       [kind |-> k, id |-> t, from |-> a] \in Packet
  <1>1. [kind |-> "foreign"] \in Packet
    BY DEF Packet
  <1>2. \A t \in Test, k \in {"address", "error"}, a \in Addr :
          [kind |-> k, id |-> t, from |-> a] \in Packet
    BY DEF Packet
  <1> HIDE DEF Packet
  <1>3. [op |-> "resolve"] \in Block
    BY DEF Block
  <1>4. \A t \in Test : [op |-> "next", test |-> t] \in Block
    BY DEF Block
  <1>5. \A t \in Test : [op |-> "timeout", test |-> t] \in Block
    BY DEF Block
  <1>6. \A t \in Test, p \in Packet : [op |-> "receive", test |-> t, packet |-> p] \in Block
    BY DEF Block
  <1>7. \A b \in Block : b.op \in {"next", "timeout"} => b.test \in Test
    BY DEF Block
  <1>8. \A b \in Block : b.op = "receive" => b.test \in Test /\ b.packet \in Packet
    BY DEF Block
  <1>9. QED
    BY <1>1, <1>2, <1>3, <1>4, <1>5, <1>6, <1>7, <1>8

LEMMA LeavesFacts ==
  ASSUME NEW q \in Seq(Block), NEW S, NEW T, S \subseteq T
  PROVE  /\ AllReceive(q, S) => AllLeave(q, T)
         /\ AllReceive(q, S) => AllReceive(q, T)
         /\ AllLeave(q, S) => AllLeave(q, T)
  BY DEF AllReceive, AllLeave, Receives, Leaves

LEMMA PhasesStart == Init => ControlInv
  <1> SUFFICES ASSUME Init PROVE ControlInv
    OBVIOUS
  <1>1. TypeOK
    <2>1. inFlight \in [Test -> 0..(MaxRetries + 1)] /\ retries \in [Test -> 0..MaxRetries]
      BY StunAssumption DEF Init
    <2>2. foreign \in 0..MaxForeign
      BY StunAssumption DEF Init
    <2>3. \A i \in 1..Len(queue) : queue[i] \in Block
      BY DEF Init
    <2>4. QED
      BY <2>1, <2>2, <2>3 DEF Init, TypeOK
  <1>2. \A t \in Test : inFlight[t] <= retries[t] + 1
    BY DEF Init
  <1>3. queue \in Seq(Block)
    BY DEF Init
  <1>4. Fresh(0)
    BY TestFacts DEF Init, Fresh
  <1>5. QED
    BY <1>1, <1>2, <1>3, <1>4 DEF Init, ControlInv, Typed, Phased, Ready

-----------------------------------------------------------------------------
(* The steps *)

\* A queue of blocks is what TypeOK asks of it.
LEMMA QueueTyped ==
  ASSUME NEW q \in Seq(Block) PROVE \A i \in 1..Len(q) : q[i] \in Block
  BY ElementOfSeq

\* A test that completes leaves the block that goes on after it.
LEMMA Completes ==
  ASSUME Typed, NEW n \in 1..5, NEW new,
         outcome = "resolving", notices = 0,
         queue # << >>, AllLeave(Tail(queue), Done(n)),
         completed = Done(n - 1), timer \subseteq {Tests[n]},
         receiver \in Done(n) \cup {"none"}, Fresh(n),
         stunTestSetComplete(Tests[n], new),
         UNCHANGED <<outcome, notices, destroyed>>, crashed' \in BOOLEAN
  PROVE  Typed' /\ Between(n)'
  <1> DEFINE b == [op |-> "next", test |-> Tests[n]]
  <1>1. Tests[n] \in Test /\ b \in Block
    BY TestFacts, BlockFacts
  <1>2. completed' = Done(n) /\ Done(n) \subseteq Test
    <2>1. n - 1 \in 0..4 /\ (n - 1) + 1 = n /\ n \in 0..5
      OBVIOUS
    <2>2. Done(n) = Done(n - 1) \cup {Tests[n]}
      BY <2>1, DoneFacts
    <2>3. QED
      BY <2>1, <2>2, DoneFacts DEF stunTestSetComplete
  <1>3. Tail(queue) \in Seq(Block)
    BY <1>1, DropBlock DEF Typed
  <1>4. queue' \in Seq(Block) /\ HasNext(queue', Tests[n], Done(n))
    BY <1>1, <1>3, AddBlock DEF stunTestSetComplete
  <1>5. \A i \in 1..Len(queue') : queue'[i] \in Block
    BY <1>4, QueueTyped
  <1>6. timer' = {} /\ UNCHANGED <<network, receiver, retries>>
    BY DEF stunTestSetComplete
  <1>7. TypeOK'
    BY <1>2, <1>5, <1>6 DEF Typed, TypeOK, network
  <1>8. Typed'
    BY <1>4, <1>6, <1>7 DEF Typed, network
  <1>9. Fresh(n)'
    BY <1>6 DEF Fresh, network
  <1>10. Between(n)'
    BY <1>2, <1>4, <1>6, <1>9 DEF Between
  <1>11. QED
    BY <1>8, <1>10

\* A test that is sent runs.
LEMMA Sends ==
  ASSUME Typed, NEW n \in 1..5,
         outcome = "resolving", notices = 0,
         queue # << >>, AllLeave(Tail(queue), Done(n)),
         completed = Done(n - 1), timer = {}, Fresh(n - 1),
         stunTestSend(Tests[n]),
         UNCHANGED <<outcome, notices, destroyed>>, crashed' \in BOOLEAN
  PROVE  Typed' /\ Running(n)'
  <1>1. Tests[n] \in Test /\ Dest(Tests[n]) \in Addr
    BY TestFacts, AddrFacts
  <1>2. queue' \in Seq(Block) /\ AllLeave(queue', Done(n))
    BY <1>1, DropBlock DEF Typed, stunTestSend
  <1>3. \A i \in 1..Len(queue') : queue'[i] \in Block
    BY <1>2, QueueTyped
  <1>4. /\ receiver' = Tests[n] /\ timer' = {Tests[n]}
        /\ contacted' = contacted \cup {Dest(Tests[n])}
        /\ inFlight' = [inFlight EXCEPT ![Tests[n]] = @ + 1]
        /\ UNCHANGED <<foreign, completed, retries>>
    BY DEF stunTestSend
  <1>5. inFlight[Tests[n]] = 0 /\ retries[Tests[n]] = 0
    <2>1. n > n - 1
      OBVIOUS
    <2>2. QED
      BY <2>1 DEF Fresh
  <1>6. /\ inFlight \in [Test -> 0..(MaxRetries + 1)] /\ MaxRetries \in Nat
        /\ retries \in [Test -> 0..MaxRetries]
    BY StunAssumption DEF Typed, TypeOK
  <1>7. inFlight' = [inFlight EXCEPT ![Tests[n]] = 1]
    BY <1>4, <1>5
  <1>8. inFlight' \in [Test -> 0..(MaxRetries + 1)]
    BY <1>1, <1>6, <1>7
  <1>9. \A t \in Test : inFlight'[t] <= retries'[t] + 1
    BY <1>1, <1>4, <1>5, <1>6, <1>7 DEF Typed
  <1>10. Fresh(n)'
    <2>1. ASSUME NEW j \in 1..5, j > n
          PROVE  inFlight'[Tests[j]] = 0 /\ retries'[Tests[j]] = 0
      <3>1. Tests[j] \in Test /\ Tests[j] # Tests[n]
        BY <2>1, TestFacts
      <3>2. j > n - 1
        BY <2>1
      <3>3. inFlight[Tests[j]] = 0 /\ retries[Tests[j]] = 0
        BY <3>2 DEF Fresh
      <3>4. QED
        BY <1>4, <1>6, <1>7, <3>1, <3>3
    <2>2. QED
      BY <2>1 DEF Fresh
  <1>11. TypeOK'
    BY <1>1, <1>3, <1>4, <1>8 DEF Typed, TypeOK
  <1>12. Typed'
    BY <1>2, <1>9, <1>11 DEF Typed
  <1>13. Running(n)'
    BY <1>2, <1>4, <1>10 DEF Running
  <1>14. QED
    BY <1>12, <1>13

LEMMA Starts ==
  ASSUME Typed, NEW n \in 1..5,
         outcome = "resolving", notices = 0,
         queue # << >>, AllLeave(Tail(queue), Done(n)),
         completed = Done(n - 1), timer = {},
         receiver \in Done(n) \cup {"none"}, Fresh(n - 1),
         Start(Tests[n]),
         UNCHANGED <<outcome, notices, destroyed>>, crashed' \in BOOLEAN
  PROVE  Typed' /\ (Running(n) \/ Between(n))'
  <1>1. Fresh(n)
    <2>1. \A j \in 1..5 : j > n => j > n - 1
      OBVIOUS
    <2>2. QED
      BY <2>1 DEF Fresh
  <1>2. CASE Settled(Tests[n])
    <2>1. stunTestSetComplete(Tests[n], SettledResults(Tests[n]))
      BY <1>2 DEF Start
    <2> DEFINE new == SettledResults(Tests[n])
    <2> HIDE DEF new
    <2>2. stunTestSetComplete(Tests[n], new)
      BY <2>1 DEF new
    <2>3. timer \subseteq {Tests[n]}
      OBVIOUS
    <2>4. QED
      BY <1>1, <2>2, <2>3, Completes
  <1>3. CASE ~Settled(Tests[n])
    <2>1. stunTestSend(Tests[n])
      BY <1>3 DEF Start
    <2>2. QED
      BY <2>1, Sends
  <1>4. QED
    BY <1>2, <1>3

\* Which blocks can be the first, and what then follows
LEMMA FirstBlock ==
  ASSUME ControlInv, queue # << >>
  PROVE  /\ Head(queue) \in Block /\ Tail(queue) \in Seq(Block)
         /\ Head(queue).op = "resolve" => Asked
         /\ Head(queue).op = "next" =>
              \E n \in 1..5 : /\ Between(n) /\ Head(queue).test = Tests[n]
                              /\ AllReceive(Tail(queue), Done(n))
         /\ Head(queue).op \in {"receive", "timeout"} =>
              \/ \E n \in 1..5 : /\ Leaves(Head(queue), Done(n))
                                 /\ \/ Running(n) /\ AllLeave(Tail(queue), Done(n))
                                    \/ Between(n) /\ HasNext(Tail(queue), Tests[n], Done(n))
              \/ /\ Told /\ Receives(Head(queue), completed)
                 /\ AllReceive(Tail(queue), completed)
  <1>0. queue \in Seq(Block) /\ Phased
    BY DEF ControlInv, Typed
  <1>1. Head(queue) \in Block /\ Tail(queue) \in Seq(Block)
    BY <1>0, HeadTailProperties
  <1>2. ~Ready
    BY DEF Ready
  <1>3. Asked => Head(queue).op = "resolve"
    BY DEF Asked
  <1>4. ASSUME NEW n \in 1..5, Running(n)
        PROVE  Leaves(Head(queue), Done(n)) /\ AllLeave(Tail(queue), Done(n))
    BY <1>0, <1>4, TestFacts, DropBlock DEF Running
  <1>5. ASSUME NEW n \in 1..5, Between(n)
        PROVE  /\ Head(queue).op = "next" =>
                    Head(queue).test = Tests[n] /\ AllReceive(Tail(queue), Done(n))
               /\ Head(queue).op # "next" =>
                    Leaves(Head(queue), Done(n)) /\ HasNext(Tail(queue), Tests[n], Done(n))
    BY <1>0, <1>5, TestFacts, DropBlock DEF Between
  <1>6. Told => Receives(Head(queue), completed) /\ AllReceive(Tail(queue), completed)
    BY <1>0, TestFacts, DropBlock DEF Told
  <1>7. \A S : Leaves(Head(queue), S) => Head(queue).op \in {"receive", "timeout"}
    BY DEF Leaves
  <1>8. \A S : Receives(Head(queue), S) => Head(queue).op = "receive"
    BY DEF Receives
  <1>9. Head(queue).op = "resolve" => Asked
    BY <1>0, <1>2, <1>4, <1>5, <1>6, <1>7, <1>8 DEF Phased
  <1>10. Head(queue).op = "next" =>
           \E n \in 1..5 : /\ Between(n) /\ Head(queue).test = Tests[n]
                           /\ AllReceive(Tail(queue), Done(n))
    BY <1>0, <1>2, <1>3, <1>4, <1>5, <1>6, <1>7, <1>8 DEF Phased
  <1>11. ASSUME Head(queue).op \in {"receive", "timeout"}
         PROVE  \/ \E n \in 1..5 :
                     /\ Leaves(Head(queue), Done(n))
                     /\ \/ Running(n) /\ AllLeave(Tail(queue), Done(n))
                        \/ Between(n) /\ HasNext(Tail(queue), Tests[n], Done(n))
                \/ /\ Told /\ Receives(Head(queue), completed)
                   /\ AllReceive(Tail(queue), completed)
    BY <1>0, <1>2, <1>3, <1>4, <1>5, <1>6, <1>11 DEF Phased
  <1>12. QED
    BY <1>1, <1>9, <1>10, <1>11

\* A block that does nothing but go
LEMMA Dropped ==
  ASSUME ControlInv, queue # << >>, Head(queue).op \in {"receive", "timeout"},
         queue' = Tail(queue), timer' \subseteq timer, crashed' \in BOOLEAN,
         UNCHANGED <<network, receiver, completed, retries, outcome, notices, destroyed>>
  PROVE  ControlInv'
  <1>1. Tail(queue) \in Seq(Block) /\ Typed
    BY FirstBlock DEF ControlInv
  <1>2. \A i \in 1..Len(queue') : queue'[i] \in Block
    BY <1>1, QueueTyped
  <1>3. TypeOK'
    BY <1>1, <1>2 DEF Typed, TypeOK, network
  <1>4. Typed'
    BY <1>1, <1>3 DEF Typed, network
  <1>5. \A n : Fresh(n) => Fresh(n)'
    BY DEF Fresh, network
  <1>6. ASSUME NEW n \in 1..5, Running(n), AllLeave(Tail(queue), Done(n)) PROVE Running(n)'
    BY <1>5, <1>6 DEF Running
  <1>7. ASSUME NEW n \in 1..5, Between(n), HasNext(Tail(queue), Tests[n], Done(n))
        PROVE  Between(n)'
    BY <1>5, <1>7 DEF Between
  <1>8. Told /\ AllReceive(Tail(queue), completed) => Told'
    BY DEF Told
  <1>9. Phased'
    BY <1>6, <1>7, <1>8, FirstBlock DEF Phased
  <1>10. QED
    BY <1>4, <1>9 DEF ControlInv

LEMMA ResolvePhases ==
  ASSUME ControlInv, NEW dns \in BOOLEAN, RunResolve(dns) PROVE ControlInv'
  <1>1. Asked /\ Typed
    BY FirstBlock DEF RunResolve, Runs, ControlInv
  <1>2. queue # << >> /\ Tail(queue) = << >>
    BY <1>1 DEF Asked, RunResolve, Runs
  <1>3. crashed' \in BOOLEAN /\ UNCHANGED <<destroyed, crashed>>
    BY <1>1 DEF RunResolve, Typed, TypeOK
  <1>4. CASE dns
    <2>1. Tests[1] = "binding1" /\ 1 - 1 = 0 /\ 1 \in 1..5 /\ Done(0) = {}
      BY TestFacts, DoneFacts
    <2>2. AllLeave(Tail(queue), Done(1))
      <3>1. Len(Tail(queue)) = 0
        BY <1>1 DEF Asked
      <3>2. QED
        BY <3>1 DEF AllLeave
    <2>3. Start(Tests[1]) /\ UNCHANGED <<outcome, notices, destroyed>>
      BY <1>4, <2>1 DEF RunResolve
    <2>4. /\ outcome = "resolving" /\ notices = 0 /\ completed = Done(1 - 1) /\ timer = {}
          /\ receiver \in Done(1) \cup {"none"} /\ Fresh(1 - 1)
      BY <1>1, <2>1 DEF Asked
    <2>5. Typed' /\ (Running(1) \/ Between(1))'
      BY <1>1, <1>2, <1>3, <2>1, <2>2, <2>3, <2>4, Starts
    <2>6. QED
      BY <2>1, <2>5 DEF ControlInv, Phased
  <1>5. CASE ~dns
    <2>1. /\ outcome' = "failed" /\ notices' = 1 /\ queue' = << >>
          /\ UNCHANGED <<network, tests, destroyed, crashed>>
      BY <1>1, <1>2, <1>5 DEF RunResolve, Notify, Asked
    <2>2. TypeOK'
      BY <1>1, <2>1 DEF Typed, TypeOK, network, tests
    <2>3. Typed'
      BY <1>1, <2>1, <2>2 DEF Typed, network, tests
    <2>4. Told'
      BY <1>1, <2>1 DEF Asked, Told, AllReceive, tests
    <2>5. QED
      BY <2>3, <2>4 DEF ControlInv, Phased
  <1>6. QED
    BY <1>4, <1>5

LEMMA NextTestPhases ==
  ASSUME ControlInv, RunNextTest PROVE ControlInv'
  <1>1. queue # << >> /\ Head(queue).op = "next"
    BY DEF RunNextTest, Runs
  <1>2. PICK n \in 1..5 : /\ Between(n) /\ Head(queue).test = Tests[n]
                          /\ AllReceive(Tail(queue), Done(n))
    BY <1>1, FirstBlock
  <1>3. PICK i \in 1..(Len(Tests) - 1) : Tests[i] = Head(queue).test /\ Start(Tests[i + 1])
    BY DEF RunNextTest
  <1>4. i \in 1..4 /\ i \in 1..5 /\ i \in 0..4 /\ i + 1 \in 1..5 /\ (i + 1) - 1 = i
    BY <1>3, TestFacts
  <1>5. i = n
    BY <1>2, <1>3, <1>4, TestFacts
  <1>6. Typed /\ Tail(queue) \in Seq(Block)
    BY <1>1, FirstBlock DEF ControlInv
  <1>7. Done(n) \subseteq Done(i + 1)
    BY <1>4, <1>5, DoneFacts
  <1>8. AllLeave(Tail(queue), Done(i + 1))
    BY <1>2, <1>6, <1>7, LeavesFacts
  <1>9. /\ outcome = "resolving" /\ notices = 0 /\ completed = Done((i + 1) - 1)
        /\ timer = {} /\ receiver \in Done(i + 1) \cup {"none"} /\ Fresh((i + 1) - 1)
    BY <1>2, <1>4, <1>5, <1>7 DEF Between
  <1>10. UNCHANGED <<outcome, notices, destroyed>> /\ crashed' \in BOOLEAN
    BY <1>6 DEF RunNextTest, Typed, TypeOK
  <1>11. Typed' /\ (Running(i + 1) \/ Between(i + 1))'
    BY <1>1, <1>3, <1>4, <1>6, <1>8, <1>9, <1>10, Starts
  <1>12. QED
    BY <1>4, <1>11 DEF ControlInv, Phased

LEMMA ReportPhases ==
  ASSUME ControlInv, RunReport PROVE ControlInv'
  <1>1. queue # << >> /\ Head(queue).op = "next" /\ Head(queue).test = Tests[5]
    BY TestFacts DEF RunReport, Runs
  <1>2. PICK n \in 1..5 : /\ Between(n) /\ Head(queue).test = Tests[n]
                          /\ AllReceive(Tail(queue), Done(n))
    BY <1>1, FirstBlock
  <1>3. n = 5
    BY <1>1, <1>2, TestFacts
  <1>4. Typed /\ Tail(queue) \in Seq(Block)
    BY <1>1, FirstBlock DEF ControlInv
  <1>5. /\ outcome' \in {"resolved", "failed"} /\ notices' = 1
        /\ queue' = Tail(queue) /\ receiver' \in {"none", receiver}
        /\ UNCHANGED <<network, completed, retries, timer, destroyed, crashed>>
    BY <1>2 DEF RunReport, Notify, Between
  <1>6. \A k \in 1..Len(queue') : queue'[k] \in Block
    BY <1>4, <1>5, QueueTyped
  <1>7. TypeOK'
    BY <1>4, <1>5, <1>6 DEF Typed, TypeOK, network
  <1>8. Typed'
    BY <1>4, <1>5, <1>7 DEF Typed, network
  <1>9. Told'
    BY <1>2, <1>5 DEF Between, Told
  <1>10. QED
    BY <1>8, <1>9 DEF ControlInv, Phased

\* A test whose block runs and is not completed is the one that is running.
LEMMA OpenTest ==
  ASSUME ControlInv, queue # << >>, Head(queue).op \in {"receive", "timeout"},
         Head(queue).test \notin completed
  PROVE  /\ ~destroyed
         /\ \E n \in 1..5 : /\ Running(n) /\ Head(queue).test = Tests[n]
                            /\ AllLeave(Tail(queue), Done(n))
  <1>1. \A S : Leaves(Head(queue), S) => Head(queue).test \in S
    BY DEF Leaves
  <1>2. ~(Told /\ Receives(Head(queue), completed))
    BY DEF Receives
  <1>3. PICK n \in 1..5 : /\ Head(queue).test \in Done(n)
                          /\ \/ Running(n) /\ AllLeave(Tail(queue), Done(n))
                             \/ Between(n)
    BY <1>1, <1>2, FirstBlock
  <1>4. Running(n) /\ AllLeave(Tail(queue), Done(n))
    BY <1>3 DEF Between
  <1>5. n - 1 \in 0..4 /\ (n - 1) + 1 = n
    OBVIOUS
  <1>6. Done(n) = Done(n - 1) \cup {Tests[n]}
    BY <1>5, DoneFacts
  <1>7. Head(queue).test = Tests[n]
    BY <1>3, <1>4, <1>6 DEF Running
  <1>8. ~destroyed
    BY <1>4 DEF Running, ControlInv, Typed
  <1>9. QED
    BY <1>4, <1>7, <1>8

LEMMA OpenCompletes ==
  ASSUME ControlInv, queue # << >>, Head(queue).op \in {"receive", "timeout"},
         Head(queue).test \notin completed, NEW new,
         stunTestSetComplete(Head(queue).test, new),
         UNCHANGED <<outcome, notices, destroyed>>, crashed' \in BOOLEAN
  PROVE  ControlInv'
  <1>1. PICK n \in 1..5 : /\ Running(n) /\ Head(queue).test = Tests[n]
                          /\ AllLeave(Tail(queue), Done(n))
    BY OpenTest
  <1>2. n - 1 \in 0..4 /\ (n - 1) + 1 = n
    OBVIOUS
  <1>3. Tests[n] \in Done(n)
    BY <1>2, DoneFacts
  <1>4. /\ outcome = "resolving" /\ notices = 0 /\ completed = Done(n - 1)
        /\ timer \subseteq {Tests[n]} /\ receiver \in Done(n) \cup {"none"} /\ Fresh(n)
    BY <1>1, <1>3 DEF Running
  <1>5. Typed /\ stunTestSetComplete(Tests[n], new)
    BY <1>1 DEF ControlInv
  <1>6. Typed' /\ Between(n)'
    BY <1>1, <1>4, <1>5, Completes
  <1>7. QED
    BY <1>6 DEF ControlInv, Phased

LEMMA ReceivePhases ==
  ASSUME ControlInv, RunReceive PROVE ControlInv'
  <1> DEFINE t == Head(queue).test
             packet == Head(queue).packet
             stun == t \notin completed /\ packet.kind # "foreign"
             new == ResponseResults(t, packet)
  <1>1. queue # << >> /\ Head(queue).op \in {"receive", "timeout"}
    BY DEF RunReceive, Runs
  <1>2. crashed' \in BOOLEAN /\ UNCHANGED <<outcome, notices, destroyed>>
    BY DEF RunReceive
  <1>3. CASE stun /\ packet.id = t
    <2>1. stunTestSetComplete(t, new)
      BY <1>3 DEF RunReceive
    <2>2. t \notin completed
      BY <1>3
    <2> HIDE DEF new
    <2>3. QED
      BY <1>1, <1>2, <2>1, <2>2, OpenCompletes
  <1>4. CASE ~(stun /\ packet.id = t)
    <2>1. /\ timer' = IF stun THEN timer \ {t} ELSE timer
          /\ queue' = Tail(queue)
          /\ UNCHANGED <<network, receiver, completed, retries, results>>
      BY <1>4 DEF RunReceive
    <2>2. timer' \subseteq timer
      BY <2>1
    <2>3. QED
      BY <1>1, <1>2, <2>1, <2>2, Dropped
  <1>5. QED
    BY <1>3, <1>4

LEMMA TimeoutPhases ==
  ASSUME ControlInv, RunTimeout PROVE ControlInv'
  <1> DEFINE t == Head(queue).test
             new == FailedResults(t)
  <1>1. queue # << >> /\ Head(queue).op \in {"receive", "timeout"}
    BY DEF RunTimeout, Runs
  <1>2. crashed' \in BOOLEAN /\ UNCHANGED <<outcome, notices, destroyed>>
    BY DEF RunTimeout, ControlInv, Typed, TypeOK
  <1>3. CASE t \in completed
    <2>1. queue' = Tail(queue) /\ UNCHANGED <<network, tests>>
      BY <1>3 DEF RunTimeout
    <2>2. timer' \subseteq timer /\ UNCHANGED <<receiver, completed, retries>>
      BY <2>1 DEF tests
    <2>3. QED
      BY <1>1, <1>2, <2>1, <2>2, Dropped
  <1>4. CASE t \notin completed /\ ~MayRetry(t)
    <2>1. stunTestSetComplete(t, new)
      BY <1>4 DEF RunTimeout
    <2>2. t \notin completed
      BY <1>4
    <2> HIDE DEF new
    <2>3. QED
      BY <1>1, <1>2, <2>1, <2>2, OpenCompletes
  <1>5. CASE t \notin completed /\ MayRetry(t)
    <2>1. /\ retries' = [retries EXCEPT ![t] = @ + 1]
          /\ timer' = timer \cup {t}
          /\ inFlight' = [inFlight EXCEPT ![t] = @ + 1]
          /\ queue' = Tail(queue)
          /\ UNCHANGED <<nat, contacted, foreign, receiver, completed, results>>
      BY <1>5 DEF RunTimeout
    <2>2. PICK n \in 1..5 : /\ Running(n) /\ t = Tests[n]
                            /\ AllLeave(Tail(queue), Done(n))
      BY <1>1, <1>5, OpenTest
    <2>3. t \in Test
      BY <2>2, TestFacts
    <2>4. /\ Typed /\ MaxRetries \in Nat
          /\ inFlight \in [Test -> 0..(MaxRetries + 1)]
          /\ retries \in [Test -> 0..MaxRetries]
      BY StunAssumption DEF ControlInv, Typed, TypeOK
    <2>5. retries[t] < MaxRetries /\ inFlight[t] <= retries[t] + 1
      BY <1>5, <2>3, <2>4 DEF MayRetry, Typed
    <2>6. /\ retries[t] + 1 \in 0..MaxRetries /\ inFlight[t] + 1 \in 0..(MaxRetries + 1)
          /\ inFlight[t] + 1 <= (retries[t] + 1) + 1
      BY <2>3, <2>4, <2>5
    <2>7. inFlight' \in [Test -> 0..(MaxRetries + 1)] /\ retries' \in [Test -> 0..MaxRetries]
      BY <2>1, <2>3, <2>4, <2>6
    <2>8. \A u \in Test : inFlight'[u] <= retries'[u] + 1
      BY <2>1, <2>3, <2>4, <2>6 DEF Typed
    <2>9. Tail(queue) \in Seq(Block)
      BY <1>1, FirstBlock
    <2>10. \A i \in 1..Len(queue') : queue'[i] \in Block
      BY <2>1, <2>9, QueueTyped
    <2>11. TypeOK'
      BY <1>2, <2>1, <2>3, <2>4, <2>7, <2>10 DEF Typed, TypeOK
    <2>12. Typed'
      BY <1>2, <2>1, <2>4, <2>8, <2>9, <2>11 DEF Typed
    <2>13. Fresh(n)'
      <3>1. ASSUME NEW j \in 1..5, j > n
            PROVE  inFlight'[Tests[j]] = 0 /\ retries'[Tests[j]] = 0
        <4>1. Tests[j] \in Test /\ Tests[j] # t
          BY <2>2, <3>1, TestFacts
        <4>2. inFlight[Tests[j]] = 0 /\ retries[Tests[j]] = 0
          BY <2>2, <3>1 DEF Running, Fresh
        <4>3. QED
          BY <2>1, <2>4, <4>1, <4>2
      <3>2. QED
        BY <3>1 DEF Fresh
    <2>14. Running(n)'
      BY <1>2, <2>1, <2>2, <2>13 DEF Running
    <2>15. QED
      BY <2>12, <2>14 DEF ControlInv, Phased
  <1>6. QED
    BY <1>3, <1>4, <1>5

\* What arrives is dispatched by the block of the test that sent last.
LEMMA ArrivalPhases ==
  ASSUME ControlInv, NEW packet \in Packet, Receive(packet),
         inFlight' \in [Test -> 0..(MaxRetries + 1)],
         \A t \in Test : inFlight'[t] <= inFlight[t],
         foreign' \in 0..MaxForeign,
         UNCHANGED <<nat, contacted, tests, outcome, notices, destroyed>>
  PROVE  ControlInv'
  <1> DEFINE b == [op |-> "receive", test |-> receiver, packet |-> packet]
  <1>0. Typed /\ Phased
    BY DEF ControlInv
  <1>1. crashed' \in BOOLEAN
    BY <1>0 DEF Receive, Typed, TypeOK
  <1>2. UNCHANGED <<receiver, completed, retries, timer>>
    BY DEF tests
  <1>3. \A n : Fresh(n) => Fresh(n)'
    <2>1. ASSUME NEW n, Fresh(n), NEW j \in 1..5, j > n
          PROVE  inFlight'[Tests[j]] = 0 /\ retries'[Tests[j]] = 0
      <3>1. Tests[j] \in Test
        BY TestFacts
      <3>2. inFlight[Tests[j]] = 0 /\ retries[Tests[j]] = 0
        BY <2>1 DEF Fresh
      <3>3. inFlight'[Tests[j]] \in 0..(MaxRetries + 1) /\ inFlight'[Tests[j]] <= 0
        BY <3>1, <3>2
      <3>4. inFlight'[Tests[j]] = 0
        BY <3>3, StunAssumption
      <3>5. QED
        BY <1>2, <3>2, <3>4
    <2>2. QED
      BY <2>1 DEF Fresh
  <1>4. ASSUME receiver # "none"
        PROVE  /\ queue' = Append(queue, b) /\ b \in Block
               /\ \A S : receiver \in S => Receives(b, S) /\ Leaves(b, S)
    <2>1. receiver \in Test
      BY <1>0, <1>4 DEF Typed, TypeOK
    <2>2. b \in Block
      BY <2>1, BlockFacts
    <2>3. \A S : receiver \in S => Receives(b, S) /\ Leaves(b, S)
      BY DEF Receives, Leaves
    <2>4. QED
      BY <1>4, <2>2, <2>3 DEF Receive
  <1>5. receiver = "none" => queue' = queue
    BY DEF Receive
  <1> HIDE DEF b
  <1>6. "none" \notin Test
    BY TestFacts
  <1>7. queue' \in Seq(Block)
    <2>1. receiver # "none" => queue' \in Seq(Block)
      BY <1>0, <1>4, AppendProperties DEF Typed
    <2>2. QED
      BY <1>0, <1>5, <2>1 DEF Typed
  <1>8. \A i \in 1..Len(queue') : queue'[i] \in Block
    BY <1>7, QueueTyped
  <1>9. TypeOK'
    BY <1>0, <1>1, <1>2, <1>8 DEF Typed, TypeOK
  <1>10. \A t \in Test : inFlight'[t] <= retries'[t] + 1
    <2>1. ASSUME NEW t \in Test PROVE inFlight'[t] <= retries'[t] + 1
      <3>1. /\ inFlight[t] \in 0..(MaxRetries + 1) /\ inFlight'[t] \in 0..(MaxRetries + 1)
            /\ retries[t] \in 0..MaxRetries /\ retries'[t] = retries[t]
            /\ inFlight'[t] <= inFlight[t] /\ inFlight[t] <= retries[t] + 1
        BY <1>0, <1>2 DEF Typed, TypeOK
      <3>2. QED
        BY <3>1, StunAssumption
    <2>2. QED
      BY <2>1
  <1>11. Typed'
    BY <1>0, <1>7, <1>9, <1>10 DEF Typed
  <1>12. ASSUME NEW n \in 1..5
         PROVE  /\ Tests[n] \in Test /\ Tests[n] \in Done(n) /\ Done(n) \subseteq Test
                /\ queue \in Seq(Block)
    <2>1. n - 1 \in 0..4 /\ (n - 1) + 1 = n /\ n \in 0..5
      OBVIOUS
    <2>2. QED
      BY <1>0, <2>1, TestFacts, DoneFacts DEF Typed
  <1>13. Ready => Ready'
    BY <1>2, <1>3, <1>5 DEF Ready
  <1>14. Asked => Asked'
    BY <1>2, <1>3, <1>5 DEF Asked
  <1>15. ASSUME NEW n \in 1..5, Running(n) PROVE Running(n)'
    <2>1. receiver # "none" /\ receiver \in Done(n) /\ AllLeave(queue, Done(n))
      BY <1>6, <1>12, <1>15 DEF Running
    <2>2. Leaves(b, Done(n)) /\ b \in Block /\ queue' = Append(queue, b)
      BY <1>4, <2>1
    <2>3. AllLeave(queue', Done(n))
      BY <1>12, <2>1, <2>2, AddBlock
    <2>4. QED
      BY <1>2, <1>3, <1>15, <2>3 DEF Running
  <1>16. ASSUME NEW n \in 1..5, Between(n) PROVE Between(n)'
    <2>1. HasNext(queue', Tests[n], Done(n))
      <3>1. CASE receiver = "none"
        BY <1>5, <1>16, <3>1 DEF Between
      <3>2. CASE receiver # "none"
        <4>1. receiver \in Done(n) /\ HasNext(queue, Tests[n], Done(n))
          BY <1>16, <3>2 DEF Between
        <4>2. Receives(b, Done(n)) /\ b \in Block /\ queue' = Append(queue, b)
          BY <1>4, <3>2, <4>1
        <4>3. QED
          BY <1>12, <4>1, <4>2, AddBlock
      <3>3. QED
        BY <3>1, <3>2
    <2>2. QED
      BY <1>2, <1>3, <1>16, <2>1 DEF Between
  <1>17. ASSUME Told PROVE Told'
    <2>1. AllReceive(queue', completed)
      <3>1. CASE receiver = "none"
        BY <1>5, <1>17, <3>1 DEF Told
      <3>2. CASE receiver # "none"
        <4>1. receiver \in completed /\ AllReceive(queue, completed) /\ queue \in Seq(Block)
          BY <1>0, <1>17, <3>2 DEF Told, Typed
        <4>2. Receives(b, completed) /\ b \in Block /\ queue' = Append(queue, b)
          BY <1>4, <3>2, <4>1
        <4>3. QED
          BY <4>1, <4>2, TestFacts, AddBlock
      <3>3. QED
        BY <3>1, <3>2
    <2>2. QED
      BY <1>2, <1>17, <2>1 DEF Told
  <1>18. QED
    BY <1>0, <1>11, <1>13, <1>14, <1>15, <1>16, <1>17 DEF ControlInv, Phased

LEMMA AnswerPhases ==
  ASSUME ControlInv, NEW t \in Test, NEW kind \in {"address", "error"},
         NEW from \in {Origin(t), Dest(t)}, Answer(t, kind, from)
  PROVE  ControlInv'
  <1> DEFINE packet == [kind |-> kind, id |-> t, from |-> from]
  <1>1. packet \in Packet
    BY AddrFacts, BlockFacts
  <1>2. inFlight \in [Test -> 0..(MaxRetries + 1)] /\ foreign \in 0..MaxForeign
    BY DEF ControlInv, Typed, TypeOK
  <1>3. inFlight[t] - 1 \in 0..(MaxRetries + 1) /\ inFlight[t] - 1 <= inFlight[t]
    BY <1>2, StunAssumption DEF Answer
  <1>4. inFlight' = [inFlight EXCEPT ![t] = @ - 1]
    BY DEF Answer
  <1>5. inFlight' \in [Test -> 0..(MaxRetries + 1)]
    BY <1>2, <1>3, <1>4
  <1>6. \A u \in Test : inFlight'[u] <= inFlight[u]
    BY <1>2, <1>3, <1>4
  <1>7. /\ Receive(packet)
        /\ foreign' = foreign
        /\ UNCHANGED <<nat, contacted, tests, outcome, notices, destroyed>>
    BY DEF Answer
  <1> HIDE DEF packet
  <1>8. QED
    BY <1>1, <1>2, <1>5, <1>6, <1>7, ArrivalPhases

LEMMA ForeignPhases ==
  ASSUME ControlInv, ReceiveForeign PROVE ControlInv'
  <1> DEFINE packet == [kind |-> "foreign"]
  <1>1. packet \in Packet
    BY BlockFacts
  <1>2. inFlight \in [Test -> 0..(MaxRetries + 1)] /\ foreign \in 0..MaxForeign
    BY DEF ControlInv, Typed, TypeOK
  <1>3. foreign' \in 0..MaxForeign
    BY <1>2, StunAssumption DEF ReceiveForeign
  <1>4. inFlight' = inFlight
    BY DEF ReceiveForeign
  <1>5. \A u \in Test : inFlight'[u] <= inFlight[u]
    BY <1>2, <1>4, StunAssumption
  <1>6. /\ Receive(packet)
        /\ UNCHANGED <<nat, contacted, tests, outcome, notices, destroyed>>
    BY DEF ReceiveForeign
  <1> HIDE DEF packet
  <1>7. QED
    BY <1>1, <1>2, <1>3, <1>4, <1>5, <1>6, ArrivalPhases

LEMMA TimerPhases ==
  ASSUME ControlInv, NEW t \in Test, TimerFires(t) PROVE ControlInv'
  <1> DEFINE b == [op |-> "timeout", test |-> t]
  <1>0. Typed /\ Phased
    BY DEF ControlInv
  <1>1. PICK n \in 1..5 : Running(n) /\ t = Tests[n]
    BY <1>0 DEF Phased, TimerFires, Ready, Asked, Running, Between, Told
  <1>2. n - 1 \in 0..4 /\ (n - 1) + 1 = n
    OBVIOUS
  <1>3. t \in Done(n)
    BY <1>1, <1>2, DoneFacts
  <1>4. b \in Block /\ Leaves(b, Done(n))
    BY <1>3, BlockFacts DEF Leaves
  <1>5. /\ timer' = timer \ {t} /\ queue' = Append(queue, b)
        /\ UNCHANGED <<contacted, foreign, receiver, completed, retries, outcome, notices,
                       destroyed, crashed>>
    BY DEF TimerFires
  <1> HIDE DEF b
  <1>6. queue' \in Seq(Block) /\ AllLeave(queue', Done(n))
    BY <1>0, <1>1, <1>4, <1>5, AddBlock DEF Typed, Running
  <1>7. \A i \in 1..Len(queue') : queue'[i] \in Block
    BY <1>6, QueueTyped
  <1>8. inFlight \in [Test -> 0..(MaxRetries + 1)] /\ 0 \in 0..(MaxRetries + 1)
    BY <1>0, StunAssumption DEF Typed, TypeOK
  <1>9. inFlight' = inFlight \/ inFlight' = [inFlight EXCEPT ![t] = 0]
    BY DEF TimerFires
  <1>10. /\ inFlight' \in [Test -> 0..(MaxRetries + 1)]
         /\ \A u \in Test : inFlight'[u] = inFlight[u] \/ inFlight'[u] = 0
    BY <1>8, <1>9
  <1>11. TypeOK'
    BY <1>0, <1>5, <1>7, <1>10 DEF Typed, TypeOK
  <1>12. \A u \in Test : inFlight'[u] <= retries'[u] + 1
    <2>1. ASSUME NEW u \in Test PROVE inFlight'[u] <= retries'[u] + 1
      <3>1. /\ inFlight[u] \in 0..(MaxRetries + 1) /\ retries[u] \in 0..MaxRetries
            /\ retries'[u] = retries[u] /\ inFlight[u] <= retries[u] + 1
            /\ inFlight'[u] = inFlight[u] \/ inFlight'[u] = 0
        BY <1>0, <1>5, <1>10 DEF Typed, TypeOK
      <3>2. QED
        BY <3>1, StunAssumption
    <2>2. QED
      BY <2>1
  <1>13. Typed'
    BY <1>0, <1>5, <1>6, <1>11, <1>12 DEF Typed
  <1>14. Fresh(n)'
    <2>1. ASSUME NEW j \in 1..5, j > n
          PROVE  inFlight'[Tests[j]] = 0 /\ retries'[Tests[j]] = 0
      <3>1. Tests[j] \in Test
        BY TestFacts
      <3>2. inFlight[Tests[j]] = 0 /\ retries[Tests[j]] = 0
        BY <1>1, <2>1 DEF Running, Fresh
      <3>3. QED
        BY <1>5, <1>10, <3>1, <3>2
    <2>2. QED
      BY <2>1 DEF Fresh
  <1>15. Running(n)'
    BY <1>1, <1>5, <1>6, <1>14 DEF Running
  <1>16. QED
    BY <1>13, <1>15 DEF ControlInv, Phased

LEMMA CallPhases ==
  ASSUME ControlInv, stunResolve \/ stunDestroy PROVE ControlInv'
  <1>0. Typed /\ Phased
    BY DEF ControlInv
  <1>1. CASE stunResolve
    <2>1. /\ outcome = "idle" /\ outcome' = "resolving"
          /\ queue' = Append(queue, [op |-> "resolve"])
          /\ UNCHANGED <<network, tests, notices, destroyed, crashed>>
      BY <1>1 DEF stunResolve
    <2>2. Ready
      BY <1>0, <2>1 DEF Phased, Asked, Running, Between, Told
    <2>3. queue' = <<[op |-> "resolve"]>>
      BY <2>1, <2>2 DEF Ready
    <2>4. queue' \in Seq(Block)
      BY <1>0, <2>1, BlockFacts, AppendProperties DEF Typed
    <2>5. \A i \in 1..Len(queue') : queue'[i] \in Block
      BY <2>4, QueueTyped
    <2>6. TypeOK'
      BY <1>0, <2>1, <2>5 DEF Typed, TypeOK, network, tests
    <2>7. destroyed' = FALSE
      BY <1>0, <2>1 DEF Typed, TypeOK
    <2>8. Typed'
      BY <1>0, <2>1, <2>4, <2>6, <2>7 DEF Typed, network, tests
    <2>9. Fresh(0)'
      BY <2>1, <2>2 DEF Ready, Fresh, network, tests
    <2>10. Asked'
      BY <2>1, <2>2, <2>3, <2>9 DEF Ready, Asked, tests
    <2>11. QED
      BY <2>8, <2>10 DEF ControlInv, Phased
  <1>2. CASE stunDestroy
    <2>1. /\ outcome \in {"resolved", "failed"} /\ destroyed' = TRUE
          /\ timer' = timer \cap completed /\ crashed' \in BOOLEAN
          /\ UNCHANGED <<network, queue, receiver, completed, retries, outcome, notices>>
      BY <1>2 DEF stunDestroy
    <2>2. Told
      BY <1>0, <2>1 DEF Phased, Ready, Asked, Running, Between
    <2>3. TypeOK'
      BY <1>0, <2>1 DEF Typed, TypeOK, network
    <2>4. Typed'
      BY <1>0, <2>1, <2>3 DEF Typed, network
    <2>5. Told'
      BY <2>1, <2>2 DEF Told
    <2>6. QED
      BY <2>4, <2>5 DEF ControlInv, Phased
  <1>3. QED
    BY <1>1, <1>2

LEMMA StutterPhases ==
  ASSUME ControlInv, UNCHANGED vars PROVE ControlInv'
  <1>1. Typed'
    BY DEF ControlInv, Typed, TypeOK, vars, network, tests
  <1>2. \A n : Fresh(n) => Fresh(n)'
    BY DEF Fresh, vars, network, tests
  <1>3. /\ UNCHANGED <<outcome, notices, queue, completed, timer, receiver>>
    BY DEF vars, tests
  <1>4. Phased'
    BY <1>2, <1>3 DEF ControlInv, Phased, Ready, Asked, Running, Between, Told
  <1>5. QED
    BY <1>1, <1>4 DEF ControlInv

LEMMA PhasesKept == ControlInv /\ [Next]_vars => ControlInv'
  <1> SUFFICES ASSUME ControlInv, [Next]_vars PROVE ControlInv'
    OBVIOUS
  <1>1. CASE \E dns \in BOOLEAN : RunResolve(dns)
    BY <1>1, ResolvePhases
  <1>2. CASE RunNextTest
    BY <1>2, NextTestPhases
  <1>3. CASE RunReport
    BY <1>3, ReportPhases
  <1>4. CASE RunReceive
    BY <1>4, ReceivePhases
  <1>5. CASE RunTimeout
    BY <1>5, TimeoutPhases
  <1>6. CASE Timers
    BY <1>6, TimerPhases DEF Timers
  <1>7. CASE stunResolve \/ stunDestroy
    BY <1>7, CallPhases
  <1>8. CASE ReceiveForeign
    BY <1>8, ForeignPhases
  <1>9. CASE \E t \in Test, kind \in {"address", "error"} :
               \E from \in {Origin(t), Dest(t)} : Answer(t, kind, from)
    BY <1>9, AnswerPhases
  <1>10. CASE UNCHANGED vars
    BY <1>10, StutterPhases
  <1>11. QED
    BY <1>1, <1>2, <1>3, <1>4, <1>5, <1>6, <1>7, <1>8, <1>9, <1>10 DEF Next, DispatchQueue

LEMMA ControlAlways == Spec => []ControlInv
  BY PhasesStart, PhasesKept, PTL DEF Spec

\* Every variable keeps its type; no test is sent more than MaxRetries times
\* after the first (stunTestRetryOrFail), however late the answers come.
THEOREM StunTypes == Spec => []TypeOK
  <1>1. ControlInv => TypeOK
    BY DEF ControlInv, Typed
  <1>2. QED
    BY <1>1, ControlAlways, PTL

\* The application is told at most once (stunDidResolve, stunDidFailResolve),
\* and then no timer is armed and no block of stunDispatchQueue is left that
\* could start a test, whichever answers, late answers, timeouts and other
\* datagrams came in which order.
THEOREM AlwaysQuietAfterNotice == Spec => []QuietAfterNotice
  <1>1. ControlInv => QuietAfterNotice
    <2> SUFFICES ASSUME ControlInv PROVE QuietAfterNotice
      OBVIOUS
    <2>1. CASE Told
      BY <2>1 DEF Told, QuietAfterNotice, AllReceive, Receives
    <2>2. CASE notices = 0
      BY <2>2 DEF QuietAfterNotice
    <2>3. QED
      BY <2>1, <2>2 DEF ControlInv, Phased, Ready, Asked, Running, Between
  <1>2. QED
    BY <1>1, ControlAlways, PTL

-----------------------------------------------------------------------------
(* What the client learns about the NAT *)

NatType ==
  [mapping : {"Direct", "EndpointIndependent", "AddressDependent", "AddressAndPortDependent"},
   filtering : {"EndpointIndependent", "AddressDependent", "AddressAndPortDependent"},
   other : BOOLEAN]

ResultsType ==
  [didBinding : BOOLEAN, mappedAddr : Seq(Nat), isMappingDirect : BOOLEAN,
   hasOther : BOOLEAN, didBehavior : BOOLEAN,
   natBehavior : {"Unknown", "Direct", "EndpointIndependent", "AddressDependent",
                  "AddressAndPortDependent"},
   mappedOtherPrimaryPort : Seq(Nat), didFiltering : BOOLEAN,
   natFiltering : {"Unknown", "EndpointIndependent", "AddressDependent"}]

\* A NAT that maps the client to one address whatever it sends to
OneMapping == nat.mapping \in {"Direct", "EndpointIndependent"}

\* What the addresses the server reports tell of the NAT
LEMMA MappedFacts ==
  ASSUME nat \in NatType
  PROVE  /\ \A a \in Addr : Mapped(a) \in Seq(Nat) /\ Mapped(a) # Zero
         /\ Mapped(Primary) = Local <=> nat.mapping = "Direct"
         /\ Mapped(OtherPrimaryPort) = Mapped(Primary) <=> OneMapping
         /\ Mapped(Other) = Mapped(Primary) <=> OneMapping
         /\ Zero # Local /\ Zero \in Seq(Nat)
  <1>1. /\ Zero # Local /\ Zero \in Seq(Nat)
    BY DEF Zero, Local
  <1>2. CASE nat.mapping = "Direct"
    <2>1. \A a : Mapped(a) = Local
      BY <1>2 DEF Mapped
    <2>2. Local \in Seq(Nat)
      BY DEF Local
    <2>3. QED
      BY <1>1, <1>2, <2>1, <2>2 DEF OneMapping
  <1>3. CASE nat.mapping = "EndpointIndependent"
    <2>1. \A a : Mapped(a) = <<3, 3>>
      BY <1>3 DEF Mapped
    <2>2. <<3, 3>> \in Seq(Nat) /\ <<3, 3>> # Zero /\ <<3, 3>> # Local
      BY DEF Local, Zero
    <2>3. QED
      BY <1>1, <1>3, <2>1, <2>2 DEF OneMapping
  <1>4. CASE nat.mapping = "AddressDependent"
    <2>1. \A a : Mapped(a) = <<a[1], 0>>
      BY <1>4 DEF Mapped
    <2>2. Primary[1] = 1 /\ Other[1] = 2 /\ OtherPrimaryPort[1] = 2 /\ OtherPrimaryHost[1] = 1
      BY DEF Primary, Other, OtherPrimaryPort, OtherPrimaryHost
    <2>3. /\ Mapped(Primary) = <<1, 0>> /\ Mapped(OtherPrimaryHost) = <<1, 0>>
          /\ Mapped(Other) = <<2, 0>> /\ Mapped(OtherPrimaryPort) = <<2, 0>>
      BY <2>1, <2>2
    <2>4. /\ <<1, 0>> \in Seq(Nat) /\ <<2, 0>> \in Seq(Nat) /\ <<1, 0>> # <<2, 0>>
          /\ <<1, 0>> # Zero /\ <<2, 0>> # Zero /\ <<1, 0>> # Local
      BY DEF Local, Zero
    <2>5. ~OneMapping /\ nat.mapping # "Direct"
      BY <1>4 DEF OneMapping
    <2>6. QED
      BY <1>1, <2>3, <2>4, <2>5 DEF Addr
  <1>5. CASE nat.mapping = "AddressAndPortDependent"
    <2>1. \A a : Mapped(a) = a
      BY <1>5 DEF Mapped
    <2>2. \A a \in Addr : a \in Seq(Nat) /\ a # Zero
      <3>1. /\ Primary \in Seq(Nat) /\ Other \in Seq(Nat)
            /\ OtherPrimaryPort \in Seq(Nat) /\ OtherPrimaryHost \in Seq(Nat)
        BY DEF Primary, Other, OtherPrimaryPort, OtherPrimaryHost
      <3>2. /\ Primary # Zero /\ Other # Zero
            /\ OtherPrimaryPort # Zero /\ OtherPrimaryHost # Zero
        BY DEF Primary, Other, OtherPrimaryPort, OtherPrimaryHost, Zero
      <3>3. QED
        BY <3>1, <3>2 DEF Addr
    <2>3. Primary # Local /\ Primary # Other /\ Primary # OtherPrimaryPort
      BY DEF Primary, Other, OtherPrimaryPort, Local
    <2>4. ~OneMapping /\ nat.mapping # "Direct"
      BY <1>5 DEF OneMapping
    <2>5. QED
      BY <1>1, <2>1, <2>2, <2>3, <2>4
  <1>6. QED
    BY <1>2, <1>3, <1>4, <1>5 DEF NatType

\* Only behavior2 sends to the server's other address and port.
LEMMA DestFacts ==
  /\ Dest("binding1") = Primary /\ Dest("behavior1") = OtherPrimaryPort
  /\ Dest("behavior2") = Other /\ Dest("filtering1") = Primary
  /\ \A t \in Test : t # "behavior2" => Dest(t) # Other
  /\ \A t \in Test : Dest(t) \in Addr
  <1>1. Primary # Other /\ OtherPrimaryPort # Other
    BY DEF Primary, Other, OtherPrimaryPort
  <1>2. QED
    BY <1>1, AddrFacts DEF Dest

\* What the results say of the NAT, and what a test that is running rests on
Learned ==
  /\ nat \in NatType /\ results \in ResultsType
  /\ results.isMappingDirect => nat.mapping = "Direct"
  /\ results.hasOther => /\ results.mappedAddr = Mapped(Primary)
                         /\ nat.mapping = "Direct" => results.isMappingDirect
  /\ "binding1" \notin completed => ~results.hasOther
  /\ "behavior1" \notin completed =>
       /\ results.mappedOtherPrimaryPort = Zero /\ ~results.didBehavior
       /\ results.hasOther => results.didBinding
  /\ receiver = "behavior1" /\ "behavior1" \notin completed =>
       results.hasOther /\ nat.mapping # "Direct"
  /\ results.mappedOtherPrimaryPort # Zero /\ ~results.didBehavior => ~OneMapping
  /\ receiver = "behavior2" /\ "behavior2" \notin completed =>
       results.mappedOtherPrimaryPort # Zero /\ ~results.didBehavior
  /\ Other \in contacted => ~OneMapping
  /\ BehaviorSound
  /\ FilteringSound

\* An answer to filtering1 from the server's other address was let in by a
\* NAT that does not ask for the address and port.
Fine(b) ==
  b.op = "receive" /\ b.packet.kind # "foreign" =>
    (b.packet.id = "filtering1" /\ b.packet.from = Other =>
       nat.filtering # "AddressAndPortDependent")

FineQueue == \A k \in 1..Len(queue) : Fine(queue[k])

LEMMA LearnedStart == Init => Learned /\ FineQueue
  <1> SUFFICES ASSUME Init PROVE Learned /\ FineQueue
    OBVIOUS
  <1>1. nat \in NatType
    BY DEF Init, NatType
  <1>2. Zero \in Seq(Nat)
    BY DEF Zero
  <1>3. results \in ResultsType
    BY <1>2 DEF Init, NoResults, ResultsType
  <1>4. /\ results.isMappingDirect = FALSE /\ results.hasOther = FALSE
        /\ results.mappedOtherPrimaryPort = Zero /\ results.didBehavior = FALSE
        /\ results.didFiltering = FALSE
    BY DEF Init, NoResults
  <1>5. contacted = {} /\ receiver = "none"
    BY DEF Init
  <1>6. Learned
    BY <1>1, <1>3, <1>4, <1>5 DEF Learned, BehaviorSound, FilteringSound
  <1>7. FineQueue
    BY DEF Init, FineQueue
  <1>8. QED
    BY <1>6, <1>7

\* A step that leaves the results alone and sends nothing
LEMMA LearnedKept ==
  ASSUME Learned, UNCHANGED <<nat, results, completed, contacted>>,
         receiver' \in {receiver, "none"}
  PROVE  Learned'
  <1>1. \A a : Mapped(a)' = Mapped(a)
    BY DEF Mapped
  <1>2. (BehaviorSound => BehaviorSound') /\ (FilteringSound => FilteringSound')
    BY DEF BehaviorSound, FilteringSound
  <1>3. OneMapping' = OneMapping
    BY DEF OneMapping
  <1>4. QED
    BY <1>1, <1>2, <1>3 DEF Learned

\* A test that is sent was not settled.
LEMMA LearnedSend ==
  ASSUME Learned, NEW n \in 1..5, completed = Done(n - 1),
         ~Settled(Tests[n]), stunTestSend(Tests[n])
  PROVE  Learned'
  <1> DEFINE t == Tests[n]
  <1>1. /\ receiver' = t /\ contacted' = contacted \cup {Dest(t)}
        /\ UNCHANGED <<nat, results, completed>>
    BY DEF stunTestSend
  <1>2. \A a : Mapped(a)' = Mapped(a)
    BY <1>1 DEF Mapped
  <1>3. (BehaviorSound => BehaviorSound') /\ (FilteringSound => FilteringSound')
    BY <1>1 DEF BehaviorSound, FilteringSound
  <1>4. OneMapping' = OneMapping
    BY <1>1 DEF OneMapping
  <1>5. t \in Test /\ t \notin completed
    <2>1. n - 1 \in 0..4 /\ (n - 1) + 1 = n
      OBVIOUS
    <2>2. QED
      BY <2>1, TestFacts, DoneFacts
  <1>6. ~Settled(t)
    OBVIOUS
  <1> HIDE DEF t
  <1>7. ASSUME t = "behavior1" PROVE results.hasOther /\ nat.mapping # "Direct"
    <2>1. ~Direct /\ results.hasOther
      BY <1>6, <1>7 DEF Settled, Learned, ResultsType
    <2>2. results.didBinding
      BY <1>5, <1>7, <2>1 DEF Learned
    <2>3. QED
      BY <2>1, <2>2 DEF Learned, Direct
  <1>8. ASSUME t = "behavior2"
        PROVE  results.mappedOtherPrimaryPort # Zero /\ ~results.didBehavior /\ ~OneMapping
    BY <1>6, <1>8 DEF Settled, Learned
  <1>9. Other \in contacted' => ~OneMapping
    <2>1. t # "behavior2" => Dest(t) # Other
      BY <1>5, DestFacts
    <2>2. QED
      BY <1>1, <1>8, <2>1 DEF Learned
  <1>10. QED
    BY <1>1, <1>2, <1>3, <1>4, <1>7, <1>8, <1>9 DEF Learned

\* The results a completed test leaves: what they must be for Learned
LEMMA LearnedComplete ==
  ASSUME Learned, NEW t \in Test, NEW new \in ResultsType, stunTestSetComplete(t, new),
         new.isMappingDirect => nat.mapping = "Direct",
         new.hasOther => /\ new.mappedAddr = Mapped(Primary)
                         /\ nat.mapping = "Direct" => new.isMappingDirect,
         t # "binding1" => (new.hasOther <=> results.hasOther),
         t = "binding1" /\ new.hasOther => new.didBinding,
         t \notin {"binding1", "behavior1"} => "behavior1" \in completed,
         t # "behavior1" =>
           new.mappedOtherPrimaryPort = results.mappedOtherPrimaryPort,
         t \notin {"behavior1", "behavior2"} => (new.didBehavior <=> results.didBehavior),
         t = "behavior2" => (results.didBehavior => new.didBehavior),
         new.mappedOtherPrimaryPort # Zero /\ ~new.didBehavior => ~OneMapping,
         receiver # "behavior1" \/ "behavior1" \in completed \/ t = "behavior1",
         receiver # "behavior2" \/ "behavior2" \in completed \/ t = "behavior2",
         new.didBehavior =>
           /\ new.natBehavior = "Direct" <=> nat.mapping = "Direct"
           /\ new.natBehavior = "EndpointIndependent" <=> nat.mapping = "EndpointIndependent",
         new.didFiltering /\ new.natFiltering = "EndpointIndependent" =>
           nat.mapping = "Direct" \/ nat.filtering # "AddressAndPortDependent"
  PROVE  Learned'
  <1>1. /\ completed' = completed \cup {t} /\ results' = new
        /\ UNCHANGED <<nat, contacted, receiver>>
    BY DEF stunTestSetComplete, network
  <1>2. \A a : Mapped(a)' = Mapped(a)
    BY <1>1 DEF Mapped
  <1>3. OneMapping' = OneMapping
    BY <1>1 DEF OneMapping
  <1>4. BehaviorSound' /\ FilteringSound'
    BY <1>1 DEF BehaviorSound, FilteringSound
  <1>5. "binding1" \notin completed' => ~new.hasOther
    BY <1>1 DEF Learned
  <1>6. "behavior1" \notin completed' =>
          /\ new.mappedOtherPrimaryPort = Zero /\ ~new.didBehavior
          /\ new.hasOther => new.didBinding
    BY <1>1 DEF Learned
  <1>7. QED
    BY <1>1, <1>2, <1>3, <1>4, <1>5, <1>6 DEF Learned

\* Tests complete in their order, and only the last one sent is open.
LEMMA OrderFacts ==
  ASSUME NEW n \in 1..5, completed = Done(n - 1),
         receiver \in completed \cup {Tests[n], "none"}
  PROVE  /\ Tests[n] \in Test /\ Tests[n] \notin completed
         /\ Tests[n] \notin {"binding1", "behavior1"} => "behavior1" \in completed
         /\ receiver # "behavior1" \/ "behavior1" \in completed \/ Tests[n] = "behavior1"
         /\ receiver # "behavior2" \/ "behavior2" \in completed \/ Tests[n] = "behavior2"
  <1>1. n - 1 \in 0..4 /\ (n - 1) + 1 = n
    OBVIOUS
  <1>2. Tests[n] \in Test /\ Tests[n] \notin completed
    BY <1>1, TestFacts, DoneFacts
  <1>3. ASSUME Tests[n] \notin {"binding1", "behavior1"} PROVE "behavior1" \in completed
    <2>1. n # 1 /\ n # 2
      BY <1>3, TestFacts
    <2>2. 2 \in 1..(n - 1)
      BY <2>1
    <2>3. QED
      BY <2>2, TestFacts DEF Done
  <1>4. QED
    BY <1>2, <1>3

LEMMA LearnedSettled ==
  ASSUME Learned, NEW n \in 1..5, completed = Done(n - 1),
         receiver \in completed \cup {Tests[n], "none"},
         Settled(Tests[n]), stunTestSetComplete(Tests[n], SettledResults(Tests[n]))
  PROVE  Learned'
  <1> DEFINE t == Tests[n]
             new == SettledResults(t)
  <1>1. /\ t \in Test /\ t \notin completed
        /\ t \notin {"binding1", "behavior1"} => "behavior1" \in completed
        /\ receiver # "behavior1" \/ "behavior1" \in completed \/ t = "behavior1"
        /\ receiver # "behavior2" \/ "behavior2" \in completed \/ t = "behavior2"
    BY OrderFacts
  <1>2. Settled(t) /\ stunTestSetComplete(t, new)
    OBVIOUS
  <1> HIDE DEF t
  <1>3. t # "binding1"
    BY <1>2 DEF Settled
  <1>4. Direct => nat.mapping = "Direct"
    BY DEF Direct, Learned
  <1>5. CASE t = "behavior1" /\ Direct
    <2>1. new = [results EXCEPT !.natBehavior = "Direct", !.didBehavior = TRUE]
      BY <1>5 DEF SettledResults
    <2> HIDE DEF new
    <2>2. /\ new \in ResultsType
          /\ new.natBehavior = "Direct" /\ new.didBehavior = TRUE
          /\ new.isMappingDirect = results.isMappingDirect /\ new.hasOther = results.hasOther
          /\ new.mappedAddr = results.mappedAddr
          /\ new.didFiltering = results.didFiltering
          /\ new.natFiltering = results.natFiltering
      BY <2>1 DEF Learned, ResultsType
    <2>3. QED
      BY <1>1, <1>2, <1>4, <1>5, <2>2, LearnedComplete DEF Learned, FilteringSound
  <1>6. CASE t = "behavior1" /\ ~Direct
    <2>1. new = [results EXCEPT !.didBehavior = FALSE]
      BY <1>6 DEF SettledResults
    <2> HIDE DEF new
    <2>2. /\ new \in ResultsType
          /\ new.didBehavior = FALSE
          /\ new.isMappingDirect = results.isMappingDirect /\ new.hasOther = results.hasOther
          /\ new.mappedAddr = results.mappedAddr
          /\ new.mappedOtherPrimaryPort = results.mappedOtherPrimaryPort
          /\ new.didFiltering = results.didFiltering
          /\ new.natFiltering = results.natFiltering
      BY <2>1 DEF Learned, ResultsType
    <2>3. new.mappedOtherPrimaryPort = Zero
      BY <1>1, <1>6, <2>2 DEF Learned
    <2>4. QED
      BY <1>1, <1>2, <1>6, <2>2, <2>3, LearnedComplete DEF Learned, FilteringSound
  <1>7. CASE t = "filtering1"
    <2>1. \/ /\ Direct
             /\ new = [results EXCEPT !.natFiltering = "EndpointIndependent",
                                      !.didFiltering = TRUE]
          \/ new = [results EXCEPT !.didFiltering = FALSE]
      BY <1>7 DEF SettledResults
    <2> HIDE DEF new
    <2>2. /\ new \in ResultsType
          /\ new.isMappingDirect = results.isMappingDirect /\ new.hasOther = results.hasOther
          /\ new.mappedAddr = results.mappedAddr
          /\ new.mappedOtherPrimaryPort = results.mappedOtherPrimaryPort
          /\ new.didBehavior = results.didBehavior /\ new.natBehavior = results.natBehavior
          /\ new.didFiltering => Direct
      BY <2>1 DEF Learned, ResultsType
    <2>3. QED
      BY <1>1, <1>2, <1>4, <1>7, <2>2, LearnedComplete DEF Learned, BehaviorSound
  <1>8. CASE t \notin {"behavior1", "filtering1"}
    <2>1. new = results
      BY <1>8 DEF SettledResults
    <2> HIDE DEF new
    <2>2. QED
      BY <1>1, <1>2, <1>3, <1>8, <2>1, LearnedComplete
         DEF Learned, BehaviorSound, FilteringSound
  <1>9. QED
    BY <1>5, <1>6, <1>7, <1>8

LEMMA LearnedFailed ==
  ASSUME Learned, NEW n \in 1..5, completed = Done(n - 1), receiver = Tests[n],
         stunTestSetComplete(Tests[n], FailedResults(Tests[n]))
  PROVE  Learned'
  <1> DEFINE t == Tests[n]
             new == FailedResults(t)
  <1>1. /\ t \in Test /\ t \notin completed
        /\ t \notin {"binding1", "behavior1"} => "behavior1" \in completed
        /\ receiver # "behavior1" \/ "behavior1" \in completed \/ t = "behavior1"
        /\ receiver # "behavior2" \/ "behavior2" \in completed \/ t = "behavior2"
    BY OrderFacts
  <1>2. stunTestSetComplete(t, new)
    OBVIOUS
  <1> HIDE DEF t
  <1>3. \/ new = [results EXCEPT !.didFiltering = FALSE]
        \/ new = [results EXCEPT !.didBinding = FALSE]
    BY DEF FailedResults
  <1> HIDE DEF new
  <1>4. /\ new \in ResultsType
        /\ new.isMappingDirect = results.isMappingDirect /\ new.hasOther = results.hasOther
        /\ new.mappedAddr = results.mappedAddr
        /\ new.mappedOtherPrimaryPort = results.mappedOtherPrimaryPort
        /\ new.didBehavior = results.didBehavior /\ new.natBehavior = results.natBehavior
        /\ new.didFiltering => results.didFiltering
        /\ new.natFiltering = results.natFiltering
    BY <1>3 DEF Learned, ResultsType
  <1>5. t = "binding1" => ~new.hasOther
    BY <1>1, <1>4 DEF Learned
  <1>6. QED
    BY <1>1, <1>2, <1>4, <1>5, LearnedComplete DEF Learned, BehaviorSound, FilteringSound

LEMMA LearnedResponse ==
  ASSUME Learned, NEW n \in 1..5, completed = Done(n - 1), receiver = Tests[n],
         NEW packet \in Packet, packet.kind # "foreign", packet.id = Tests[n],
         Tests[n] = "filtering1" /\ packet.from = Other =>
           nat.filtering # "AddressAndPortDependent",
         stunTestSetComplete(Tests[n], ResponseResults(Tests[n], packet))
  PROVE  Learned'
  <1> DEFINE t == Tests[n]
             new == ResponseResults(t, packet)
             mapped == IF packet.kind = "address" THEN Mapped(Dest(t)) ELSE Zero
  <1>1. /\ t \in Test /\ t \notin completed
        /\ t \notin {"binding1", "behavior1"} => "behavior1" \in completed
        /\ receiver # "behavior1" \/ "behavior1" \in completed \/ t = "behavior1"
        /\ receiver # "behavior2" \/ "behavior2" \in completed \/ t = "behavior2"
    BY OrderFacts
  <1>2. /\ stunTestSetComplete(t, new) /\ receiver = t
        /\ t = "filtering1" /\ packet.from = Other =>
             nat.filtering # "AddressAndPortDependent"
    OBVIOUS
  <1> HIDE DEF t
  <1>3. /\ \A a \in Addr : Mapped(a) \in Seq(Nat) /\ Mapped(a) # Zero
        /\ Mapped(Primary) = Local <=> nat.mapping = "Direct"
        /\ Mapped(OtherPrimaryPort) = Mapped(Primary) <=> OneMapping
        /\ Zero # Local /\ Zero \in Seq(Nat)
    BY MappedFacts DEF Learned
  <1>4. mapped \in Seq(Nat) /\ (mapped # Zero => mapped = Mapped(Dest(t)))
    BY <1>1, <1>3, DestFacts
  <1>5. CASE t = "binding1"
    <2>1. new = BindingResults(mapped)
      BY <1>5 DEF ResponseResults
    <2> HIDE DEF new, mapped
    <2>2. /\ new \in ResultsType
          /\ new.mappedAddr = IF mapped = Zero THEN results.mappedAddr ELSE mapped
          /\ new.hasOther = (results.hasOther \/ (mapped # Zero /\ nat.other))
          /\ new.isMappingDirect = (results.isMappingDirect \/ mapped = Local)
          /\ new.didBinding = TRUE
          /\ new.mappedOtherPrimaryPort = results.mappedOtherPrimaryPort
          /\ new.didBehavior = results.didBehavior /\ new.natBehavior = results.natBehavior
          /\ new.didFiltering = results.didFiltering
          /\ new.natFiltering = results.natFiltering
      BY <1>4, <2>1 DEF Learned, ResultsType, NatType, BindingResults
    <2>3. mapped # Zero => mapped = Mapped(Primary)
      BY <1>4, <1>5, DestFacts
    <2>4. ~results.hasOther
      BY <1>1, <1>5 DEF Learned
    <2>5. new.isMappingDirect => nat.mapping = "Direct"
      BY <1>3, <2>2, <2>3 DEF Learned
    <2>6. new.hasOther => /\ new.mappedAddr = Mapped(Primary)
                          /\ nat.mapping = "Direct" => new.isMappingDirect
      BY <1>3, <2>2, <2>3, <2>4
    <2>7. QED
      BY <1>1, <1>2, <1>5, <2>2, <2>5, <2>6, LearnedComplete
         DEF Learned, BehaviorSound, FilteringSound
  <1>6. CASE t \in {"behavior1", "behavior2"} /\ mapped = Zero
    <2>1. new = BehaviorResults(t, mapped)
      BY <1>6 DEF ResponseResults
    <2>2. new = results
      BY <1>6, <2>1 DEF BehaviorResults
    <2> HIDE DEF new, mapped
    <2>3. QED
      BY <1>1, <1>2, <1>6, <2>2, LearnedComplete DEF Learned, BehaviorSound, FilteringSound
  <1>7. CASE t = "behavior1" /\ mapped # Zero
    <2>1. new = BehaviorResults(t, mapped)
      BY <1>7 DEF ResponseResults
    <2> HIDE DEF new, mapped
    <2>2. /\ results.hasOther /\ nat.mapping # "Direct" /\ ~results.didBehavior
          /\ results.mappedAddr = Mapped(Primary)
      BY <1>1, <1>2, <1>7 DEF Learned
    <2>3. mapped = Mapped(OtherPrimaryPort)
      BY <1>4, <1>7, DestFacts
    <2>4. mapped = results.mappedAddr <=> nat.mapping = "EndpointIndependent"
      BY <1>3, <2>2, <2>3 DEF OneMapping
    <2>5. /\ new \in ResultsType
          /\ new.mappedOtherPrimaryPort = mapped
          /\ new.didBehavior = (results.didBehavior \/ mapped = results.mappedAddr)
          /\ mapped = results.mappedAddr => new.natBehavior = "EndpointIndependent"
          /\ new.mappedAddr = results.mappedAddr /\ new.hasOther = results.hasOther
          /\ new.isMappingDirect = results.isMappingDirect
          /\ new.didFiltering = results.didFiltering
          /\ new.natFiltering = results.natFiltering
      BY <1>4, <1>7, <2>1 DEF Learned, ResultsType, BehaviorResults
    <2>6. new.didBehavior <=> nat.mapping = "EndpointIndependent"
      BY <2>2, <2>4, <2>5
    <2>7. ~new.didBehavior => ~OneMapping
      BY <2>2, <2>6 DEF OneMapping
    <2>8. new.didBehavior => new.natBehavior = "EndpointIndependent"
      BY <2>4, <2>5, <2>6
    <2>9. QED
      BY <1>1, <1>2, <1>7, <2>2, <2>5, <2>6, <2>7, <2>8, LearnedComplete
         DEF Learned, FilteringSound
  <1>8. CASE t = "behavior2" /\ mapped # Zero
    <2>1. new = BehaviorResults(t, mapped)
      BY <1>8 DEF ResponseResults
    <2> HIDE DEF new, mapped
    <2>2. ~OneMapping
      BY <1>1, <1>2, <1>8 DEF Learned
    <2>3. /\ new \in ResultsType
          /\ new.didBehavior = TRUE
          /\ new.natBehavior \in {"AddressDependent", "AddressAndPortDependent"}
          /\ new.mappedAddr = results.mappedAddr /\ new.hasOther = results.hasOther
          /\ new.isMappingDirect = results.isMappingDirect
          /\ new.mappedOtherPrimaryPort = results.mappedOtherPrimaryPort
          /\ new.didFiltering = results.didFiltering
          /\ new.natFiltering = results.natFiltering
      BY <1>4, <1>8, <2>1 DEF Learned, ResultsType, BehaviorResults
    <2>4. nat.mapping # "Direct" /\ nat.mapping # "EndpointIndependent"
      BY <2>2 DEF OneMapping
    <2>5. QED
      BY <1>1, <1>2, <1>8, <2>3, <2>4, LearnedComplete DEF Learned, FilteringSound
  <1>9. CASE t \in {"filtering1", "filtering2"}
    <2>1. new = FilteringResults(t, packet.from)
      BY <1>9 DEF ResponseResults
    <2> HIDE DEF new, mapped
    <2>2. /\ new \in ResultsType
          /\ new.mappedAddr = results.mappedAddr /\ new.hasOther = results.hasOther
          /\ new.isMappingDirect = results.isMappingDirect
          /\ new.mappedOtherPrimaryPort = results.mappedOtherPrimaryPort
          /\ new.didBehavior = results.didBehavior /\ new.natBehavior = results.natBehavior
      BY <1>9, <2>1 DEF Learned, ResultsType, FilteringResults
    <2>3. new.didFiltering /\ new.natFiltering = "EndpointIndependent" =>
            nat.mapping = "Direct" \/ nat.filtering # "AddressAndPortDependent"
      <3>1. CASE packet.from = Other
        <4>1. t = "filtering2" => new.natFiltering = "AddressDependent"
          BY <1>9, <2>1, <3>1 DEF Learned, ResultsType, FilteringResults
        <4>2. QED
          BY <1>2, <1>9, <3>1, <4>1
      <3>2. CASE packet.from # Other
        BY <2>1, <3>2 DEF Learned, FilteringSound, FilteringResults
      <3>3. QED
        BY <3>1, <3>2
    <2>4. QED
      BY <1>1, <1>2, <1>9, <2>2, <2>3, LearnedComplete DEF Learned, BehaviorSound
  <1>10. QED
    BY <1>1, <1>5, <1>6, <1>7, <1>8, <1>9, TestFacts

\* The answers in the queue stay what the NAT let in.
LEMMA FineKept ==
  ASSUME FineQueue, queue \in Seq(Block), nat' = nat
  PROVE  /\ queue' = queue => FineQueue'
         /\ queue # << >> => Fine(Head(queue))
         /\ queue # << >> /\ queue' = Tail(queue) => FineQueue'
         /\ \A b \in Block : Fine(b) /\ queue' = Append(queue, b) => FineQueue'
         /\ \A b \in Block :
              Fine(b) /\ queue # << >> /\ queue' = Append(Tail(queue), b) => FineQueue'
  <1> DEFINE All(q) == \A k \in 1..Len(q) : Fine(q[k])
  <1>1. FineQueue' <=> All(queue')
    BY DEF FineQueue, Fine
  <1>2. All(queue)
    BY DEF FineQueue
  <1>3. ASSUME NEW q \in Seq(Block), NEW b \in Block, All(q), Fine(b)
        PROVE  All(Append(q, b))
    <2>1. /\ Len(q) \in Nat /\ Len(Append(q, b)) = Len(q) + 1
          /\ Append(q, b)[Len(q) + 1] = b
          /\ \A k \in 1..Len(q) : Append(q, b)[k] = q[k]
      BY AppendProperties, LenProperties
    <2>2. \A k \in 1..(Len(q) + 1) : k \in 1..Len(q) \/ k = Len(q) + 1
      BY <2>1
    <2>3. QED
      BY <1>3, <2>1, <2>2
  <1>4. ASSUME queue # << >>
        PROVE  Fine(Head(queue)) /\ Tail(queue) \in Seq(Block) /\ All(Tail(queue))
    <2>1. /\ Head(queue) = queue[1] /\ Tail(queue) \in Seq(Block)
          /\ Len(Tail(queue)) = Len(queue) - 1 /\ Len(queue) \in Nat /\ Len(queue) # 0
          /\ \A k \in 1..Len(Tail(queue)) : Tail(queue)[k] = queue[k + 1]
      BY <1>4, HeadTailProperties, LenProperties
    <2>2. 1 \in 1..Len(queue) /\ \A k \in 1..Len(Tail(queue)) : k + 1 \in 1..Len(queue)
      BY <2>1
    <2>3. QED
      BY <1>2, <2>1, <2>2
  <1> HIDE DEF All
  <1>5. ASSUME NEW b \in Block, Fine(b), queue' = Append(queue, b) PROVE FineQueue'
    BY <1>1, <1>2, <1>3, <1>5
  <1>6. ASSUME NEW b \in Block, Fine(b), queue # << >>, queue' = Append(Tail(queue), b)
        PROVE  FineQueue'
    BY <1>1, <1>3, <1>4, <1>6
  <1>7. (queue' = queue => FineQueue') /\ (queue # << >> => Fine(Head(queue)))
    BY <1>1, <1>2, <1>4
  <1>8. queue # << >> /\ queue' = Tail(queue) => FineQueue'
    BY <1>1, <1>4
  <1>9. QED
    BY <1>5, <1>6, <1>7, <1>8

\* The block that goes on after a test, and a timeout's, are no answers.
LEMMA CompleteFine ==
  ASSUME FineQueue, queue \in Seq(Block), queue # << >>, NEW t \in Test, NEW new,
         stunTestSetComplete(t, new)
  PROVE  FineQueue'
  <1> DEFINE b == [op |-> "next", test |-> t]
  <1>1. b \in Block /\ Fine(b)
    BY BlockFacts DEF Fine
  <1>2. nat' = nat /\ queue' = Append(Tail(queue), b)
    BY DEF stunTestSetComplete, network
  <1>3. QED
    BY <1>1, <1>2, FineKept

LEMMA StartLearns ==
  ASSUME Learned, FineQueue, queue \in Seq(Block), queue # << >>, NEW n \in 1..5,
         completed = Done(n - 1), receiver \in completed \cup {"none"}, Start(Tests[n])
  PROVE  Learned' /\ FineQueue'
  <1>1. Tests[n] \in Test
    BY TestFacts
  <1>2. CASE Settled(Tests[n])
    <2>1. stunTestSetComplete(Tests[n], SettledResults(Tests[n]))
      BY <1>2 DEF Start
    <2>2. Learned'
      BY <1>2, <2>1, LearnedSettled
    <2> DEFINE new == SettledResults(Tests[n])
    <2>3. stunTestSetComplete(Tests[n], new)
      BY <2>1
    <2> HIDE DEF new
    <2>4. QED
      BY <1>1, <2>2, <2>3, CompleteFine
  <1>3. CASE ~Settled(Tests[n])
    <2>1. stunTestSend(Tests[n])
      BY <1>3 DEF Start
    <2>2. nat' = nat /\ queue' = Tail(queue)
      BY <2>1 DEF stunTestSend
    <2>3. QED
      BY <1>3, <2>1, <2>2, LearnedSend, FineKept
  <1>4. QED
    BY <1>2, <1>3

\* An answer to filtering1 from the other address and port passes a NAT that
\* asks for both only if the client sent there on the same mapping.
LEMMA LetInFine ==
  ASSUME Learned, LetsIn(Other, "filtering1")
  PROVE  nat.filtering # "AddressAndPortDependent"
  <1> SUFFICES ASSUME nat.filtering = "AddressAndPortDependent" PROVE FALSE
    OBVIOUS
  <1>1. Other \in {a \in contacted : Mapped(a) = Mapped(Primary)}
    BY DestFacts DEF LetsIn
  <1>2. Mapped(Other) = Mapped(Primary) <=> OneMapping
    BY MappedFacts DEF Learned
  <1>3. QED
    BY <1>1, <1>2 DEF Learned

LEMMA LearnedStep ==
  ASSUME ControlInv, Learned, FineQueue, [Next]_vars
  PROVE  Learned' /\ FineQueue'
  <1>0. queue \in Seq(Block)
    BY DEF ControlInv, Typed
  <1>1. ASSUME NEW dns \in BOOLEAN, RunResolve(dns) PROVE Learned' /\ FineQueue'
    <2>1. queue # << >> /\ Asked
      BY <1>1, FirstBlock DEF RunResolve, Runs
    <2>2. CASE dns
      <3>1. Tests[1] = "binding1" /\ 1 - 1 = 0 /\ 1 \in 1..5 /\ Done(0) = {}
        BY TestFacts, DoneFacts
      <3>2. Start(Tests[1])
        BY <1>1, <2>2, <3>1 DEF RunResolve
      <3>3. completed = Done(1 - 1) /\ receiver \in completed \cup {"none"}
        BY <2>1, <3>1 DEF Asked
      <3>4. QED
        BY <1>0, <2>1, <3>1, <3>2, <3>3, StartLearns
    <2>3. CASE ~dns
      <3>1. queue' = Tail(queue) /\ UNCHANGED <<nat, contacted, receiver, completed, results>>
        BY <1>1, <2>3 DEF RunResolve, network, tests
      <3>2. QED
        BY <1>0, <2>1, <3>1, LearnedKept, FineKept
    <2>4. QED
      BY <2>2, <2>3
  <1>2. ASSUME RunNextTest PROVE Learned' /\ FineQueue'
    <2>1. queue # << >> /\ Head(queue).op = "next"
      BY <1>2 DEF RunNextTest, Runs
    <2>2. PICK n \in 1..5 : Between(n) /\ Head(queue).test = Tests[n]
      BY <2>1, FirstBlock
    <2>3. PICK i \in 1..(Len(Tests) - 1) : Tests[i] = Head(queue).test /\ Start(Tests[i + 1])
      BY <1>2 DEF RunNextTest
    <2>4. i \in 1..5 /\ i + 1 \in 1..5 /\ (i + 1) - 1 = i
      BY <2>3, TestFacts
    <2>5. i = n
      BY <2>2, <2>3, <2>4, TestFacts
    <2>6. completed = Done((i + 1) - 1) /\ receiver \in completed \cup {"none"}
      BY <2>2, <2>4, <2>5 DEF Between
    <2>7. QED
      BY <1>0, <2>1, <2>3, <2>4, <2>6, StartLearns
  <1>3. ASSUME RunReport PROVE Learned' /\ FineQueue'
    <2>1. /\ queue # << >> /\ queue' = Tail(queue) /\ receiver' \in {receiver, "none"}
          /\ UNCHANGED <<nat, contacted, completed, results>>
      BY <1>3 DEF RunReport, Runs, network
    <2>2. QED
      BY <1>0, <2>1, LearnedKept, FineKept
  <1>4. ASSUME RunReceive PROVE Learned' /\ FineQueue'
    <2> DEFINE t == Head(queue).test
               packet == Head(queue).packet
               stun == t \notin completed /\ packet.kind # "foreign"
    <2>1. queue # << >> /\ Head(queue).op = "receive"
      BY <1>4 DEF RunReceive, Runs
    <2>2. Head(queue) \in Block /\ t \in Test /\ packet \in Packet
      BY <2>1, FirstBlock, BlockFacts
    <2>3. Fine(Head(queue))
      <3>1. 1 \in 1..Len(queue) /\ Head(queue) = queue[1]
        BY <1>0, <2>1, LenProperties
      <3>2. QED
        BY <3>1 DEF FineQueue
    <2>4. CASE stun /\ packet.id = t
      <3>1. stunTestSetComplete(t, ResponseResults(t, packet))
        BY <1>4, <2>4 DEF RunReceive
      <3>2. PICK n \in 1..5 : Running(n) /\ t = Tests[n]
        BY <2>1, <2>4, OpenTest
      <3>3. completed = Done(n - 1) /\ receiver = Tests[n]
        BY <3>2 DEF Running
      <3>4. t = "filtering1" /\ packet.from = Other =>
              nat.filtering # "AddressAndPortDependent"
        BY <2>1, <2>3, <2>4 DEF Fine
      <3>5. packet.kind # "foreign" /\ packet.id = Tests[n]
        BY <2>4, <3>2
      <3> DEFINE new == ResponseResults(t, packet)
      <3>6. stunTestSetComplete(t, new)
        BY <3>1
      <3> HIDE DEF packet, t
      <3>7. Learned'
        BY <2>2, <3>1, <3>2, <3>3, <3>4, <3>5, LearnedResponse
      <3> HIDE DEF new
      <3>8. FineQueue'
        BY <1>0, <2>1, <2>2, <3>6, CompleteFine
      <3>9. QED
        BY <3>7, <3>8
    <2>5. CASE ~(stun /\ packet.id = t)
      <3>1. queue' = Tail(queue) /\ UNCHANGED <<nat, contacted, receiver, completed, results>>
        BY <1>4, <2>5 DEF RunReceive, network
      <3>2. QED
        BY <1>0, <2>1, <3>1, LearnedKept, FineKept
    <2>6. QED
      BY <2>4, <2>5
  <1>5. ASSUME RunTimeout PROVE Learned' /\ FineQueue'
    <2> DEFINE t == Head(queue).test
    <2>1. queue # << >> /\ Head(queue).op = "timeout"
      BY <1>5 DEF RunTimeout, Runs
    <2>2. t \in Test
      BY <2>1, FirstBlock, BlockFacts
    <2>3. CASE t \notin completed /\ ~MayRetry(t)
      <3>1. stunTestSetComplete(t, FailedResults(t))
        BY <1>5, <2>3 DEF RunTimeout
      <3>2. PICK n \in 1..5 : Running(n) /\ t = Tests[n]
        BY <2>1, <2>3, OpenTest
      <3>3. completed = Done(n - 1) /\ receiver = Tests[n]
        BY <3>2 DEF Running
      <3> DEFINE new == FailedResults(t)
      <3>4. stunTestSetComplete(t, new)
        BY <3>1
      <3> HIDE DEF t
      <3>5. Learned'
        BY <3>1, <3>2, <3>3, LearnedFailed
      <3> HIDE DEF new
      <3>6. FineQueue'
        BY <1>0, <2>1, <2>2, <3>4, CompleteFine
      <3>7. QED
        BY <3>5, <3>6
    <2>4. CASE ~(t \notin completed /\ ~MayRetry(t))
      <3>1. queue' = Tail(queue) /\ UNCHANGED <<nat, contacted, receiver, completed, results>>
        BY <1>5, <2>4 DEF RunTimeout, network, tests
      <3>2. QED
        BY <1>0, <2>1, <3>1, LearnedKept, FineKept
    <2>5. QED
      BY <2>3, <2>4
  <1>6. ASSUME NEW t \in Test, TimerFires(t) PROVE Learned' /\ FineQueue'
    <2> DEFINE b == [op |-> "timeout", test |-> t]
    <2>1. /\ queue' = Append(queue, b)
          /\ UNCHANGED <<nat, contacted, receiver, completed, results>>
      BY <1>6 DEF TimerFires
    <2>2. b \in Block /\ Fine(b)
      BY BlockFacts DEF Fine
    <2>3. QED
      BY <1>0, <2>1, <2>2, LearnedKept, FineKept
  <1>7. ASSUME stunResolve \/ stunDestroy PROVE Learned' /\ FineQueue'
    <2> DEFINE b == [op |-> "resolve"]
    <2>1. /\ queue' = queue \/ queue' = Append(queue, b)
          /\ UNCHANGED <<nat, contacted, receiver, completed, results>>
      BY <1>7 DEF stunResolve, stunDestroy, network, tests
    <2>2. b \in Block /\ Fine(b)
      BY BlockFacts DEF Fine
    <2>3. QED
      BY <1>0, <2>1, <2>2, LearnedKept, FineKept
  <1>8. ASSUME NEW packet \in Packet, Receive(packet),
               packet.kind # "foreign" =>
                 (packet.id = "filtering1" /\ packet.from = Other =>
                    nat.filtering # "AddressAndPortDependent"),
               UNCHANGED <<nat, contacted, tests>>
        PROVE  Learned' /\ FineQueue'
    <2> DEFINE b == [op |-> "receive", test |-> receiver, packet |-> packet]
    <2>1. UNCHANGED <<receiver, completed, results>>
      BY <1>8 DEF tests
    <2>2. Learned'
      BY <1>8, <2>1, LearnedKept
    <2>3. CASE receiver = "none"
      <3>1. queue' = queue
        BY <1>8, <2>3 DEF Receive
      <3>2. QED
        BY <1>0, <1>8, <2>2, <3>1, FineKept
    <2>4. CASE receiver # "none"
      <3>1. queue' = Append(queue, b)
        BY <1>8, <2>4 DEF Receive
      <3>2. b \in Block
        BY <2>4, BlockFacts DEF ControlInv, Typed, TypeOK
      <3>3. Fine(b)
        BY <1>8 DEF Fine
      <3>4. QED
        BY <1>0, <1>8, <2>2, <3>1, <3>2, <3>3, FineKept
    <2>5. QED
      BY <2>3, <2>4
  <1>9. ASSUME ReceiveForeign PROVE Learned' /\ FineQueue'
    <2> DEFINE packet == [kind |-> "foreign"]
    <2>1. packet \in Packet /\ packet.kind = "foreign"
      BY BlockFacts
    <2>2. Receive(packet) /\ UNCHANGED <<nat, contacted, tests>>
      BY <1>9 DEF ReceiveForeign
    <2> HIDE DEF packet
    <2>3. QED
      BY <1>8, <2>1, <2>2
  <1>10. ASSUME NEW t \in Test, NEW kind \in {"address", "error"},
                NEW from \in {Origin(t), Dest(t)}, Answer(t, kind, from)
         PROVE  Learned' /\ FineQueue'
    <2> DEFINE packet == [kind |-> kind, id |-> t, from |-> from]
    <2>1. packet \in Packet /\ packet.id = t /\ packet.from = from
      BY AddrFacts, BlockFacts
    <2>2. /\ Receive(packet) /\ UNCHANGED <<nat, contacted, tests>>
          /\ LetsIn(from, t)
      BY <1>10 DEF Answer
    <2>3. t = "filtering1" /\ from = Other => nat.filtering # "AddressAndPortDependent"
      BY <2>2, LetInFine
    <2> HIDE DEF packet
    <2>4. QED
      BY <1>8, <2>1, <2>2, <2>3
  <1>11. ASSUME UNCHANGED vars PROVE Learned' /\ FineQueue'
    <2>1. UNCHANGED <<nat, contacted, queue, receiver, completed, results>>
      BY <1>11 DEF vars, network, tests
    <2>2. QED
      BY <1>0, <2>1, LearnedKept, FineKept
  <1>12. QED
    BY <1>1, <1>2, <1>3, <1>4, <1>5, <1>6, <1>7, <1>9, <1>10, <1>11
       DEF Next, DispatchQueue, Timers

LEMMA LearnedAlways == Spec => []Learned
  <1>1. Init => ControlInv /\ Learned /\ FineQueue
    BY PhasesStart, LearnedStart
  <1>2. (ControlInv /\ Learned /\ FineQueue) /\ [Next]_vars =>
          (ControlInv /\ Learned /\ FineQueue)'
    BY PhasesKept, LearnedStep
  <1>3. QED
    BY <1>1, <1>2, PTL DEF Spec

\* The behavior the client reports (stunTestStartBehavior1, ...2) is the
\* NAT's as far as one mapping, several or no NAT goes, whichever requests
\* were lost, repeated or answered late.
THEOREM BehaviorAlwaysSound == Spec => []BehaviorSound
  <1>1. Learned => BehaviorSound
    BY DEF Learned
  <1>2. QED
    BY <1>1, LearnedAlways, PTL

\* A NAT that filters by address and port is never reported as one that lets
\* in everything (stunTestStartFiltering1): the behavior tests sent to
\* the other address only where its answer comes to another mapping.
THEOREM FilteringAlwaysSound == Spec => []FilteringSound
  <1>1. Learned => FilteringSound
    BY DEF Learned
  <1>2. QED
    BY <1>1, LearnedAlways, PTL
=============================================================================
