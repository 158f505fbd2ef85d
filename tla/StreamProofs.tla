---------------------------- MODULE StreamProofs ----------------------------
(***************************************************************************)
(* The stream session keeps its types, its timer is balanced while the     *)
(* queue does not run inside the application's calls, and flow control     *)
(* returns to good mode only after a long enough run of good round trips.  *)
(***************************************************************************)
EXTENDS Stream, FiniteSetTheorems, SequenceTheorems, TLAPS

LEMMA MinOfTwo ==
  ASSUME NEW a \in Int, NEW b \in Int
  PROVE  Min({a, b}) = IF a <= b THEN a ELSE b
  <1>1. \E x \in {a, b} : \A y \in {a, b} : x =< y
    OBVIOUS
  <1>2. Min({a, b}) \in {a, b} /\ \A y \in {a, b} : Min({a, b}) =< y
    BY <1>1 DEF Min
  <1>3. QED
    BY <1>2

LEMMA MaxOfTwo ==
  ASSUME NEW a \in Int, NEW b \in Int
  PROVE  Max({a, b}) = IF a >= b THEN a ELSE b
  <1>1. \E x \in {a, b} : \A y \in {a, b} : x >= y
    OBVIOUS
  <1>2. Max({a, b}) \in {a, b} /\ \A y \in {a, b} : Max({a, b}) >= y
    BY <1>1 DEF Max
  <1>3. QED
    BY <1>2

-----------------------------------------------------------------------------
(* Flow control *)

LEMMA ClearFlow == streamFlowClear \in FlowType
  BY PenaltyAssumption DEF streamFlowClear, FlowType

\* The penalty stays between its bounds when it is doubled or halved.
LEMMA RelapseFlow ==
  ASSUME NEW f \in FlowType
  PROVE  /\ Relapse(f) \in FlowType /\ Relapse(f).mode = "Bad"
         /\ Relapse(f).goodConditions = 0
  <1> DEFINE penalty == IF f.goodConditions < LongGood /\ f.penalty < MaxPenalty
                        THEN Min({2 * f.penalty, MaxPenalty}) ELSE f.penalty
  <1>1. f.penalty \in MinPenalty..MaxPenalty /\ MinPenalty \in Nat /\ MaxPenalty \in Nat
    BY PenaltyAssumption DEF FlowType
  <1>2. penalty \in MinPenalty..MaxPenalty
    <2>1. 2 * f.penalty \in Int /\ MaxPenalty \in Int
      BY <1>1
    <2>2. Min({2 * f.penalty, MaxPenalty}) = IF 2 * f.penalty <= MaxPenalty THEN 2 * f.penalty
                                             ELSE MaxPenalty
      BY <2>1, MinOfTwo
    <2>3. QED
      BY <1>1, <2>2
  <1>3. Relapse(f) = [f EXCEPT !.mode = "Bad", !.penalty = penalty, !.goodConditions = 0,
                               !.penaltyReductionAccumulator = 0]
    BY DEF Relapse
  <1> HIDE DEF penalty
  <1>4. 0 \in 0..(ReductionPeriod + 1)
    BY PenaltyAssumption
  <1>5. f = [mode |-> f.mode, goodConditions |-> f.goodConditions, penalty |-> f.penalty,
             penaltyReductionAccumulator |-> f.penaltyReductionAccumulator]
    BY DEF FlowType
  <1>6. Relapse(f) = [mode |-> "Bad", goodConditions |-> 0, penalty |-> penalty,
                      penaltyReductionAccumulator |-> 0]
    BY <1>3, <1>5
  <1>7. QED
    BY <1>2, <1>4, <1>6 DEF FlowType

LEMMA StayGoodFlow ==
  ASSUME NEW f \in FlowType
  PROVE  StayGood(f) \in FlowType /\ StayGood(f).mode = f.mode
  <1> DEFINE acc == Min({f.penaltyReductionAccumulator + 1, ReductionPeriod + 1})
             halve == acc > ReductionPeriod /\ f.penalty > MinPenalty
             good == Min({f.goodConditions + 1, LongGood})
             penalty == IF halve THEN Max({f.penalty \div 2, MinPenalty}) ELSE f.penalty
             next == IF halve THEN 0 ELSE acc
  <1>1. /\ f.penalty \in MinPenalty..MaxPenalty /\ MinPenalty \in Nat /\ MaxPenalty \in Nat
        /\ f.goodConditions \in Nat /\ LongGood \in Nat /\ ReductionPeriod \in Nat
        /\ f.penaltyReductionAccumulator \in 0..(ReductionPeriod + 1)
    BY PenaltyAssumption DEF FlowType
  <1>2. acc \in 0..(ReductionPeriod + 1)
    <2>1. acc = IF f.penaltyReductionAccumulator + 1 <= ReductionPeriod + 1
                THEN f.penaltyReductionAccumulator + 1 ELSE ReductionPeriod + 1
      BY <1>1, MinOfTwo
    <2>2. QED
      BY <1>1, <2>1
  <1>3. good \in Nat
    <2>1. good = IF f.goodConditions + 1 <= LongGood THEN f.goodConditions + 1 ELSE LongGood
      BY <1>1, MinOfTwo
    <2>2. QED
      BY <1>1, <2>1
  <1>4. penalty \in MinPenalty..MaxPenalty
    <2>1. f.penalty \div 2 \in Int /\ f.penalty \div 2 <= f.penalty
      BY <1>1
    <2>2. Max({f.penalty \div 2, MinPenalty}) = IF f.penalty \div 2 >= MinPenalty
                                                THEN f.penalty \div 2 ELSE MinPenalty
      BY <1>1, <2>1, MaxOfTwo
    <2> HIDE DEF halve
    <2>3. QED
      BY <1>1, <2>1, <2>2
  <1>5. next \in 0..(ReductionPeriod + 1)
    BY <1>1, <1>2
  <1>6. StayGood(f) = [f EXCEPT !.goodConditions = good, !.penalty = penalty,
                                !.penaltyReductionAccumulator = next]
    BY DEF StayGood
  <1> HIDE DEF good, penalty, next
  <1>7. QED
    BY <1>3, <1>4, <1>5, <1>6 DEF FlowType

LEMMA RecoverFlow ==
  ASSUME NEW f \in FlowType, f.mode = "Bad", NEW good \in BOOLEAN
  PROVE  LET conditions == IF good THEN f.goodConditions + 1 ELSE 0
             g == Recover(f, good)
         IN  /\ g \in FlowType
             /\ g.mode = "Good" => conditions > f.penalty
             /\ g.mode = "Bad" => g.goodConditions = conditions /\ conditions <= f.penalty
  <1> DEFINE conditions == IF good THEN f.goodConditions + 1 ELSE 0
  <1>1. conditions \in Nat /\ f.penalty \in Nat /\ 0 \in 0..(ReductionPeriod + 1)
    BY PenaltyAssumption DEF FlowType
  <1>2. Recover(f, good) =
          IF conditions > f.penalty
          THEN [f EXCEPT !.mode = "Good", !.goodConditions = 0, !.penaltyReductionAccumulator = 0]
          ELSE [f EXCEPT !.goodConditions = conditions]
    BY DEF Recover
  <1> HIDE DEF conditions
  <1>3. CASE conditions > f.penalty
    <2>1. Recover(f, good) = [f EXCEPT !.mode = "Good", !.goodConditions = 0,
                                       !.penaltyReductionAccumulator = 0]
      BY <1>2, <1>3
    <2>2. f = [mode |-> f.mode, goodConditions |-> f.goodConditions, penalty |-> f.penalty,
               penaltyReductionAccumulator |-> f.penaltyReductionAccumulator]
          /\ f.penalty \in MinPenalty..MaxPenalty
      BY DEF FlowType
    <2>3. Recover(f, good) = [mode |-> "Good", goodConditions |-> 0, penalty |-> f.penalty,
                              penaltyReductionAccumulator |-> 0]
      BY <2>1, <2>2
    <2>4. Recover(f, good) \in FlowType /\ Recover(f, good).mode = "Good"
      BY <1>1, <2>2, <2>3 DEF FlowType
    <2>5. QED
      BY <1>3, <2>4 DEF conditions
  <1>4. CASE ~(conditions > f.penalty)
    <2>1. Recover(f, good) = [f EXCEPT !.goodConditions = conditions]
      BY <1>2, <1>4
    <2>2. Recover(f, good) \in FlowType /\ Recover(f, good).mode = "Bad"
          /\ Recover(f, good).goodConditions = conditions
      BY <1>1, <2>1 DEF FlowType
    <2>3. conditions <= f.penalty
      BY <1>1, <1>4
    <2>4. QED
      BY <2>2, <2>3 DEF conditions
  <1>5. QED
    BY <1>3, <1>4

\* What one update of the flow does: the way to good mode is from bad mode,
\* with good conditions longer than the penalty.
LEMMA FlowStep ==
  ASSUME NEW f \in FlowType, NEW good \in BOOLEAN
  PROVE  LET g == streamFlowUpdate(f, good)
         IN  /\ g \in FlowType
             /\ f.mode = "Bad" /\ g.mode = "Good" => good /\ f.goodConditions + 1 > f.penalty
             /\ g.mode = "Bad" =>
                  \/ g.goodConditions = 0
                  \/ /\ f.mode = "Bad" /\ good
                     /\ g.goodConditions = f.goodConditions + 1 /\ g.goodConditions <= MaxPenalty
  <1> DEFINE g == streamFlowUpdate(f, good)
  <1>1. f.mode \in {"Good", "Bad"} /\ f.penalty \in MinPenalty..MaxPenalty /\ f.goodConditions \in Nat
        /\ MinPenalty \in Nat /\ MaxPenalty \in Nat
    BY PenaltyAssumption DEF FlowType
  <1>2. CASE f.mode = "Bad"
    <2>1. g = Recover(f, good)
      BY <1>2 DEF streamFlowUpdate
    <2> HIDE DEF g
    <2> DEFINE conditions == IF good THEN f.goodConditions + 1 ELSE 0
    <2>2. /\ g \in FlowType
          /\ g.mode = "Good" => conditions > f.penalty
          /\ g.mode = "Bad" => g.goodConditions = conditions /\ conditions <= f.penalty
      BY <1>2, <2>1, RecoverFlow
    <2>3. CASE good
      <3>1. conditions = f.goodConditions + 1
        BY <2>3
      <3>2. f.penalty <= MaxPenalty /\ f.penalty \in Nat
        BY <1>1
      <3> HIDE DEF conditions
      <3>3. g.mode = "Bad" => g.goodConditions = f.goodConditions + 1 /\ g.goodConditions <= MaxPenalty
        BY <1>1, <2>2, <3>1, <3>2
      <3>4. QED
        BY <1>2, <2>2, <2>3, <3>1, <3>3 DEF g
    <2>4. CASE ~good
      <3>1. conditions = 0 /\ ~(conditions > f.penalty)
        BY <1>1, <2>4
      <3>2. QED
        BY <2>2, <3>1 DEF g
    <2>5. QED
      BY <2>3, <2>4
  <1>3. CASE f.mode = "Good" /\ good
    <2>1. StayGood(f) \in FlowType /\ StayGood(f).mode = "Good"
      BY <1>3, StayGoodFlow
    <2>2. g = StayGood(f)
      BY <1>3, <2>1 DEF streamFlowUpdate
    <2>3. QED
      BY <1>3, <2>1, <2>2
  <1>4. CASE f.mode = "Good" /\ ~good
    <2>1. /\ Relapse(f) \in FlowType /\ Relapse(f).mode = "Bad"
      BY RelapseFlow
    <2>2. g = Recover(Relapse(f), good)
      BY <1>4, <2>1 DEF streamFlowUpdate
    <2>3. /\ g \in FlowType /\ (g.mode = "Bad" => g.goodConditions = 0)
      BY <1>4, <2>1, <2>2, RecoverFlow
    <2>4. QED
      BY <1>4, <2>3
  <1>5. QED
    BY <1>1, <1>2, <1>3, <1>4

-----------------------------------------------------------------------------
(* One tick of a stream *)

\* Good conditions are only counted while the round trip time stays good.
StreakCovers(s) == s.flow.mode = "Bad" => s.flow.goodConditions <= s.streak

LEMMA CreateStream == streamCreate \in StreamType /\ StreakCovers(streamCreate)
  <1>1. streamFlowClear \in FlowType /\ streamFlowClear.goodConditions = 0
    BY ClearFlow DEF streamFlowClear
  <1>2. /\ 0 \in 0..(StreamTimeout + 1) /\ 0 \in 0..BadInterval /\ 0 \in 0..(MaxPenalty + 1)
    BY StreamAssumption, PenaltyAssumption
  <1>3. streamCreate \in StreamType
    BY <1>1, <1>2 DEF streamCreate, StreamType
  <1>4. streamCreate.flow = streamFlowClear /\ streamCreate.streak = 0
    BY DEF streamCreate
  <1>5. QED
    BY <1>1, <1>3, <1>4 DEF StreakCovers

LEMMA StreakStep ==
  ASSUME NEW s \in StreamType
  PROVE  /\ Streak(s) \in 0..(MaxPenalty + 1)
         /\ s.rtt => \/ Streak(s) = s.streak + 1
                     \/ Streak(s) = MaxPenalty + 1 /\ Streak(s) <= s.streak + 1
         /\ ~s.rtt => Streak(s) = 0
  <1>1. s.streak \in 0..(MaxPenalty + 1) /\ MaxPenalty \in Nat
    BY PenaltyAssumption DEF StreamType
  <1>2. Min({s.streak + 1, MaxPenalty + 1}) = IF s.streak + 1 <= MaxPenalty + 1 THEN s.streak + 1
                                              ELSE MaxPenalty + 1
    BY <1>1, MinOfTwo
  <1>3. CASE s.rtt
    <2>1. Streak(s) = IF s.streak + 1 <= MaxPenalty + 1 THEN s.streak + 1 ELSE MaxPenalty + 1
      BY <1>2, <1>3 DEF Streak
    <2>2. QED
      BY <1>1, <1>3, <2>1
  <1>4. CASE ~s.rtt
    BY <1>1, <1>4 DEF Streak
  <1>5. QED
    BY <1>3, <1>4

\* The stream after a tick, told whether it was sent data
Ticked(s, to) == [Updated(s, streamFlowUpdate(s.flow, s.rtt)) EXCEPT !.sent = @ \/ to]

LEMMA TickStream ==
  ASSUME NEW s \in StreamType, NEW to \in BOOLEAN
  PROVE  LET u == Ticked(s, to)
         IN  /\ u \in StreamType
             /\ u.flow = streamFlowUpdate(s.flow, s.rtt)
             /\ u.streak = Streak(s)
  <1> DEFINE flow == streamFlowUpdate(s.flow, s.rtt)
             silence == Min({s.timeoutAccumulator + 1, StreamTimeout + 1})
             update == IF Due(s, flow) THEN 0 ELSE s.updateAccumulator + 1
             streak == Streak(s)
  <1>1. /\ s.flow \in FlowType /\ s.rtt \in BOOLEAN /\ s.sent \in BOOLEAN
        /\ s.state \in {"Waiting", "Timeout"}
        /\ s.timeoutAccumulator \in 0..(StreamTimeout + 1) /\ s.updateAccumulator \in 0..BadInterval
    BY DEF StreamType
  <1>2. flow \in FlowType
    BY <1>1, FlowStep
  <1>3. silence \in 0..(StreamTimeout + 1)
    <2>1. silence = IF s.timeoutAccumulator + 1 <= StreamTimeout + 1 THEN s.timeoutAccumulator + 1
                    ELSE StreamTimeout + 1
      BY <1>1, StreamAssumption, MinOfTwo
    <2>2. QED
      BY <1>1, <2>1, StreamAssumption
  <1>4. update \in 0..BadInterval
    <2>1. Interval(flow) <= BadInterval /\ Interval(flow) \in Nat
      BY StreamAssumption DEF Interval
    <2>2. QED
      BY <1>1, <2>1, StreamAssumption DEF Due
  <1>5. streak \in 0..(MaxPenalty + 1)
    BY StreakStep
  <1>6. s = [state |-> s.state, timeoutAccumulator |-> s.timeoutAccumulator,
             updateAccumulator |-> s.updateAccumulator, sent |-> s.sent, rtt |-> s.rtt,
             flow |-> s.flow, streak |-> s.streak]
    BY DEF StreamType
  <1>7. Updated(s, flow) = [s EXCEPT !.flow = flow, !.streak = streak,
                                     !.timeoutAccumulator = silence, !.updateAccumulator = update]
    BY DEF Updated
  <1>8. Ticked(s, to) = [Updated(s, flow) EXCEPT !.sent = @ \/ to]
    BY DEF Ticked
  <1> HIDE DEF flow, silence, update, streak
  <1>9. Updated(s, flow) = [state |-> s.state, timeoutAccumulator |-> silence,
                            updateAccumulator |-> update, sent |-> s.sent, rtt |-> s.rtt,
                            flow |-> flow, streak |-> streak]
    BY <1>6, <1>7
  <1>10. Ticked(s, to) = [state |-> s.state, timeoutAccumulator |-> silence,
                          updateAccumulator |-> update, sent |-> (s.sent \/ to), rtt |-> s.rtt,
                          flow |-> flow, streak |-> streak]
    BY <1>8, <1>9
  <1>11. (s.sent \/ to) \in BOOLEAN
    OBVIOUS
  <1>12. Ticked(s, to) \in StreamType
    BY <1>1, <1>2, <1>3, <1>4, <1>5, <1>10, <1>11 DEF StreamType
  <1>13. Ticked(s, to).flow = flow /\ Ticked(s, to).streak = streak
    BY <1>10
  <1>14. QED
    BY <1>12, <1>13 DEF flow, streak

LEMMA TickStreak ==
  ASSUME NEW s \in StreamType, StreakCovers(s), NEW to \in BOOLEAN
  PROVE  LET u == Ticked(s, to)
         IN  /\ StreakCovers(u)
             /\ s.flow.mode = "Bad" /\ u.flow.mode = "Good" => u.streak > s.flow.penalty
  <1> DEFINE u == Ticked(s, to)
  <1>1. /\ s.flow \in FlowType /\ s.rtt \in BOOLEAN /\ s.streak \in 0..(MaxPenalty + 1)
    BY DEF StreamType
  <1>2. /\ s.flow.penalty \in Nat /\ s.flow.penalty <= MaxPenalty /\ s.flow.goodConditions \in Nat
        /\ MaxPenalty \in Nat
    BY <1>1, PenaltyAssumption DEF FlowType
  <1>3. u.flow = streamFlowUpdate(s.flow, s.rtt) /\ u.streak = Streak(s)
    BY TickStream
  <1>4. /\ Streak(s) \in 0..(MaxPenalty + 1)
        /\ s.rtt => \/ Streak(s) = s.streak + 1
                    \/ Streak(s) = MaxPenalty + 1 /\ Streak(s) <= s.streak + 1
        /\ ~s.rtt => Streak(s) = 0
    BY StreakStep
  <1> HIDE DEF u
  <1>5. /\ s.flow.mode = "Bad" /\ u.flow.mode = "Good"
             => s.rtt /\ s.flow.goodConditions + 1 > s.flow.penalty
        /\ u.flow.mode = "Bad" =>
             \/ u.flow.goodConditions = 0
             \/ /\ s.flow.mode = "Bad" /\ s.rtt
                /\ u.flow.goodConditions = s.flow.goodConditions + 1
                /\ u.flow.goodConditions <= MaxPenalty
    BY <1>1, <1>3, FlowStep
  <1>6. ASSUME s.flow.mode = "Bad", u.flow.mode = "Good" PROVE u.streak > s.flow.penalty
    BY <1>1, <1>2, <1>3, <1>4, <1>5, <1>6 DEF StreakCovers
  <1>7. ASSUME u.flow.mode = "Bad" PROVE u.flow.goodConditions <= u.streak
    BY <1>1, <1>2, <1>3, <1>4, <1>5, <1>7 DEF StreakCovers
  <1>8. QED
    BY <1>6, <1>7 DEF StreakCovers, u

-----------------------------------------------------------------------------
(* The session *)

SessionInv ==
  /\ TypeOK
  /\ queue \in Seq(Block)
  /\ IsFiniteSet(streams)
  /\ \A a \in Addr : StreakCovers(stream[a])

LEMMA QueueHead ==
  ASSUME queue \in Seq(Block), queue # << >>
  PROVE  Head(queue).addr \in Addr /\ Tail(queue) \in Seq(Block)
  <1>1. Head(queue) \in Block /\ Tail(queue) \in Seq(Block)
    BY HeadTailProperties
  <1>2. \A b \in Block : b.addr \in Addr
    BY DEF Block
  <1>3. QED
    BY <1>1, <1>2

LEMMA QueueAppend ==
  ASSUME queue \in Seq(Block), NEW op \in {"add", "remove", "receive"}, NEW a \in Addr
  PROVE  /\ Append(queue, [op |-> op, addr |-> a]) \in Seq(Block)
         /\ queue # << >> => Append(Tail(queue), [op |-> op, addr |-> a]) \in Seq(Block)
  <1> DEFINE b == [op |-> op, addr |-> a]
  <1>1. b \in Block
    BY DEF Block
  <1> HIDE DEF b
  <1>2. Append(queue, b) \in Seq(Block)
    BY <1>1, AppendProperties
  <1>3. queue # << >> => Append(Tail(queue), b) \in Seq(Block)
    BY <1>1, HeadTailProperties, AppendProperties
  <1>4. QED
    BY <1>2, <1>3 DEF b

\* The timeout blocks of one tick form a sequence, in some order.
LEMMA TimeoutBlocks ==
  ASSUME NEW late \in SUBSET Addr, IsFiniteSet(late), created \in [Addr -> Nat],
         queue \in Seq(Block)
  PROVE  queue \o SetToSeq({[op |-> "timeout", addr |-> a, stream |-> created[a]] : a \in late})
           \in Seq(Block)
  <1> DEFINE Made(a) == [op |-> "timeout", addr |-> a, stream |-> created[a]]
             T == {Made(a) : a \in late}
             b == [a \in late |-> Made(a)]
  <1>1. T \subseteq Block
    BY DEF Block
  <1>2. ExistsBijection(late, T)
    <2>1. \A a : Made(a).addr = a
      OBVIOUS
    <2> HIDE DEF Made
    <2>2. b \in [late -> T] /\ \A a \in late : b[a] = Made(a)
      OBVIOUS
    <2>3. \A a, c \in late : b[a] = b[c] => a = c
      BY <2>1, <2>2
    <2>4. \A t \in T : \E a \in late : b[a] = t
      OBVIOUS
    <2> HIDE DEF b, T
    <2>5. b \in Injection(late, T) /\ b \in Surjection(late, T)
      BY <2>2, <2>3, <2>4 DEF Injection, Surjection, IsInjective
    <2>6. QED
      BY <2>5 DEF ExistsBijection, Bijection
  <1> HIDE DEF T
  <1>3. IsFiniteSet(T)
    BY <1>2, FS_Bijection
  <1>4. Cardinality(T) \in Nat /\ ExistsBijection(1..Cardinality(T), T)
    BY <1>3, FS_CardinalityType
  <1>5. \E f \in [1..Cardinality(T) -> T] : IsInjective(f)
    BY <1>4 DEF ExistsBijection, Bijection, Injection, IsInjective
  <1>6. SetToSeq(T) \in [1..Cardinality(T) -> T]
    BY <1>5 DEF SetToSeq
  <1> DEFINE u == SetToSeq(T)
             n == Cardinality(T)
  <1> HIDE DEF u, n
  <1>7. u \in [1..n -> T] /\ n \in Nat
    BY <1>4, <1>6 DEF u, n
  <1>8. u \in Seq(Block)
    <2>1. u \in [1..n -> Block]
      BY <1>1, <1>7
    <2>2. QED
      BY <1>7, <2>1
  <1>9. queue \o u \in Seq(Block)
    BY <1>8, ConcatProperties
  <1>10. QED
    BY <1>9 DEF u, T

LEMMA InitSession == Init => SessionInv
  <1> SUFFICES ASSUME Init PROVE SessionInv
    OBVIOUS
  <1>1. stream \in [Addr -> StreamType] /\ \A a \in Addr : StreakCovers(stream[a])
    BY CreateStream DEF Init
  <1>2. queue \in Seq(Block) /\ Len(queue) = 0
    BY EmptySeq DEF Init
  <1>3. IsFiniteSet(streams)
    BY FS_EmptySet DEF Init
  <1>4. /\ created \in [Addr -> Nat] /\ reports \in [Addr -> 0..2]
        /\ suspended \in Int /\ calls \in 0..MaxCalls /\ refusals \in 0..MaxRefusals
    BY StreamAssumption DEF Init
  <1>5. /\ active \in BOOLEAN /\ torn \in BOOLEAN /\ app \in {"idle", "suspend", "resume"}
        /\ streams \in SUBSET Addr /\ sentTo \in SUBSET Addr
    BY DEF Init
  <1>6. TypeOK
    BY <1>1, <1>2, <1>4, <1>5 DEF TypeOK
  <1>7. QED
    BY <1>1, <1>2, <1>3, <1>6 DEF SessionInv

\* What a step may do to the streams: nothing, create one that is not in the
\* list, leave a stream's flow and streak alone, or let the streams of the
\* list tick.
StreamStep ==
  \/ stream' = stream
  \/ \E a \in Addr \ streams : stream' = [stream EXCEPT ![a] = streamCreate]
  \/ \E a \in Addr, u \in StreamType :
       /\ stream' = [stream EXCEPT ![a] = u]
       /\ u.flow = stream[a].flow /\ u.streak = stream[a].streak
  \/ \E to : stream' = [a \in Addr |-> IF a \in streams THEN Ticked(stream[a], a \in to)
                                       ELSE stream[a]]

LEMMA NextStreamStep ==
  ASSUME SessionInv, [Next]_vars
  PROVE  StreamStep
  <1>1. stream \in [Addr -> StreamType] /\ queue \in Seq(Block)
    BY DEF SessionInv, TypeOK
  <1>2. stream' = stream => StreamStep
    BY DEF StreamStep
  <1>3. ASSUME RunAdd PROVE StreamStep
    <2>1. Head(queue).addr \in Addr
      BY <1>1, <1>3, QueueHead DEF RunAdd, Runs
    <2>2. QED
      BY <1>3, <2>1 DEF RunAdd, StreamStep
  <1>4. ASSUME RunReceive PROVE StreamStep
    <2> DEFINE a == Head(queue).addr
    <2>1. a \in Addr /\ stream[a] \in StreamType
      BY <1>1, <1>4, QueueHead DEF RunReceive, Runs
    <2>2. CASE a \notin streams
      BY <1>2, <1>4, <2>2 DEF RunReceive
    <2>3. CASE a \in streams
      <3>1. PICK rtt \in {stream[a].rtt} \cup (IF stream[a].sent THEN Rtt ELSE {}) :
              stream' = [stream EXCEPT ![a].timeoutAccumulator = 0, ![a].rtt = rtt]
        BY <1>4, <2>3 DEF RunReceive
      <3>2. rtt \in BOOLEAN /\ 0 \in 0..(StreamTimeout + 1)
        BY <2>1, StreamAssumption DEF StreamType
      <3> HIDE DEF a
      <3> DEFINE v == [stream[a] EXCEPT !.timeoutAccumulator = 0]
                 u == [v EXCEPT !.rtt = rtt]
      <3>3. v \in StreamType /\ v.flow = stream[a].flow /\ v.streak = stream[a].streak
        BY <2>1, <3>2 DEF StreamType
      <3>4. stream' = [stream EXCEPT ![a] = u]
        BY <1>1, <2>1, <3>1
      <3> HIDE DEF v
      <3>5. u \in StreamType /\ u.flow = v.flow /\ u.streak = v.streak
        BY <3>2, <3>3 DEF StreamType
      <3> HIDE DEF u
      <3>6. QED
        BY <2>1, <3>3, <3>4, <3>5 DEF StreamStep
    <2>4. QED
      BY <2>2, <2>3
  <1>5. ASSUME RunTimeout PROVE StreamStep
    <2> DEFINE a == Head(queue).addr
               u == [stream[a] EXCEPT !.state = "Timeout"]
    <2>1. a \in Addr /\ stream[a] \in StreamType
      BY <1>1, <1>5, QueueHead DEF RunTimeout, Runs
    <2>2. stream' = stream \/ stream' = [stream EXCEPT ![a] = u]
      BY <1>5 DEF RunTimeout
    <2> HIDE DEF a
    <2>3. u \in StreamType /\ u.flow = stream[a].flow /\ u.streak = stream[a].streak
      BY <2>1 DEF StreamType
    <2> HIDE DEF u
    <2>4. QED
      BY <2>1, <2>2, <2>3 DEF StreamStep
  <1>6. ASSUME streamTimerCallback PROVE StreamStep
    <2> DEFINE flow == [a \in streams |-> streamFlowUpdate(stream[a].flow, stream[a].rtt)]
    <2>1. stream' = [a \in Addr |->
                       IF a \in streams
                       THEN [Updated(stream[a], flow[a]) EXCEPT !.sent = @ \/ a \in sentTo']
                       ELSE stream[a]]
      BY <1>6 DEF streamTimerCallback
    <2>2. \A a \in streams : flow[a] = streamFlowUpdate(stream[a].flow, stream[a].rtt)
      OBVIOUS
    <2> HIDE DEF flow
    <2>3. stream' = [a \in Addr |-> IF a \in streams THEN Ticked(stream[a], a \in sentTo')
                                    ELSE stream[a]]
      BY <2>1, <2>2 DEF Ticked
    <2>4. QED
      BY <2>3 DEF StreamStep
  <1>7. QED
    BY <1>2, <1>3, <1>4, <1>5, <1>6
    DEF Next, vars, Dispatch, SocketReceive, AppSuspendTest, AppResumeTest, AppAct,
        streamTeardown, DispatchQueue, RunRemove

LEMMA StreamStepTypes ==
  ASSUME SessionInv, StreamStep
  PROVE  /\ stream' \in [Addr -> StreamType]
         /\ \A a \in Addr : StreakCovers(stream'[a])
  <1>1. stream \in [Addr -> StreamType] /\ \A a \in Addr : StreakCovers(stream[a])
    BY DEF SessionInv, TypeOK
  <1>2. CASE stream' = stream
    BY <1>1, <1>2
  <1>3. ASSUME NEW a \in Addr, stream' = [stream EXCEPT ![a] = streamCreate]
        PROVE  /\ stream' \in [Addr -> StreamType]
               /\ \A x \in Addr : StreakCovers(stream'[x])
    <2>1. stream' \in [Addr -> StreamType]
      BY <1>1, <1>3, CreateStream
    <2>2. \A x \in Addr : stream'[x] = streamCreate \/ stream'[x] = stream[x]
      BY <1>1, <1>3
    <2>3. QED
      BY <1>1, <2>1, <2>2, CreateStream
  <1>4. ASSUME NEW a \in Addr, NEW u \in StreamType, stream' = [stream EXCEPT ![a] = u],
               u.flow = stream[a].flow, u.streak = stream[a].streak
        PROVE  /\ stream' \in [Addr -> StreamType]
               /\ \A x \in Addr : StreakCovers(stream'[x])
    <2>1. stream' \in [Addr -> StreamType]
      BY <1>1, <1>4
    <2>2. StreakCovers(u)
      BY <1>1, <1>4 DEF StreakCovers
    <2>3. \A x \in Addr : stream'[x] = u \/ stream'[x] = stream[x]
      BY <1>1, <1>4
    <2>4. QED
      BY <1>1, <2>1, <2>2, <2>3
  <1>5. ASSUME NEW to,
               stream' = [a \in Addr |-> IF a \in streams THEN Ticked(stream[a], a \in to)
                                         ELSE stream[a]]
        PROVE  /\ stream' \in [Addr -> StreamType]
               /\ \A x \in Addr : StreakCovers(stream'[x])
    <2>1. ASSUME NEW x \in Addr
          PROVE  Ticked(stream[x], x \in to) \in StreamType /\ StreakCovers(Ticked(stream[x], x \in to))
      <3>1. stream[x] \in StreamType /\ StreakCovers(stream[x]) /\ (x \in to) \in BOOLEAN
        BY <1>1
      <3>2. QED
        BY <3>1, TickStream, TickStreak
    <2>2. QED
      BY <1>1, <1>5, <2>1
  <1>6. QED
    BY <1>2, <1>3, <1>4, <1>5 DEF StreamStep

LEMMA NextSession ==
  ASSUME SessionInv, [Next]_vars
  PROVE  SessionInv'
  <1> DEFINE Scalars == /\ active \in BOOLEAN /\ torn \in BOOLEAN
                        /\ app \in {"idle", "suspend", "resume"}
             Numbers == suspended \in Int /\ calls \in 0..MaxCalls /\ refusals \in 0..MaxRefusals
             Lists == streams \in SUBSET Addr /\ IsFiniteSet(streams) /\ sentTo \in SUBSET Addr
             Tables == created \in [Addr -> Nat] /\ reports \in [Addr -> 0..2]
             Blocks == queue \in Seq(Block)
             Rest == Scalars /\ Numbers /\ Lists /\ Tables /\ Blocks
  <1>1. Rest
    BY DEF SessionInv, TypeOK
  <1>2. /\ stream' \in [Addr -> StreamType] /\ \A a \in Addr : StreakCovers(stream'[a])
    BY NextStreamStep, StreamStepTypes
  <1>3. Rest' => SessionInv'
    <2>1. SUFFICES ASSUME Rest' PROVE SessionInv'
      OBVIOUS
    <2>2. \A i \in 1..Len(queue') : queue'[i] \in Block
      BY <2>1, ElementOfSeq
    <2>3. TypeOK'
      BY <1>2, <2>1, <2>2 DEF TypeOK
    <2>4. QED
      BY <1>2, <2>1, <2>3 DEF SessionInv
  <1>4. UNCHANGED vars => Rest'
    BY <1>1 DEF vars
  <1>5. ASSUME NEW op \in {"add", "remove"}, NEW a \in Addr, Dispatch(op, a) PROVE Rest'
    <2>1. queue' = Append(queue, [op |-> op, addr |-> a]) /\ calls < MaxCalls /\ calls' = calls + 1
          /\ UNCHANGED <<streams, created, active, suspended, app, torn, refusals, sentTo, reports>>
      BY <1>5 DEF Dispatch
    <2>2. queue' \in Seq(Block)
      BY <1>1, <2>1, QueueAppend
    <2>3. calls' \in 0..MaxCalls
      BY <1>1, <2>1, StreamAssumption
    <2>4. QED
      BY <1>1, <2>1, <2>2, <2>3
  <1>6. ASSUME NEW a \in Addr, SocketReceive(a) PROVE Rest'
    <2>1. queue' = Append(queue, [op |-> "receive", addr |-> a])
          /\ UNCHANGED <<streams, created, active, suspended, app, torn, calls, refusals, sentTo,
                         reports>>
      BY <1>6 DEF SocketReceive
    <2>2. queue' \in Seq(Block)
      BY <1>1, <2>1, QueueAppend
    <2>3. QED
      BY <1>1, <2>1, <2>2
  <1>7. ASSUME AppSuspendTest \/ AppResumeTest PROVE Rest'
    <2>1. /\ calls < MaxCalls /\ calls' = calls + 1 /\ app' \in {"idle", "suspend", "resume"}
          /\ UNCHANGED <<streams, created, active, suspended, queue, torn, refusals, sentTo, reports>>
      BY <1>7 DEF AppSuspendTest, AppResumeTest
    <2>2. calls' \in 0..MaxCalls
      BY <1>1, <2>1, StreamAssumption
    <2>3. QED
      BY <1>1, <2>1, <2>2
  <1>8. ASSUME AppAct PROVE Rest'
    <2>1. active' \in BOOLEAN /\ app' = "idle"
          /\ UNCHANGED <<streams, created, queue, torn, calls, refusals, sentTo, reports>>
      BY <1>8 DEF AppAct
    <2>2. suspended' \in Int
      BY <1>1, <1>8 DEF AppAct
    <2>3. QED
      BY <1>1, <2>1, <2>2
  <1>9. ASSUME streamTeardown PROVE Rest'
    <2>1. torn' = TRUE /\ streams' = {}
          /\ UNCHANGED <<created, active, queue, app, calls, refusals, sentTo, reports>>
      BY <1>9 DEF streamTeardown
    <2>2. suspended' \in Int
      BY <1>1, <1>9 DEF streamTeardown
    <2>3. IsFiniteSet(streams')
      BY <2>1, FS_EmptySet
    <2>4. QED
      BY <1>1, <2>1, <2>2, <2>3
  <1>10. ASSUME RunAdd PROVE Rest'
    <2> DEFINE a == Head(queue).addr
    <2>1. a \in Addr /\ queue' \in Seq(Block)
      BY <1>1, <1>10, QueueHead DEF RunAdd, Runs
    <2>2. UNCHANGED <<app, torn, calls, refusals, sentTo>>
      BY <1>10 DEF RunAdd
    <2>3. \/ UNCHANGED <<streams, created, reports>>
          \/ /\ streams' = streams \cup {a}
             /\ created' = [created EXCEPT ![a] = created[a] + 1]
             /\ reports' = [reports EXCEPT ![a] = 0]
      BY <1>10 DEF RunAdd
    <2>4. active' \in BOOLEAN
      BY <1>1, <1>10 DEF RunAdd, streamResume
    <2>5. suspended' \in Int
      BY <1>1, <1>10 DEF RunAdd, streamResume
    <2> HIDE DEF a
    <2>6. Lists'
      <3>1. IsFiniteSet(streams \cup {a})
        BY <1>1, FS_AddElement
      <3>2. QED
        BY <1>1, <2>1, <2>2, <2>3, <3>1
    <2>7. Tables'
      BY <1>1, <2>1, <2>3
    <2>8. QED
      BY <1>1, <2>1, <2>2, <2>4, <2>5, <2>6, <2>7
  <1>11. ASSUME RunRemove PROVE Rest'
    <2> DEFINE a == Head(queue).addr
    <2>1. a \in Addr /\ queue' \in Seq(Block)
      BY <1>1, <1>11, QueueHead DEF RunRemove, Runs
    <2>2. UNCHANGED <<created, app, torn, calls, refusals, sentTo, reports>> /\ streams' = streams \ {a}
      BY <1>11 DEF RunRemove
    <2>3. active' \in BOOLEAN
      BY <1>1, <1>11 DEF RunRemove, streamSuspend
    <2>4. suspended' \in Int
      BY <1>1, <1>11 DEF RunRemove, streamSuspend
    <2> HIDE DEF a
    <2>5. Lists'
      BY <1>1, <2>2, FS_RemoveElement
    <2>6. QED
      BY <1>1, <2>1, <2>2, <2>3, <2>4, <2>5
  <1>12. ASSUME RunReceive PROVE Rest'
    <2> DEFINE a == Head(queue).addr
    <2>1. a \in Addr /\ queue # << >> /\ Tail(queue) \in Seq(Block)
      BY <1>1, <1>12, QueueHead DEF RunReceive, Runs
    <2>2. UNCHANGED <<streams, created, active, suspended, app, torn, calls, refusals, sentTo>>
      BY <1>12 DEF RunReceive
    <2>3. /\ reports' = reports \/ reports' = [reports EXCEPT ![a] = 0]
          /\ queue' = Tail(queue) \/ queue' = Append(Tail(queue), [op |-> "add", addr |-> a])
      BY <1>12 DEF RunReceive
    <2> HIDE DEF a
    <2>4. queue' \in Seq(Block)
      BY <1>1, <2>1, <2>3, QueueAppend
    <2>5. reports' \in [Addr -> 0..2]
      BY <1>1, <2>1, <2>3
    <2>6. QED
      BY <1>1, <2>2, <2>4, <2>5
  <1>13. ASSUME RunTimeout PROVE Rest'
    <2> DEFINE a == Head(queue).addr
               r == Min({reports[a] + 1, 2})
    <2>1. a \in Addr /\ queue' \in Seq(Block)
      BY <1>1, <1>13, QueueHead DEF RunTimeout, Runs
    <2>2. UNCHANGED <<streams, created, active, suspended, app, torn, calls, refusals, sentTo>>
      BY <1>13 DEF RunTimeout
    <2>3. reports' = reports \/ reports' = [reports EXCEPT ![a] = r]
      BY <1>13 DEF RunTimeout
    <2> HIDE DEF a
    <2>4. r \in 0..2
      <3>1. reports[a] \in 0..2
        BY <1>1, <2>1
      <3>2. r = IF reports[a] + 1 <= 2 THEN reports[a] + 1 ELSE 2
        BY <3>1, MinOfTwo
      <3>3. QED
        BY <3>1, <3>2
    <2> HIDE DEF r
    <2>5. reports' \in [Addr -> 0..2]
      BY <1>1, <2>1, <2>3, <2>4
    <2>6. QED
      BY <1>1, <2>1, <2>2, <2>5
  <1>14. ASSUME streamTimerCallback PROVE Rest'
    <2> DEFINE late == {a \in streams : Silent(stream[a])}
    <2>1. UNCHANGED <<streams, created, active, suspended, app, torn, calls, reports>>
      BY <1>14 DEF streamTimerCallback
    <2>2. PICK packets \in SUBSET streams : \E refused \in SUBSET packets :
            /\ refusals' = refusals + Cardinality(refused) /\ refusals' <= MaxRefusals
            /\ sentTo' = packets \ refused
      <3> DEFINE flow == [a \in streams |-> streamFlowUpdate(stream[a].flow, stream[a].rtt)]
                 packets == IF \A a \in streams : Due(stream[a], flow[a])
                            THEN {a \in streams : stream[a].state = "Waiting"} ELSE {}
      <3>1. \E refused \in SUBSET packets :
              /\ refusals' = refusals + Cardinality(refused) /\ refusals' <= MaxRefusals
              /\ sentTo' = packets \ refused
        BY <1>14 DEF streamTimerCallback
      <3>2. packets \in SUBSET streams
        OBVIOUS
      <3> HIDE DEF packets
      <3>3. QED
        BY <3>1, <3>2
    <2>3. PICK refused \in SUBSET packets :
            /\ refusals' = refusals + Cardinality(refused) /\ refusals' <= MaxRefusals
            /\ sentTo' = packets \ refused
      BY <2>2
    <2>4. refusals' \in 0..MaxRefusals
      <3>1. refused \in SUBSET streams
        BY <2>2
      <3>2. Cardinality(refused) \in Nat
        BY <1>1, <3>1, FS_Subset, FS_CardinalityType
      <3>3. QED
        BY <1>1, <2>3, <3>2, StreamAssumption
    <2>5. sentTo' \in SUBSET Addr
      BY <1>1, <2>3
    <2>6. queue' \in Seq(Block)
      <3>1. late \in SUBSET Addr /\ IsFiniteSet(late)
        <4>1. late \in SUBSET streams
          OBVIOUS
        <4> HIDE DEF late
        <4>2. QED
          BY <1>1, <4>1, FS_Subset
      <3>2. queue' = queue \o SetToSeq({[op |-> "timeout", addr |-> a, stream |-> created[a]]
                                          : a \in late})
        BY <1>14 DEF streamTimerCallback
      <3> HIDE DEF late
      <3>3. QED
        BY <1>1, <3>1, <3>2, TimeoutBlocks
    <2>7. QED
      BY <1>1, <2>1, <2>4, <2>5, <2>6
  <1>15. QED
    BY <1>3, <1>4, <1>5, <1>6, <1>7, <1>8, <1>9, <1>10, <1>11, <1>12, <1>13, <1>14
    DEF Next, DispatchQueue

LEMMA SessionInvariant == Spec => []SessionInv
  BY InitSession, NextSession, PTL DEF Spec

\* Every variable of the session keeps its type: no accumulator, penalty or
\* count of good conditions leaves its range, whatever blocks run late.
THEOREM SessionTypes == Spec => []TypeOK
  <1>1. SessionInv => TypeOK
    BY DEF SessionInv
  <1>2. QED
    BY <1>1, SessionInvariant, PTL

\* Flow control returns to good mode only after an uninterrupted run of good
\* round trips longer than the penalty, whatever blocks of the queue add,
\* remove and time out the stream between the ticks.
THEOREM ReturnAlwaysNeedsStreak == Spec => ReturnNeedsStreak
  <1> DEFINE Slow == \A a \in streams :
                       stream[a].flow.mode = "Bad" /\ stream'[a].flow.mode = "Good"
                         => stream'[a].streak > stream[a].flow.penalty
  <1>1. ASSUME SessionInv, Next PROVE Slow
    <2>1. StreamStep
      BY <1>1, NextStreamStep
    <2>2. /\ stream \in [Addr -> StreamType] /\ \A a \in Addr : StreakCovers(stream[a])
          /\ streams \in SUBSET Addr
      BY <1>1 DEF SessionInv, TypeOK
    <2>3. CASE stream' = stream
      BY <2>3
    <2>4. ASSUME NEW b \in Addr \ streams, stream' = [stream EXCEPT ![b] = streamCreate]
          PROVE  Slow
      <3>1. \A a \in streams : stream'[a] = stream[a]
        BY <2>2, <2>4
      <3>2. QED
        BY <3>1
    <2>5. ASSUME NEW b \in Addr, NEW u \in StreamType, stream' = [stream EXCEPT ![b] = u],
                 u.flow = stream[b].flow, u.streak = stream[b].streak
          PROVE  Slow
      <3>1. \A a \in streams : stream'[a].flow = stream[a].flow
        BY <2>2, <2>5
      <3>2. QED
        BY <3>1
    <2>6. ASSUME NEW to,
                 stream' = [a \in Addr |-> IF a \in streams THEN Ticked(stream[a], a \in to)
                                           ELSE stream[a]]
          PROVE  Slow
      <3> SUFFICES ASSUME NEW a \in streams, stream[a].flow.mode = "Bad",
                          stream'[a].flow.mode = "Good"
                   PROVE  stream'[a].streak > stream[a].flow.penalty
        OBVIOUS
      <3>1. stream[a] \in StreamType /\ StreakCovers(stream[a]) /\ (a \in to) \in BOOLEAN
        BY <2>2
      <3>2. stream'[a] = Ticked(stream[a], a \in to)
        BY <2>2, <2>6
      <3>3. QED
        BY <3>1, <3>2, TickStreak
    <2>7. QED
      BY <2>1, <2>3, <2>4, <2>5, <2>6 DEF StreamStep
  <1>2. SessionInv /\ [Next]_vars => [Slow]_vars
    BY <1>1
  <1> HIDE DEF Slow
  <1>3. Spec => [][Slow]_vars
    BY <1>2, SessionInvariant, PTL DEF Spec
  <1>4. QED
    BY <1>3 DEF ReturnNeedsStreak, Slow

-----------------------------------------------------------------------------
(* The update timer *)

\* What the application's thread has read of config->active is still true
\* when it acts on it, and after streamTeardown nothing is left to run.
BalanceInv ==
  /\ TimerBalanced
  /\ app = "suspend" => active
  /\ app = "resume" => ~active
  /\ torn => app = "idle" /\ queue = << >>

\* While the queue does not run inside streamSuspend, streamResume and after
\* streamTeardown, the timer's suspend count follows config->active: it is
\* never resumed while it runs and not suspended when it is released.
THEOREM TimerAlwaysBalanced ==
  ASSUME Split = FALSE
  PROVE  Spec => []TimerBalanced
  <1>1. Init => BalanceInv
    BY DEF Init, BalanceInv, TimerBalanced
  <1>2. ASSUME SessionInv, BalanceInv, [Next]_vars PROVE BalanceInv'
    <2>1. /\ suspended = (IF active \/ torn THEN 0 ELSE 1)
          /\ app = "suspend" => active
          /\ app = "resume" => ~active
          /\ torn => app = "idle" /\ queue = << >>
      BY <1>2 DEF BalanceInv, TimerBalanced
    <2>2. /\ app \in {"idle", "suspend", "resume"} /\ active \in BOOLEAN /\ torn \in BOOLEAN
      BY <1>2 DEF SessionInv, TypeOK
    <2>3. UNCHANGED vars => BalanceInv'
      BY <2>1 DEF vars, BalanceInv, TimerBalanced
    \* Steps that leave the timer and the application's thread alone
    <2>4. ASSUME UNCHANGED <<active, suspended, app, torn>>, ~torn PROVE BalanceInv'
      BY <2>1, <2>4 DEF BalanceInv, TimerBalanced
    <2>5. ASSUME NEW a \in Addr, Dispatch("add", a) \/ Dispatch("remove", a) \/ SocketReceive(a)
          PROVE  BalanceInv'
      BY <2>4, <2>5 DEF Dispatch, SocketReceive
    <2>6. ASSUME AppSuspendTest \/ AppResumeTest PROVE BalanceInv'
      BY <2>1, <2>2, <2>6 DEF AppSuspendTest, AppResumeTest, BalanceInv, TimerBalanced
    <2>7. ASSUME AppAct PROVE BalanceInv'
      <3>1. app \in {"suspend", "resume"} /\ app' = "idle" /\ ~torn /\ torn' = torn
        BY <2>1, <2>2, <2>7 DEF AppAct
      <3>2. CASE app = "resume"
        <4>1. active' = TRUE /\ suspended' = suspended - 1 /\ suspended = 1
          BY <2>1, <2>7, <3>1, <3>2 DEF AppAct
        <4>2. QED
          BY <3>1, <4>1 DEF BalanceInv, TimerBalanced
      <3>3. CASE app = "suspend"
        <4>1. active' = FALSE /\ suspended' = suspended + 1 /\ suspended = 0
          BY <2>1, <2>7, <3>1, <3>3 DEF AppAct
        <4>2. QED
          BY <3>1, <4>1 DEF BalanceInv, TimerBalanced
      <3>4. QED
        BY <3>1, <3>2, <3>3
    <2>8. ASSUME streamTeardown PROVE BalanceInv'
      BY <2>1, <2>2, <2>8 DEF streamTeardown, BalanceInv, TimerBalanced
    <2>9. ASSUME RunAdd \/ RunRemove PROVE BalanceInv'
      <3>1. app = "idle" /\ ~torn /\ UNCHANGED <<app, torn>>
        BY <2>1, <2>9 DEF RunAdd, RunRemove, Runs, QueueMayRun
      <3>2. \/ UNCHANGED <<active, suspended>>
            \/ active /\ active' = FALSE /\ suspended' = suspended + 1
            \/ ~active /\ active' = TRUE /\ suspended' = suspended - 1
        BY <2>9 DEF RunAdd, RunRemove, streamResume, streamSuspend
      <3>3. QED
        BY <2>1, <3>1, <3>2 DEF BalanceInv, TimerBalanced
    <2>10. ASSUME RunReceive \/ RunTimeout PROVE BalanceInv'
      <3>1. UNCHANGED <<active, suspended, app, torn>> /\ queue # << >>
        BY <2>10 DEF RunReceive, RunTimeout, Runs
      <3>2. QED
        BY <2>1, <2>4, <3>1
    <2>11. ASSUME streamTimerCallback PROVE BalanceInv'
      BY <2>4, <2>11 DEF streamTimerCallback
    <2>12. QED
      BY <1>2, <2>3, <2>5, <2>6, <2>7, <2>8, <2>9, <2>10, <2>11 DEF Next, DispatchQueue
  <1>3. BalanceInv => TimerBalanced
    BY DEF BalanceInv
  <1>4. QED
    BY <1>1, <1>2, <1>3, SessionInvariant, PTL DEF Spec
=============================================================================
