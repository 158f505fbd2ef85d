----------------------------- MODULE StreamFlow -----------------------------
(***************************************************************************)
(* Flow control of a stream (stream_flow.c): operators on a record with    *)
(* the fields of StreamFlow.                                               *)
(*                                                                         *)
(* Times are counted in calls of streamFlowUpdate.  A round trip time is   *)
(* good or not (rtt <= kStreamFlowRttThreshold).  goodConditions and       *)
(* penaltyReductionAccumulator stop growing where no comparison can tell   *)
(* the difference.                                                         *)
(***************************************************************************)
EXTENDS Integers, FiniteSetsExt

CONSTANTS
  FirstPenalty,     \* penalty after streamFlowClear (4 s)
  MinPenalty,       \* smallest penalty (1 s)
  MaxPenalty,       \* largest penalty (60 s)
  LongGood,         \* good conditions that spare a relapse its penalty (10 s)
  ReductionPeriod   \* good conditions that halve the penalty (10 s)

ASSUME PenaltyAssumption ==
  /\ {FirstPenalty, MinPenalty, MaxPenalty, LongGood, ReductionPeriod} \subseteq Nat
  /\ 0 < MinPenalty /\ MinPenalty <= FirstPenalty /\ FirstPenalty <= MaxPenalty

FlowType ==
  [mode : {"Good", "Bad"},
   goodConditions : Nat,
   penalty : MinPenalty..MaxPenalty,
   penaltyReductionAccumulator : 0..(ReductionPeriod + 1)]

streamFlowClear ==
  [mode |-> "Bad", goodConditions |-> 0, penalty |-> FirstPenalty,
   penaltyReductionAccumulator |-> 0]

\* Mutant: the doubled penalty is not capped.
Relapse_slip(f) ==
  [f EXCEPT !.mode = "Bad",
            !.penalty = IF f.goodConditions < LongGood /\ f.penalty < MaxPenalty
                        THEN 2 * f.penalty ELSE f.penalty,
            !.goodConditions = 0,
            !.penaltyReductionAccumulator = 0]

\* The round trip time got bad in good mode: a relapse that comes early
\* doubles the penalty.
Relapse(f) ==
  [f EXCEPT !.mode = "Bad",
            !.penalty = IF f.goodConditions < LongGood /\ f.penalty < MaxPenalty
                        THEN Min({2 * f.penalty, MaxPenalty}) ELSE f.penalty,
            !.goodConditions = 0,
            !.penaltyReductionAccumulator = 0]

\* Mutant: the time towards the next reduction is not accumulated.
StayGood_slip(f) ==
  [f EXCEPT !.goodConditions = Min({f.goodConditions + 1, LongGood})]

\* The round trip time stays good in good mode: the penalty is halved every
\* ReductionPeriod.
StayGood(f) ==
  LET acc == Min({f.penaltyReductionAccumulator + 1, ReductionPeriod + 1})
      halve == acc > ReductionPeriod /\ f.penalty > MinPenalty
  IN  [f EXCEPT !.goodConditions = Min({f.goodConditions + 1, LongGood}),
                !.penalty = IF halve THEN Max({f.penalty \div 2, MinPenalty}) ELSE f.penalty,
                !.penaltyReductionAccumulator = IF halve THEN 0 ELSE acc]

\* Mutant: a bad round trip does not interrupt the good conditions.
Recover_slip(f, good) ==
  LET conditions == IF good THEN f.goodConditions + 1 ELSE f.goodConditions
  IN  IF conditions > f.penalty
      THEN [f EXCEPT !.mode = "Good", !.goodConditions = 0, !.penaltyReductionAccumulator = 0]
      ELSE [f EXCEPT !.goodConditions = conditions]

\* In bad mode: good conditions longer than the penalty lead back to good mode.
Recover(f, good) ==
  LET conditions == IF good THEN f.goodConditions + 1 ELSE 0
  IN  IF conditions > f.penalty
      THEN [f EXCEPT !.mode = "Good", !.goodConditions = 0, !.penaltyReductionAccumulator = 0]
      ELSE [f EXCEPT !.goodConditions = conditions]

\* streamFlowUpdate: a relapse goes on to the test for bad mode.
streamFlowUpdate(f, good) ==
  LET g == IF f.mode = "Bad" THEN f ELSE IF good THEN StayGood(f) ELSE Relapse(f)
  IN  IF g.mode = "Bad" THEN Recover(g, good) ELSE g
=============================================================================
