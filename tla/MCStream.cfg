CONSTANTS
  Addr = {x}
  StreamTimeout = 2
  GoodInterval = 1
  BadInterval = 3
  Rtt = {TRUE, FALSE}
  MaxCalls = 3
  MaxQueue = 3
  MaxRefusals = 1
  Split = FALSE
  FirstPenalty = 1
  MinPenalty = 1
  MaxPenalty = 3
  LongGood = 1
  ReductionPeriod = 1
SPECIFICATION FairSpec
CHECK_DEADLOCK FALSE
INVARIANTS
  TypeOK
  TimerBalanced
PROPERTIES
  
  SilenceReported
  ReturnNeedsStreak
  FlowRecovers
