CONSTANTS
  Txn = {x}
  MaxId = 3
  MaxRetries = 1
  MaxSources = 2
  PoolSize = 3
  PeerPoolSize = 3
  ResponseType = {"Success"}
  Understood = {x}
  MaxToggles = 0
  Preempt = {"timer"}
  NULL = NULL
SPECIFICATION FairSpec
CHECK_DEADLOCK FALSE
PROPERTY
  RequestEnds
