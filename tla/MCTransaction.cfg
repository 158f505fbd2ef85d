CONSTANTS
  Txn = {x, y}
  MaxId = 3
  MaxRetries = 1
  MaxSources = 2
  PoolSize = 2
  PeerPoolSize = 5
  ResponseType = {"Success", "ClientError"}
  Understood = {x, y}
  MaxToggles = 1
  Preempt = {}
  NULL = NULL
SPECIFICATION FairSpec
CHECK_DEADLOCK FALSE
INVARIANTS
  TypeOK
  
  TableLive
  NeverStranded
  PacketsConserved
PROPERTIES
  
  RequestEnds
