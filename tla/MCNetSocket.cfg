CONSTANTS
  Packet = {p, q}
  Datagram = {"data", "long", "error", "empty"}
  MaxSends = 3
  MaxReads = 2
  MaxInstalls = 1
  Races = {}
SPECIFICATION FairSpec
CHECK_DEADLOCK FALSE
INVARIANTS
  TypeOK
  WriteBalanced
  PacketsAccounted
  WrittenInOrder
  
PROPERTIES
  SendsWritten
  
