SPECIFICATION Spec
CONSTANTS
  kNetPacketMaxLen = 256
  MaxRounds = 2
  Message <- MCMessage
  Attributes <- MCAttributes
  Past <- MCPast
INVARIANTS
  PackedOrPeerList
  
  OwnProtocolOnly
  ServerUnderstands
CHECK_DEADLOCK FALSE
