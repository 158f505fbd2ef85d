CONSTANTS
  BufferCapacity = 3
  MaxSequence = 16
  AckWidth = 3
  MaxRtt = 1
  a = a
  b = b
  SendsA = 4
  SendsB = 2
  End <- MCEnd
  MaxSends <- MCSends
  MaxLag = 2
  MaxGap = 5
SPECIFICATION Spec
INVARIANTS
  TypeOK
  
  AckFieldExact
  
PROPERTY NeverOverwrites
