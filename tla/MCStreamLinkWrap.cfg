CONSTANTS
  BufferCapacity = 4
  MaxSequence = 8
  AckWidth = 3
  MaxRtt = 1
  a = a
  b = b
  SendsA = 10
  SendsB = 0
  End <- MCEnd
  MaxSends <- MCSends
  MaxLag = 2
  MaxGap = 2
SPECIFICATION Spec
INVARIANT AckFieldExact
