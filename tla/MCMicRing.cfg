SPECIFICATION FairSpec
CONSTANTS
  uart = uart
  serial = serial
  Rx <- Both
  RingBytes = 6
  FrameSamples = {1, 2}
  BufferLen = 4
  MaxSamples = 3
INVARIANTS
  TypeOK
  HeardInOrder
  FramesUnbroken
  WholeSamples
  LossIsBounded
PROPERTIES
  RingDrains
