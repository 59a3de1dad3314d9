SPECIFICATION MCSpec
CONSTANTS
  ByteRadix = 9
  SYNC0 = 7
  SYNC1 = 8
  KeyboardLen = 2
  MouseLen = 1
  MouseAbsLen = 3
  MicMaxBytes = 8
  MaxPayload = 6
  MaxBytes = 0
  Frames <- TwoTypes
  MaxFrames = 3
  MaxNoise = 2
  Datagrams <- SomeDatagrams
  MaxHeard = 3
CHECK_DEADLOCK FALSE
INVARIANTS
  TypeOK
  FrameInBounds
  DeliveredIsWire
  DeliveredApart
  ValidatorsAgree
  ResyncsInTime
  AlignedArrives
  ForwardedWasThere
  FateOfItsOwn
  RoutesAgree
