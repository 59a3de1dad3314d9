SPECIFICATION SerialSpec
CONSTANTS
  ByteRadix = 9
  SYNC0 = 7
  SYNC1 = 8
  KeyboardLen = 2
  MouseLen = 1
  MouseAbsLen = 3
  MicMaxBytes = 8
  MaxPayload = 8
  MaxBytes = 0
  Frames <- SomeFrames
  Foreign <- NewerFrames
  MaxFrames = 3
  MaxForeign = 1
  RingSize = 4
  PacketSize = 3
CHECK_DEADLOCK FALSE
INVARIANTS
  QuietMeansHandled
PROPERTIES
  ImplementsChannel
