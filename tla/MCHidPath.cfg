SPECIFICATION MCSpec
CONSTANTS
  Rx = {uart, serial}
  Traffic = {"keyboard"}
  MaxReports = 3
  MaxSuspends = 2
  MaxDetaches = 1
  MaxStimuli = 4
  MaxCfgs <- SomeMaxCfgs
  Coordinates <- AllCoordinates
  ByteRadix = 256
  SYNC0 = 213
  SYNC1 = 170
  KeyboardLen = 8
  MouseLen = 5
  MouseAbsLen = 7
  MicMaxBytes = 7680
  MaxPayload = 65535
  Meanings <- SomeMeanings
SYMMETRY Symmetry
CHECK_DEADLOCK FALSE
INVARIANTS
  NoSecondSignal
  DuplicationBound
  LossNeedsOverlap
  ArmedUntilSignalled
  InLogicalRange
  EdgesReached
  SeenAsMeant
PROPERTIES
  PixelsInOrder
