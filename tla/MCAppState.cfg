SPECIFICATION MCSpec
CONSTANTS
  uart = uart
  core_service = core_service
  Callers <- Two
  Active = 2
  SleepAfter = 3
  MaxDelay = 1
  MaxTroubles = 1
  MaxBroken = 1
INVARIANTS
  StateAgrees
  UsesWhatIsThere
  OnlyKnownGaps
PROPERTIES
  LabelFollowsUse
  BacklightFollowsUse
  GoesDark
  StartsUnlessBroken
