SPECIFICATION FairSpec
CONSTANTS
  Rx = {uart}
  Traffic = {"keyboard", "mouse", "mouse_abs"}
  MaxReports = 1
  MaxSuspends = 1
  MaxDetaches = 1
INVARIANTS
  TypeOK
  OnlyHandled
PROPERTIES
  PendingDrains
  ActivityWakes
