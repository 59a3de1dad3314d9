SPECIFICATION Spec
CONSTANTS
  Rx = {uart}
  Traffic = {"keyboard"}
  MaxReports = 2
  MaxSuspends = 1
  MaxDetaches = 0
INVARIANTS
  ForwardedInOrder
