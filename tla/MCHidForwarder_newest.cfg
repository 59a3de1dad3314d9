SPECIFICATION Spec
CONSTANTS
  Rx = {uart}
  Traffic = {"keyboard"}
  MaxReports = 3
  MaxSuspends = 0
  MaxDetaches = 0
INVARIANTS
  NewestForwarded
