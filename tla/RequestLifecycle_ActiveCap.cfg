SPECIFICATION Spec
CONSTANTS
  Requests = {r1, r2}
  Calls = {c1}
  Replicas = {w1}
  MaxActive = 1
  Confirmation = 1
  Inactive = 3
  Archive = 5
  MaxTime = 6
  MaxFailures = 0
  MaxClears = 1
  MaxSwitches = 1
INVARIANT ActiveCap
CHECK_DEADLOCK FALSE
