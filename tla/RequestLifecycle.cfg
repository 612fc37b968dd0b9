SPECIFICATION Spec
CONSTANTS
  Requests = {r1}
  Calls = {c1}
  Replicas = {w1, w2}
  MaxActive = 1
  Confirmation = 1
  Inactive = 3
  Archive = 5
  MaxTime = 6
  MaxFailures = 2
  MaxClears = 1
  MaxSwitches = 1
INVARIANTS
  ListMatchesStatus
  ScanMatchesStatus
  ToldBeforeArchived
  ToldOncePerClear
CHECK_DEADLOCK FALSE
