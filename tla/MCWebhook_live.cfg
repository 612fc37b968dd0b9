SPECIFICATION OverlapFairSpec
CONSTANTS
  Workers = {w1, w2}
  Events = {1}
  Statuses = {"ACTIVE", "PAST_DUE", "CANCELED"}
  Lease = 1
  PeriodEnd = 2
  MaxTime = 3
  MaxCrashes = 2
  MaxManages = 1
INVARIANT ClaimsApart
PROPERTY EventProcessed
CHECK_DEADLOCK FALSE
