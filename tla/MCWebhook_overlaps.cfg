SPECIFICATION OverlapSpec
CONSTANTS
  Workers = {w1, w2}
  Events = {1, 2}
  Statuses = {"ACTIVE", "UNPAID", "CANCELED"}
  Lease = 1
  PeriodEnd = 2
  MaxTime = 2
  MaxCrashes = 1
  MaxManages = 1
SYMMETRY Symmetry
INVARIANTS
  AckedIsApplied
  RowFollowsStripe
  CacheMirrorsRow
PROPERTIES
  CanceledIsFinal
CHECK_DEADLOCK FALSE
