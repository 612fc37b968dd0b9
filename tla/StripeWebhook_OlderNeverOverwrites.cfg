SPECIFICATION Spec
CONSTANTS
  Workers = {w1, w2}
  Events = {1, 2}
  Statuses = {"ACTIVE", "PAST_DUE", "CANCELED"}
  Lease = 1
  PeriodEnd = 2
  MaxTime = 2
  MaxCrashes = 0
  MaxManages = 0
PROPERTY OlderNeverOverwrites
CHECK_DEADLOCK FALSE
