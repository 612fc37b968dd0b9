\* Three calls, so that a ring may have a third transaction in it or behind it.
SPECIFICATION LocksFairSpec
CONSTANTS
  Calls = {c1, c2, c3}
  Offers = {o1, o2}
  None = None
INVARIANTS
  RingsNeedTwoCloses
PROPERTIES
  OrderIsEnough
CHECK_DEADLOCK FALSE
