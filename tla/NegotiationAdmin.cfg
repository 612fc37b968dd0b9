SPECIFICATION AdminSpec
CONSTANTS
  Calls = {c1, c2}
  Offers = {o1, o2}
  Sellers = {s1, s2}
  None = None
SYMMETRY Symmetry
PROPERTIES
  OnlyAdminReopens
  OutcomeOutlivesAdmin
CHECK_DEADLOCK FALSE
