SPECIFICATION OverlapSpec
CONSTANTS
  Calls = {c1, c2}
  Offers = {o1, o2}
  Sellers = {s1, s2}
  None = None
SYMMETRY Symmetry
INVARIANTS
  OneDeal
  DealXorEnded
  DealClosesRequest
  OneOfferPerSeller
  GoneOnlyWhenOver
  NegotiatingShows
  OverWithoutTalks
PROPERTIES
  ClosedIsFinal
  OutcomeIsFinal
  ImplementsDeal
CHECK_DEADLOCK FALSE
