\* Two tabs, an expiry of the attempt and one of the session, one failure.
SPECIFICATION FairSpec
CONSTANTS
    Calls = {"c1", "c2"}
    Ttl = 1
    StripeTtl = 2
    MaxTime = 2
    MaxFailures = 1
    MaxPayments = 1
INVARIANTS
    LiveIsOpen
    OneLiveCheckout
    PaymentHasOwner
PROPERTIES
    AskingLeadsSomewhere
CHECK_DEADLOCK FALSE
