SPECIFICATION ServicesSpec
CONSTANTS
    Texts = {"t1", "t2"}
    MaxCalls = 3
    MaxFailures = 1
    MaxDrops = 1
    MaxReports = 3
    Reporters = {"a", "b"}
    MaxAddresses = 2
    ReviewRequired = 1
    HideContent = 2
    SuspendUser = 2
    MaxAdminActs = 1
    MaxPosts = 1
    MaxSearches = 2
    MaxSmartAlerts = 1
    MaxEdits = 1
    MaxMishaps = 1
    MaxRatings = 3
INVARIANTS
    TextStoredOnce
    NothingVanishes
    ThresholdIsActedOn
    NoMatchMissed
    AlertedOnce
    RatingsStand
PROPERTIES
    SendSettles
    ActionsAreEarned
CHECK_DEADLOCK FALSE
