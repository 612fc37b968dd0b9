\* Two requests at once: one that timed out and its retry, or those of two clients or tabs.
SPECIFICATION ClientsSpec
CONSTANTS
  Requests = {r1, r2}
  MaxTokens = 3
  MaxFailures = 1
  MaxGenerations = 2
  Tabs = {t1, t2}
SYMMETRY Symmetry
INVARIANTS
  LogoutSticks
  WebLogoutSticks
PROPERTIES
  OnlyDeadTokensThrown
CHECK_DEADLOCK FALSE
