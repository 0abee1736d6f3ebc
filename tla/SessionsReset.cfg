SPECIFICATION SessionsSpec
CONSTANTS
  Tabs = {x1, x2}
  MaxTokens = 3
  MaxCalls = 2
  MaxIncidents = 1
INVARIANTS OldSessionsFall
CHECK_DEADLOCK FALSE
