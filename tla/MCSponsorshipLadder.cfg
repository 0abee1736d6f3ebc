SPECIFICATION FairSpec
CONSTANTS
  Sponsorships = {s1}
  Workers = {w1}
  Ladder <- MCLadder
  MonthStart <- MCMonthStart
  Days <- MCDays
  MaxAttempts = 4
  MaxInFlight = 1
  MaxFaults = 0
INVARIANTS SuspensionIsRecoverable OnLadder
PROPERTIES ApprovedRetryIsCredited OverduePeriodSettles
