SPECIFICATION Spec
CONSTANTS
  Sponsorships = {s1}
  Workers = {w1}
  Ladder <- MCLadder
  MonthStart <- OneMonthStart
  Days <- OneMonthDays
  MaxAttempts = 3
  MaxInFlight = 2
  MaxFaults = 0
PROPERTIES CancelledIsTerminal
