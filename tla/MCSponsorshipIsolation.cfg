SPECIFICATION Spec
CONSTANTS
  Sponsorships = {s1, s2}
  Workers = {w1}
  Ladder <- MCLadder
  MonthStart <- OneMonthStart
  Days <- OneMonthDays
  MaxAttempts = 3
  MaxInFlight = 1
  MaxFaults = 0
PROPERTIES ScanVisitsEveryRow
