SPECIFICATION Spec
CONSTANTS
  Sponsorships = {s1}
  Workers = {w1, w2}
  Ladder <- MCLadder
  MonthStart <- OneMonthStart
  Days <- OneMonthDays
  MaxAttempts = 4
  MaxInFlight = 2
  MaxFaults = 1
CONSTRAINT OnlyRetriesOverlap
SYMMETRY Symmetry
INVARIANTS TypeOK AttemptsContiguous OneOpenAttempt PaidMeansApproved
PROPERTIES KeepsBillingPromise
