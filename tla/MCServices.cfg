SPECIFICATION ServicesSpec
CONSTANTS
  Offers = {x1, x2}
  Staff = {y1, y2}
  MaxQuantity = 2
  Enrollments = {e1}
  Slots = {x1, x2}
  Office = {y1, y2}
  SlotHours <- MCSlotHours
  MinHours = 3
  Amounts <- MCAmounts
  MinDonationAmount = 1000
  Tabs = {x1, x2}
  MaxTokens = 3
  MaxCalls = 2
  MaxIncidents = 1
  Documents <- MCDocuments
  TypeOf <- MCTypeOf
  Owners = {w1}
  Reviewers = {y1, y2}
  Nits = {n1}
  NoNit = NoNit
  Jobs = {x1, x2}
  MaxAttempts = 2
  MaxStalls = 1
  Collections = {k1, k2, k3}
  Campaigns = {c1}
  Concept <- MCConcept
  Amount <- MCAmount
  Transactions = {y1, y2}
  MaxInteger = 2
  MaxCrashes = 1
SYMMETRY Symmetry
INVARIANTS ServicesTypeOK NeverOvercounts CertificateEarned NeverRefusesItself SurvivorsWereCaught
  RteIsEarned RetryingHasAJob NetReachesIntended NetIsPositive RaisedIsLedger CountedApart
PROPERTIES AppliedOnce ApprovedProofFinal CertificateFinal DecidedOnce GivingMoreNeverCosts CountsExactlyOnce
CHECK_DEADLOCK FALSE
